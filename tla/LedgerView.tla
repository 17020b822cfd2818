------------------------------ MODULE LedgerView ------------------------------
(***************************************************************************)
(* What the rest of the engine may assume of the event ledger it reads     *)
(* through ledger_oms_reader.go, as if every read were a full replay: the   *)
(* log only grows, an answer is never forgotten by a later one, and every  *)
(* answer holds the whole log but, perhaps, events that were written late. *)
(* Ledger implements it with a cache, a cursor and an overlap window.      *)
(***************************************************************************)
CONSTANT Event

VARIABLES log,     \* events the store holds
          late,    \* the ones an answer may miss
          answer   \* the events the last read returned

Init == log = {} /\ late = {} /\ answer = {}

Write(e) ==
  /\ e \in Event \ log
  /\ log' = log \cup {e}
  /\ late' = late \/ late' = late \cup {e}
  /\ answer' = answer

Read ==
  /\ (log \ late) \cup answer \subseteq answer' /\ answer' \subseteq log
  /\ UNCHANGED <<log, late>>

Next == Read \/ \E e \in Event : Write(e)

Spec == Init /\ [][Next]_<<log, late, answer>>

=============================================================================
