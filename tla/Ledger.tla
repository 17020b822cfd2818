-------------------------------- MODULE Ledger --------------------------------
(***************************************************************************)
(* The durable event ledger as the paper desk writes it and reconciliation *)
(* reads it: the Mongo store (internal/ledger/mongo_store.go) and the      *)
(* incremental reader of internal/reconciliationv2/ledger_oms_reader.go.   *)
(*                                                                         *)
(* An Append is three steps of one goroutine: the event is stamped when it *)
(* is built, numbered by a counter of its aggregate, then inserted; each   *)
(* call to the store may fail, and the desk only logs that.  The reader    *)
(* replays everything once, then asks for what was created since the       *)
(* newest event it has seen, less an overlap.  The events are the opening  *)
(* and the closing of each position: what the position projection tells    *)
(* apart.  The cache is kept as the projection reads it: the events in it, *)
(* and for every position the kind of the last one applied.                *)
(***************************************************************************)
EXTENDS Integers, FiniteSets

CONSTANTS Pos,        \* paper positions, an aggregate each
          Overlap,    \* incrementalOverlap, in units of the clock
          CacheCap,   \* incrementalCacheCap, counted in these events
          MaxClock    \* bound of the model: how far the clock runs

ASSUME LedgerAssumption ==
  /\ IsFiniteSet(Pos)
  /\ Overlap \in Nat /\ CacheCap \in Nat /\ MaxClock \in Nat

VARIABLES
  clock,     \* the wall clock that stamps created_at
  ev,        \* every event: how far its Append is, its stamp and its number
  counter,   \* ledger_sequences: the last number given for each aggregate
  primed,    \* cacheInit
  cursor,    \* the newest created_at the reader has seen
  seen,      \* the events in its cache
  last,      \* for each position the last event applied to the cache
  answer,    \* the events the last call of loadEvents returned
  oms,       \* the positions that its projection shows open
  late,      \* history: events inserted after their overlap had passed
  swapped    \* history: positions whose closing was inserted before their opening

reader == <<primed, cursor, seen, last, answer, oms>>
ledgerVars == <<clock, ev, counter, reader, late, swapped>>

Kind == {"opened", "closed"}
Event == Kind \X Pos
Stored == {e \in Event : ev[e].pc = "stored"}

LedgerTypeOK ==
  /\ clock \in 0..MaxClock /\ cursor \in 0..clock
  /\ ev \in [Event -> [pc : {"none", "stamped", "numbered", "stored", "lost"},
                       at : 0..MaxClock, seq : Nat]]
  /\ counter \in [Pos -> Nat] /\ primed \in BOOLEAN
  /\ seen \subseteq Event /\ answer \subseteq Event /\ late \subseteq Event
  /\ last \in [Pos -> Kind \cup {"none"}]
  /\ oms \subseteq Pos /\ swapped \subseteq Pos

-----------------------------------------------------------------------------
(* Writing *)

Unsent == [pc |-> "none", at |-> 0, seq |-> 0]
Lost == [Unsent EXCEPT !.pc = "lost"]

\* The goroutines that emit the events E start: NewEvent stamps created_at before
\* Append is called.  A position that a restart brought back may close a second
\* time; a closing that is stored already is left as it is, as another one
\* changes nothing in the projection.
Emit(E) ==
  /\ ev' = [e \in Event |-> IF e \in E /\ ev[e].pc \in {"none", "lost"}
                            THEN [pc |-> "stamped", at |-> clock, seq |-> 0] ELSE ev[e]]
  /\ UNCHANGED <<clock, counter, reader, late, swapped>>

\* NextSequence, an atomic increment; a number whose insert fails stays unused.
Number(e) ==
  /\ ev[e].pc = "stamped"
  /\ counter' = [counter EXCEPT ![e[2]] = @ + 1]
  /\ ev' = [ev EXCEPT ![e].pc = "numbered", ![e].seq = counter[e[2]] + 1]
  /\ UNCHANGED <<clock, reader, late, swapped>>

Late(e) == clock > ev[e].at + Overlap

\* The unique index on the aggregate and the number refuses a second use.
Unique(e) == \A f \in Stored : f[2] = e[2] => ev[f].seq # ev[e].seq

Insert(e) ==
  /\ ev[e].pc = "numbered" /\ Unique(e)
  /\ ev' = [ev EXCEPT ![e].pc = "stored"]
  /\ late' = IF Late(e) THEN late \cup {e} ELSE late
  /\ swapped' = IF e[1] = "opened" /\ <<"closed", e[2]>> \in Stored
                THEN swapped \cup {e[2]} ELSE swapped
  /\ UNCHANGED <<clock, counter, reader>>

\* Either call to the store may fail; the caller logs the error and gives up.
AppendFails(e) ==
  /\ ev[e].pc \in {"stamped", "numbered"}
  /\ ev' = [ev EXCEPT ![e] = Lost]
  /\ UNCHANGED <<clock, counter, reader, late, swapped>>

Tick ==
  /\ clock < MaxClock /\ clock' = clock + 1
  /\ UNCHANGED <<ev, counter, reader, late, swapped>>

-----------------------------------------------------------------------------
(* Reading *)

\* Both replays sort by created_at, then by the number.
Before(e, f) == \/ ev[e].at < ev[f].at
                \/ ev[e].at = ev[f].at /\ ev[e].seq < ev[f].seq

\* The last event of position p in a replay of the events S: its state there.
LastOf(S, p) ==
  IF \A e \in S : e[2] # p THEN "none"
  ELSE IF \E k \in Kind : \A e \in S : e[2] = p => e[1] = k
  THEN (CHOOSE e \in S : e[2] = p)[1]
  ELSE IF Before(<<"opened", p>>, <<"closed", p>>) THEN "closed" ELSE "opened"

OpenIn(state) == {p \in Pos : state[p] = "opened"}

FullReplay == [p \in Pos |-> LastOf(Stored, p)]

\* Mutant of Newest: the cursor moves past what was read.
NewestExclusive(S) == {t + 1 : t \in {cursor, clock} \cup {ev[e].at : e \in S}}

\* Other events of the account, the mismatches reconciliation itself records
\* among them, may move the cursor up to the present.
Newest(S) == {t \in {cursor, clock} \cup {ev[e].at : e \in S} :
                t >= cursor /\ \A e \in S : ev[e].at <= t}

\* Mutant of Fresh: no overlap is read again.
FreshSinceCursor == {e \in Stored \ seen : ev[e].at >= cursor}

\* ReplayAccountSince(cursor - overlap), without the events already in the cache.
Fresh == {e \in Stored \ seen : ev[e].at >= cursor - Overlap}

\* The first call replays the account and keeps the result.
Prime ==
  /\ ~primed /\ primed' = TRUE
  /\ cursor' \in Newest(Stored)
  /\ seen' = Stored /\ last' = FullReplay
  /\ answer' = Stored /\ oms' = OpenIn(FullReplay)
  /\ UNCHANGED <<clock, ev, counter, late, swapped>>

\* Mutant of Extended: fresh events are merged in front of the cached ones.
ExtendedInFront(S) == [p \in Pos |-> IF last[p] = "none" THEN LastOf(S, p) ELSE last[p]]

\* Fresh events are appended behind the cached ones, whatever their stamp.
Extended(S) == [p \in Pos |-> IF LastOf(S, p) = "none" THEN last[p] ELSE LastOf(S, p)]

\* A later call appends what is fresh.  Above its cap the cache is dropped and
\* this call answers with a full replay; the cursor stays.
Extend ==
  /\ primed
  /\ cursor' \in Newest(Fresh)
  /\ IF Cardinality(seen \cup Fresh) <= CacheCap
     THEN /\ seen' = seen \cup Fresh /\ last' = Extended(Fresh)
          /\ answer' = seen \cup Fresh /\ oms' = OpenIn(Extended(Fresh))
          /\ primed' = TRUE
     ELSE /\ seen' = {} /\ last' = [p \in Pos |-> "none"] /\ primed' = FALSE
          /\ answer' = Stored /\ oms' = OpenIn(FullReplay)
  /\ UNCHANGED <<clock, ev, counter, late, swapped>>

LoadEvents == Prime \/ Extend

\* The process dies: appends under way are lost, and so is the cache.  What was
\* last answered is kept, to compare it with the next answer.  It takes a while.
LedgerRestart ==
  /\ clock < MaxClock /\ clock' = clock + 1
  /\ ev' = [e \in Event |-> IF ev[e].pc \in {"none", "stored"} THEN ev[e]
                            ELSE Lost]
  /\ primed' = FALSE /\ cursor' = 0 /\ seen' = {} /\ last' = [p \in Pos |-> "none"]
  /\ UNCHANGED <<counter, answer, oms, late, swapped>>

LedgerInit ==
  /\ clock = 0 /\ ev = [e \in Event |-> Unsent] /\ counter = [p \in Pos |-> 0]
  /\ primed = FALSE /\ cursor = 0 /\ seen = {} /\ last = [p \in Pos |-> "none"]
  /\ answer = {} /\ oms = {} /\ late = {} /\ swapped = {}

AppendStep(e) == Number(e) \/ Insert(e) \/ AppendFails(e)

LedgerNext ==
  \/ \E e \in Event : AppendStep(e) \/ Emit({e})
  \/ Tick \/ LoadEvents \/ LedgerRestart

LedgerSpec == LedgerInit /\ [][LedgerNext]_ledgerVars

-----------------------------------------------------------------------------
(* Refinement: reading incrementally is reading the whole log *)

Log == INSTANCE LedgerView WITH log <- Stored

\* ledger_oms_reader.go:25-27: events written slightly out of created_at order
\* are never missed.  Each answer holds every event but those whose insert came
\* more than an overlap after their stamp, and all that was answered before,
\* across cache overflows and restarts.
ReadsTheLog == Log!Spec

(* Safety *)

\* A position is shown open after its closing was read only when the closing was
\* inserted before the opening, or carries no later stamp.
ReadInOrder ==
  \A p \in oms : <<"closed", p>> \in answer =>
    p \in swapped \/ ev[<<"closed", p>>].at <= ev[<<"opened", p>>].at

=============================================================================
