------------------------------ MODULE PaperRecon ------------------------------
(***************************************************************************)
(* The paper desk reconciled with its ledger: how trading/loop.go and      *)
(* positions/manager.go open and close positions and emit the events, and  *)
(* how the runtime authority of internal/reconciliationv2 compares the two *)
(* and halts trading on what it finds (engine.go, detectors.go,            *)
(* killswitch_hook.go).                                                    *)
(*                                                                         *)
(* A cycle reads the ledger first and the position manager later; nothing  *)
(* stops the desk between the two.  Events are emitted by goroutines of    *)
(* their own, after the manager has changed.  All positions are on one     *)
(* symbol, as on the desk, so a position is looked up by its side.         *)
(***************************************************************************)
EXTENDS Ledger

CONSTANT Sides

VARIABLES
  side,      \* the side of each position
  book,      \* positions.Manager
  tracking,  \* positions the manager has opened, not yet mapped to an order
  mapped,    \* the keys of positionToOrderID
  closes,    \* the close queue
  cycle,     \* a reconciliation cycle: idle, the ledger read, or it has halted trading
  moved,     \* history: the desk or the ledger changed since the ledger was read
  strayed    \* history: positions never mapped or closed before they were, dropped by a
             \* reset of the account, or cut by a restart

desk == <<side, book, tracking, mapped, closes>>
vars == <<ledgerVars, desk, cycle, moved, strayed>>

TypeOK ==
  /\ LedgerTypeOK
  /\ side \in [Pos -> Sides]
  /\ book \in [Pos -> {"none", "open", "closed"}]
  /\ tracking \subseteq Pos /\ mapped \subseteq Pos /\ closes \subseteq Pos
  /\ strayed \subseteq Pos
  /\ cycle \in {"idle", "read", "halt"} /\ moved \in BOOLEAN

-----------------------------------------------------------------------------
(* The desk *)

\* A step of the desk or of an append is a movement under a cycle that runs.
Moves == moved' = (cycle = "read") /\ UNCHANGED cycle

Open == {p \in Pos : book[p] = "open"}

\* Manager.OpenPosition.  The kill switch was consulted before the fill, so a
\* position may still open after a halt.
OpenPosition(p) ==
  /\ book[p] = "none"
  /\ book' = [book EXCEPT ![p] = "open"]
  /\ tracking' = tracking \cup {p}
  /\ Moves /\ UNCHANGED <<ledgerVars, side, mapped, closes, strayed>>

\* openAndTrackPosition maps the position and lets a goroutine emit its opening.
Track(p) ==
  /\ p \in tracking
  /\ tracking' = tracking \ {p}
  /\ mapped' = mapped \cup {p}
  /\ Emit({<<"opened", p>>})
  /\ Moves /\ UNCHANGED <<side, book, closes, strayed>>

\* It returns without a mapping, and without an event, when the fill has no client
\* order id.
LeaveUnmapped(p) ==
  /\ p \in tracking
  /\ tracking' = tracking \ {p}
  /\ strayed' = strayed \cup {p}
  /\ Moves /\ UNCHANGED <<ledgerVars, side, book, mapped, closes>>

\* A stop, a target or an expiry: the close event is queued, the position gone.
ClosePosition(p) ==
  /\ book[p] = "open"
  /\ book' = [book EXCEPT ![p] = "closed"]
  /\ closes' = closes \cup {p}
  /\ Moves /\ UNCHANGED <<ledgerVars, side, tracking, mapped, strayed>>

\* Mutant of Closing: the closing is emitted for the position without its mapping.
ClosingUnmapped(p) == {}

\* Only a mapped position has its closing emitted.
Closing(p) == IF p \in mapped THEN {<<"closed", p>>} ELSE {}

ProcessClose(p) ==
  /\ p \in closes
  /\ closes' = closes \ {p}
  /\ mapped' = mapped \ {p}
  /\ strayed' = IF p \in mapped THEN strayed ELSE strayed \cup {p}
  /\ Emit(Closing(p))
  /\ Moves /\ UNCHANGED <<side, book, tracking>>

\* Manager.Reset, by POST /api/admin/reset: the book is emptied with no close event.  The
\* ledger, the mappings and the queued closes stay, and a position being tracked is
\* still recorded as opened.
Reset ==
  /\ book' = [p \in Pos |-> IF book[p] = "open" THEN "closed" ELSE book[p]]
  /\ strayed' = strayed \cup Open
  /\ Moves /\ UNCHANGED <<ledgerVars, side, tracking, mapped, closes>>

\* An append of the desk takes one step.
Write(e) == AppendStep(e) /\ Moves /\ UNCHANGED <<desk, strayed>>

\* The process dies and restarts.  The book in the database is written, and emptied at
\* a reset, by writes of their own, whose errors are logged: any position that was in
\* the manager may come back open, and any may be lost.  Those that come back are mapped.
Restart ==
  /\ LedgerRestart
  /\ \E kept \in SUBSET ({p \in Pos : book[p] # "none"} \ tracking) :
       /\ book' = [p \in Pos |-> IF p \in kept THEN "open"
                                 ELSE IF book[p] = "open" THEN "closed" ELSE book[p]]
       /\ mapped' = kept
       /\ strayed' = strayed \cup tracking \cup closes
                            \cup {p \in Pos : (p \in kept) # (book[p] = "open")}
  /\ tracking' = {} /\ closes' = {}
  /\ cycle' = "idle" /\ moved' = FALSE
  /\ UNCHANGED side

-----------------------------------------------------------------------------
(* Reconciliation *)

SidesOf(S) == {side[p] : p \in S}

\* RunDomain reads the ledger; an error of the store ends the cycle.
BeginCycle ==
  /\ cycle # "read" /\ LoadEvents
  /\ cycle' = "read" /\ moved' = FALSE
  /\ UNCHANGED <<desk, strayed>>

Stacked(S) == \E p, q \in S : p # q /\ side[p] = side[q]

\* Mutant of Mismatch: sides are not told apart.
MismatchBySymbol == (oms = {}) # (Open = {}) \/ Stacked(oms)

\* PositionDriftDetector: a side held that the ledger does not show (ghost), a
\* side shown that is not held (missing), two shown on one side (duplicate).
Mismatch == SidesOf(oms) # SidesOf(Open) \/ Stacked(oms)

\* A position held is compared with any position shown on its side, another one
\* perhaps: their sizes and prices may differ.
MayDiffer == \E p \in Open, q \in oms : p # q /\ side[p] = side[q]

\* The manager is read, the detector runs, and CriticalDriftKillSwitchHook acts:
\* any mismatch of positions halts, its severity and its repair notwithstanding.
\* Repair replays the ledger and keeps nothing.  A cycle within the hook's grace
\* period has no effect and is left out.
Compare ==
  /\ cycle = "read" /\ moved' = FALSE
  /\ \E found \in {Mismatch, Mismatch \/ MayDiffer} :
       cycle' = IF found THEN "halt" ELSE "idle"
  /\ UNCHANGED <<ledgerVars, desk, strayed>>

Time == Tick /\ UNCHANGED <<desk, cycle, moved, strayed>>

Init ==
  /\ LedgerInit
  /\ side \in [Pos -> Sides] /\ book = [p \in Pos |-> "none"]
  /\ tracking = {} /\ mapped = {} /\ closes = {}
  /\ cycle = "idle" /\ moved = FALSE /\ strayed = {}

Desk == Reset \/ \E p \in Pos : \/ OpenPosition(p) \/ Track(p) \/ LeaveUnmapped(p)
                                \/ ClosePosition(p) \/ ProcessClose(p)

Next == Desk \/ (\E e \in Event : Write(e)) \/ BeginCycle \/ Compare
        \/ Time \/ Restart

Spec == Init /\ [][Next]_vars

-----------------------------------------------------------------------------
(* Safety *)

\* The manager and the ledger, fully replayed, disagree on a position.
Divergent(p) == (book[p] = "open") # (FullReplay[p] = "opened")

UnderWay(p) ==
  \/ p \in tracking \cup closes
  \/ \E k \in Kind : ev[<<k, p>>].pc \in {"stamped", "numbered"}

\* Both events of a position are stored with one stamp: the replay orders them by
\* their numbers, which goroutines draw in any order.
Tied(p) == /\ Kind \X {p} \subseteq Stored
           /\ ev[<<"opened", p>>].at = ev[<<"closed", p>>].at

\* The ledger becomes the authoritative history of every position (loop.go:2624):
\* the two disagree on one only while it is being recorded, after an append of it
\* was lost, when it was never mapped or closed before it was, when a reset of the
\* account dropped it or a restart cut it, or when its two events carry one stamp.
LedgerMatchesBook ==
  \A p \in Pos : Divergent(p) =>
    \/ UnderWay(p) \/ p \in strayed \/ Tied(p)
    \/ \E k \in Kind : ev[<<k, p>>].pc = "lost"

\* The reader may have the ledger wrong on a position.
Misread(p) == p \in swapped \/ Tied(p) \/ \E e \in late : e[2] = p

\* killswitch_hook.go:92-94: only a failure of integrity should halt trading.
\* Reconciliation halts only if the desk moved under the cycle, or holds two
\* positions on one side, or the manager and the ledger disagree on a position,
\* or an event of one came late, after its successor or in its instant: never on a book that the
\* ledger records, however the reads were cached.
HaltIsExplained ==
  [][(cycle = "read" /\ cycle' = "halt") =>
       moved \/ Stacked(Open) \/ \E p \in Pos : Divergent(p) \/ Misread(p)]_vars

\* Another position stands for this one in the comparison by side.
Masked(p) == \E q \in Pos \ {p} : side[q] = side[p] /\ q \in Open \cup oms

\* A cycle that a restart does not cut (only a restart takes time then) and under
\* which nothing moved halts on a position that the manager and the
\* ledger disagree on, unless another one on its side hides it or an event of it
\* was misread.
CalmCycleFindsDrift ==
  [][cycle = "read" /\ cycle' = "idle" /\ clock' = clock /\ ~moved =>
       \A p \in Pos : Divergent(p) => Masked(p) \/ Misread(p)]_vars

=============================================================================
