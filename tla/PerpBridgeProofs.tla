--------------------------- MODULE PerpBridgeProofs ---------------------------
(***************************************************************************)
(* Theorems about PerpBridge, for any number of trades, streams, products  *)
(* and any caps: what the book, its file, the caps, CLOSE-ALL and the      *)
(* brackets keep while the desk, the monitor and CLOSE-ALL interleave, and *)
(* across crashes and restarts.                                            *)
(***************************************************************************)
EXTENDS PerpBridge, FiniteSetTheorems, TLAPS

-----------------------------------------------------------------------------
(* The inductive invariant *)

\* The trade of OnPaperOpen, from before its order on; and when its bracket is placed.
Begun == IF opener.pc = "idle" THEN {} ELSE {opener.t}
Attached == IF opener.pc = "attached" THEN {opener.t} ELSE {}

\* Orders are sent by a process that is up; the book is the file's, or what Restore took
\* over from it.
FileInv ==
  /\ phase # "up" => opener.pc = "idle" /\ monitor.pc = "idle" /\ closer.pc = "idle"
  /\ phase = "down" => book = {}
  /\ phase = "orphans" => book \subseteq disk.open
  /\ DiskIsBook

\* The trade that is being opened is in nobody's hands, and a trade whose bracket is to
\* be cancelled has left the book.
FreshInv ==
  /\ Begun \cap (book \cup monitor.todo) = {}
  /\ monitor.pc \in {"finish", "cancel"} => monitor.t \notin Begun
  /\ monitor.pc = "cancel" => monitor.t \notin book

BracketInv ==
  \A t \in (book \cup disk.open \cup Attached) \cap guarded : Product(t) \in guard \cup bare

WithinLimits(S) ==
  /\ \A t, u \in S : StreamOf[t] = StreamOf[u] => t = u
  /\ Cardinality(S) <= MaxOpen
  /\ \A p \in Products : Cardinality(On(p, S)) <= MaxPerSymbol

LimitInv == WithinLimits(book \cup Begun) /\ WithinLimits(disk.open)

\* Of the trades that were there when CLOSE-ALL began, those it has not come to yet.
Ahead == closer.todo \cup (IF closer.pc = "finish" THEN {closer.t} ELSE {})

SweepInv ==
  /\ sweep.state = "runs" =>
       /\ ~armed /\ closer.pc # "idle"
       /\ book \subseteq Ahead \cup sweep.carried /\ Begun \subseteq sweep.carried
  /\ sweep.state = "clean" => ~armed /\ book \cup Begun \subseteq sweep.carried
  /\ phase # "up" => sweep.state = "no"

-----------------------------------------------------------------------------
(* Types *)

LEMMA ProductType == ASSUME NEW t \in Trades PROVE StreamOf[t] \in Streams /\ Product(t) \in Products
BY PerpBridgeAssumption DEF PerpBridgeAssumption, Product

\* What an order does to the position of its product.
LEMMA FillType ==
  ASSUME TypeOK, NEW t \in Trades, NEW sign \in {1, -1}, Fill(t, sign),
         IF sign = 1 THEN Fillable(t) ELSE OnSide(t)
  PROVE  net' \in [Products -> -MaxNet..MaxNet]
<1>1. Product(t) \in Products BY ProductType
<1>2. net[Product(t)] \in -MaxNet..MaxNet /\ MaxNet \in Nat
  BY <1>1, PerpBridgeAssumption DEF TypeOK, PerpBridgeAssumption
<1>3. net[Product(t)] + sign * Towards(t) \in -MaxNet..MaxNet
  <2>1. CASE Towards(t) = 1 /\ sign = 1 BY <1>2, <2>1 DEF Fillable
  <2>2. CASE Towards(t) = -1 /\ sign = 1 BY <1>2, <2>2 DEF Fillable
  <2>3. CASE Towards(t) = 1 /\ sign = -1 BY <1>2, <2>3 DEF OnSide
  <2>4. CASE Towards(t) = -1 /\ sign = -1 BY <1>2, <2>4 DEF OnSide
  <2> QED BY <2>1, <2>2, <2>3, <2>4 DEF Towards
<1> QED BY <1>1, <1>3 DEF Fill, TypeOK

LEMMA ExitType ==
  ASSUME TypeOK, NEW t \in Trades
  PROVE  /\ ExitAccepted(t) => net' \in [Products -> -MaxNet..MaxNet] /\ stray' \subseteq Products
         /\ ExitFails(t) => net' \in [Products -> -MaxNet..MaxNet]
BY FillType, ProductType DEF ExitAccepted, ExitFails, TypeOK

LEMMA OpenerType ==
  ASSUME TypeOK, opener.pc # "idle"
  PROVE  /\ opener.t \in Trades /\ opener \in [pc : {"begun", "filled", "attached"}, t : Trades]
         /\ \A pc \in {"begun", "filled", "attached"} :
              [opener EXCEPT !.pc = pc] \in [pc : {"begun", "filled", "attached"}, t : Trades]
BY DEF TypeOK, NoTrade

LEMMA EnterType == TypeOK /\ Enter => TypeOK'
<1> SUFFICES ASSUME TypeOK, Enter PROVE TypeOK' OBVIOUS
<1> USE DEF custody, venue, history
<1>1. CASE OpenRefused BY <1>1 DEF OpenRefused, TypeOK
<1>2. CASE GridSwitchesOff
  <2>1. StreamOf[opener.t] \in Streams BY <1>2, OpenerType, ProductType DEF GridSwitchesOff
  <2> QED BY <1>2, <2>1 DEF GridSwitchesOff, Persist, TypeOK
<1>3. CASE EntryAccepted
  <2>1. opener.t \in Trades /\ opener' \in [pc : {"begun", "filled", "attached"}, t : Trades]
    BY <1>3, OpenerType DEF EntryAccepted
  <2>2. net' \in [Products -> -MaxNet..MaxNet] BY <1>3, <2>1, FillType DEF EntryAccepted, TypeOK
  <2> QED BY <1>3, <2>1, <2>2 DEF EntryAccepted, TypeOK
<1>4. CASE EntryUnanswered
  <2>1. opener.t \in Trades BY <1>4, OpenerType DEF EntryUnanswered
  <2>2. net' \in [Products -> -MaxNet..MaxNet] /\ Product(opener.t) \in Products
    BY <1>4, <2>1, FillType, ProductType DEF EntryUnanswered, TypeOK
  <2> QED BY <1>4, <2>2 DEF EntryUnanswered, TypeOK
<1>5. CASE Attach
  <2>1. opener.t \in Trades /\ opener' \in [pc : {"begun", "filled", "attached"}, t : Trades]
    BY <1>5, OpenerType DEF Attach
  <2>2. Product(opener.t) \in Products BY <2>1, ProductType
  <2> QED BY <1>5, <2>1, <2>2 DEF Attach, TypeOK
<1>6. CASE Book
  <2>1. opener.t \in Trades BY <1>6, OpenerType DEF Book
  <2>2. book' \subseteq Trades /\ disk' = [open |-> book', off |-> off]
    BY <1>6, <2>1 DEF Book, Booked, Persist, TypeOK
  <2> QED BY <1>6, <2>2 DEF Book, TypeOK
<1> QED BY <1>1, <1>2, <1>3, <1>4, <1>5, <1>6 DEF Enter

LEMMA FinishType ==
  ASSUME TypeOK, NEW t \in Trades, Finish(t)
  PROVE  book' \subseteq book /\ book' \subseteq Trades /\ disk' = [open |-> book', off |-> off]
BY DEF TypeOK, Finish, Persist

LEMMA MonitorType == TypeOK /\ Monitor => TypeOK'
<1> SUFFICES ASSUME TypeOK, Monitor PROVE TypeOK' OBVIOUS
<1> USE DEF custody, venue, history
<1>1. CASE MonitorReads
  <2>1. InFlight \subseteq Trades BY OpenerType DEF InFlight
  <2>2. monitor' \in [pc : {"idle", "read", "walk", "finish", "cancel"}, marked : SUBSET Products,
                      known : SUBSET Trades, todo : SUBSET Trades, t : Trades \cup {"none"}]
        /\ monitor'.pc = "read"
    <3>1. PICK marked \in SUBSET {p \in Products : net[p] # 0} :
            monitor' = [Asleep EXCEPT !.pc = "read", !.marked = marked,
                         !.known = {t \in book \cup InFlight : net[Product(t)] = 0}]
      BY <1>1 DEF MonitorReads
    <3>2. marked \subseteq Products BY <3>1
    <3> QED BY <2>1, <3>1, <3>2 DEF Asleep, TypeOK
  <2>3. UNCHANGED <<phase, armed, off, guarded, custody, venue, orphans, opener, closer, history>>
    BY <1>1 DEF MonitorReads
  <2> QED BY <2>2, <2>3 DEF TypeOK
<1>2. CASE MonitorBlind BY <1>2 DEF MonitorBlind, TypeOK
<1>3. CASE MonitorCopies BY <1>3 DEF MonitorCopies, TypeOK
<1>4. CASE MonitorFinishes
  <2>1. monitor.t \in Trades BY <1>4 DEF MonitorFinishes, TypeOK
  <2>2. Product(monitor.t) \in Products BY <2>1, ProductType
  <2>3. book' \subseteq Trades /\ disk' = [open |-> book', off |-> off]
    BY <1>4, <2>1, FinishType DEF MonitorFinishes
  <2> QED BY <1>4, <2>1, <2>2, <2>3 DEF MonitorFinishes, TypeOK
<1>5. CASE MonitorCancels
  <2>1. Product(monitor.t) \in Products BY <1>5, ProductType DEF MonitorCancels, TypeOK
  <2> QED BY <1>5, <2>1 DEF MonitorCancels, Kept, TypeOK
<1>6. CASE MonitorDone BY <1>6 DEF MonitorDone, Asleep, TypeOK
<1> QED BY <1>1, <1>2, <1>3, <1>4, <1>5, <1>6 DEF Monitor

LEMMA TradeType == ASSUME NEW t \in Trades PROVE TypeOK /\ WithTrade(t) => TypeOK'
<1> SUFFICES ASSUME TypeOK, WithTrade(t) PROVE TypeOK' OBVIOUS
<1> USE DEF custody, venue, history
<1>1. CASE OpenBegin(t) BY <1>1 DEF OpenBegin, TypeOK
<1>2. CASE MonitorVanished(t) BY <1>2 DEF MonitorVanished, TypeOK
<1>3. CASE MonitorExits(t) BY <1>3, ExitType DEF MonitorExits, TypeOK
<1>4. CASE MonitorLeaves(t) BY <1>4, ExitType DEF MonitorLeaves, TypeOK
<1>5. CASE CloseAllExits(t) BY <1>5, ExitType DEF CloseAllExits, TypeOK
<1>6. CASE CloseAllFails(t) BY <1>6, ExitType DEF CloseAllFails, NoSweep, TypeOK
<1> QED BY <1>1, <1>2, <1>3, <1>4, <1>5, <1>6 DEF WithTrade

LEMMA TypeStep == TypeOK /\ [Next]_vars => TypeOK'
<1> SUFFICES ASSUME TypeOK, [Next]_vars PROVE TypeOK' OBVIOUS
<1> USE DEF custody, venue, history
<1>1. CASE CloseAllBegins BY <1>1, OpenerType DEF CloseAllBegins, TypeOK
<1>2. CASE CloseAllFinishes
  <2>1. closer.t \in Trades BY <1>2 DEF CloseAllFinishes, TypeOK
  <2>2. Product(closer.t) \in Products BY <2>1, ProductType
  <2>3. book' \subseteq Trades /\ disk' = [open |-> book', off |-> off]
    BY <1>2, <2>1, FinishType DEF CloseAllFinishes
  <2> QED BY <1>2, <2>2, <2>3 DEF CloseAllFinishes, Kept, TypeOK
<1>3. CASE CloseAllEnds BY <1>3 DEF CloseAllEnds, NoClose, NoSweep, TypeOK
<1>4. CASE Arm \/ Disarm
  <2>1. NoSweep \in [state : {"no", "runs", "clean"}, carried : SUBSET Trades] BY DEF NoSweep
  <2>2. CASE Arm BY <2>1, <2>2 DEF Arm, TypeOK
  <2>3. CASE Disarm BY <2>3 DEF Disarm, TypeOK
  <2> QED BY <1>4, <2>2, <2>3
<1>5. ASSUME NEW s \in Streams, SetStrategyEnabled(s) PROVE TypeOK'
  BY <1>5 DEF SetStrategyEnabled, Persist, TypeOK
<1>6. CASE Crash
  <2>1. Unsaved \subseteq Products
    <3>1. \A t \in (book \ disk.open) \cup (disk.open \ book) \cup InFlight : t \in Trades
      BY OpenerType DEF InFlight, TypeOK
    <3> QED BY <3>1, ProductType DEF Unsaved
  <2>2. net' \in [Products -> -MaxNet..MaxNet]
    BY <1>6, OpenerType, FillType DEF Crash, TypeOK
  <2>3. stray' \subseteq Products
    BY <1>6, <2>1, OpenerType, ProductType DEF Crash, TypeOK
  <2> QED BY <1>6, <2>2, <2>3 DEF Crash, NoClose, NoSweep, Asleep, TypeOK
<1>7. CASE Restore BY <1>7 DEF Restore, Resumed, TypeOK
<1>8. CASE RestoreBlind BY <1>8 DEF RestoreBlind, TypeOK
<1>9. CASE RestoreEnds BY <1>9 DEF RestoreEnds, Persist, TypeOK
<1>10. ASSUME NEW p \in Products, VenueCloses(p) PROVE TypeOK'
  <2>1. 0 \in -MaxNet..MaxNet BY PerpBridgeAssumption DEF PerpBridgeAssumption
  <2> QED BY <1>10, <2>1 DEF VenueCloses, TypeOK
<1>11. ASSUME NEW p \in Products, CloseOrphan(p) PROVE TypeOK'
  <2>1. 0 \in -MaxNet..MaxNet BY PerpBridgeAssumption DEF PerpBridgeAssumption
  <2> QED BY <1>11, <2>1 DEF CloseOrphan, TypeOK
<1>12. CASE UNCHANGED vars BY <1>12 DEF vars, TypeOK
<1> QED
  BY <1>1, <1>2, <1>3, <1>4, <1>5, <1>6, <1>7, <1>8, <1>9, <1>10, <1>11, <1>12, EnterType,
     MonitorType, TradeType DEF Next, CloseAll

LEMMA TypeInit == Init => TypeOK
<1>1. 0 \in -MaxNet..MaxNet BY PerpBridgeAssumption DEF PerpBridgeAssumption
<1>2. NoSweep \in [state : {"no", "runs", "clean"}, carried : SUBSET Trades] BY DEF NoSweep
<1>3. /\ NoClose \in [pc : {"idle", "walk", "finish"}, todo : SUBSET Trades, t : Trades \cup {"none"}]
      /\ NoClose.pc = "idle"
  BY DEF NoClose
<1>4. /\ Asleep \in [pc : {"idle", "read", "walk", "finish", "cancel"}, marked : SUBSET Products,
                    known : SUBSET Trades, todo : SUBSET Trades, t : Trades \cup {"none"}]
      /\ Asleep.pc = "idle"
  BY DEF Asleep
<1>5. [open |-> {}, off |-> {}] \in [open : SUBSET Trades, off : SUBSET Streams] OBVIOUS
<1>6. [p \in Products |-> 0] \in [Products -> -MaxNet..MaxNet] BY <1>1
<1> QED BY <1>2, <1>3, <1>4, <1>5, <1>6 DEF Init, TypeOK

\* The book, its file, the venue and the three goroutines are of their types.
THEOREM TypeCorrect == Spec => []TypeOK
BY TypeInit, TypeStep, PTL DEF Spec

-----------------------------------------------------------------------------
(* The book and its file *)

LEMMA FileStep == TypeOK /\ FileInv /\ [Next]_vars => FileInv'
<1> SUFFICES ASSUME TypeOK, FileInv, [Next]_vars PROVE FileInv' OBVIOUS
<1> USE DEF custody, venue, history, FileInv, DiskIsBook
<1>1. CASE Enter
  <2>1. phase = "up" /\ phase' = "up"
    BY <1>1 DEF Enter, OpenRefused, GridSwitchesOff, EntryAccepted, EntryUnanswered, Attach, Book
  <2>2. disk' = [open |-> book', off |-> off']
    BY <1>1, <2>1 DEF Enter, OpenRefused, GridSwitchesOff, EntryAccepted, EntryUnanswered, Attach,
                      Book, Booked, Persist
  <2> QED BY <2>1, <2>2
<1>2. CASE Monitor
  <2>1. phase = "up" /\ phase' = "up"
    BY <1>2 DEF Monitor, MonitorReads, MonitorBlind, MonitorCopies, MonitorFinishes,
                MonitorCancels, MonitorDone
  <2>2. disk' = [open |-> book', off |-> off']
    BY <1>2, <2>1 DEF Monitor, MonitorReads, MonitorBlind, MonitorCopies, MonitorFinishes,
                      MonitorCancels, MonitorDone, Finish, Persist
  <2> QED BY <2>1, <2>2
<1>3. CASE CloseAll
  <2>1. phase = "up" /\ phase' = "up"
    BY <1>3 DEF CloseAll, CloseAllBegins, CloseAllFinishes, CloseAllEnds
  <2>2. disk' = [open |-> book', off |-> off']
    BY <1>3, <2>1 DEF CloseAll, CloseAllBegins, CloseAllFinishes, CloseAllEnds, Finish, Persist
  <2> QED BY <2>1, <2>2
<1>4. ASSUME NEW t \in Trades, WithTrade(t) PROVE FileInv'
  <2>1. phase = "up" /\ phase' = "up" /\ UNCHANGED <<book, disk, off>>
    BY <1>4 DEF WithTrade, OpenBegin, MonitorVanished, MonitorExits, MonitorLeaves,
                CloseAllExits, CloseAllFails
  <2> QED BY <2>1
<1>5. ASSUME NEW s \in Streams, SetStrategyEnabled(s) PROVE FileInv'
  BY <1>5 DEF SetStrategyEnabled, Persist
<1>6. CASE Arm \/ Disarm BY <1>6 DEF Arm, Disarm
<1>7. CASE Crash BY <1>7 DEF Crash, NoTrade, Asleep, NoClose
<1>8. CASE Restore BY <1>8 DEF Restore, Resumed
<1>9. CASE RestoreBlind
  <2>1. disk = [open |-> disk.open, off |-> disk.off] BY DEF TypeOK
  <2> QED BY <1>9, <2>1 DEF RestoreBlind
<1>10. CASE RestoreEnds BY <1>10 DEF RestoreEnds, Persist
<1>11. ASSUME NEW p \in Products, VenueCloses(p) \/ CloseOrphan(p) PROVE FileInv'
  BY <1>11 DEF VenueCloses, CloseOrphan
<1>12. CASE UNCHANGED vars BY <1>12 DEF vars
<1> QED
  BY <1>1, <1>2, <1>3, <1>4, <1>5, <1>6, <1>7, <1>8, <1>9, <1>10, <1>11, <1>12 DEF Next

\* What the steps do to the book and to the entry under way.
LEMMA FinishShape ==
  ASSUME TypeOK, NEW t \in Trades, Finish(t)
  PROVE  book' \subseteq book \ {t} /\ disk'.open = book'
<1>1. book' = book \ OfStream(t) /\ disk'.open = book' BY DEF Finish, Persist
<1> QED BY <1>1 DEF OfStream, TypeOK

\* The book grows by the entry under way, or by what the file has; an entry begins
\* with a trade that the checks admit.
LEMMA BookShape ==
  ASSUME TypeOK, FileInv, [Next]_vars
  PROVE  \/ book' \cup Begun' \subseteq book \cup Begun
         \/ \E t \in Trades : OpenBegin(t) /\ Begun' = {t}
         \/ Begun' = {} /\ book' \subseteq disk.open /\ disk' = disk
<1> USE DEF custody, venue, history, Begun
<1>1. CASE Enter
  BY <1>1, OpenerType DEF Enter, OpenRefused, GridSwitchesOff, EntryAccepted, EntryUnanswered,
     Attach, Book, Booked, NoTrade
<1>2. CASE Monitor
  <2>1. CASE MonitorFinishes
    <3>1. monitor.t \in Trades /\ Finish(monitor.t) BY <2>1 DEF MonitorFinishes, TypeOK
    <3> QED BY <2>1, <3>1, FinishShape DEF MonitorFinishes
  <2>2. CASE ~MonitorFinishes
    BY <1>2, <2>2 DEF Monitor, MonitorReads, MonitorBlind, MonitorCopies, MonitorCancels, MonitorDone
  <2> QED BY <2>1, <2>2
<1>3. CASE CloseAll
  <2>1. CASE CloseAllFinishes
    <3>1. closer.t \in Trades /\ Finish(closer.t) BY <2>1 DEF CloseAllFinishes, TypeOK
    <3> QED BY <2>1, <3>1, FinishShape DEF CloseAllFinishes
  <2>2. CASE ~CloseAllFinishes
    BY <1>3, <2>2 DEF CloseAll, CloseAllBegins, CloseAllEnds
  <2> QED BY <2>1, <2>2
<1>4. ASSUME NEW t \in Trades, WithTrade(t), ~OpenBegin(t) PROVE UNCHANGED <<book, opener>>
  BY <1>4 DEF WithTrade, MonitorVanished, MonitorExits, MonitorLeaves, CloseAllExits, CloseAllFails
<1>5. ASSUME NEW t \in Trades, OpenBegin(t) PROVE Begun' = {t}
  BY <1>5 DEF OpenBegin
<1>6. ASSUME NEW s \in Streams, SetStrategyEnabled(s) PROVE UNCHANGED <<book, opener>>
  BY <1>6 DEF SetStrategyEnabled
<1>7. CASE Crash BY <1>7 DEF Crash, NoTrade
<1>8. CASE Restore BY <1>8 DEF Restore, Resumed, FileInv
<1>9. CASE RestoreBlind BY <1>9 DEF RestoreBlind, FileInv
<1>10. CASE Arm \/ Disarm \/ RestoreEnds \/ UNCHANGED vars
  BY <1>10 DEF Arm, Disarm, RestoreEnds, vars
<1>11. ASSUME NEW p \in Products, VenueCloses(p) \/ CloseOrphan(p) PROVE UNCHANGED <<book, opener>>
  BY <1>11 DEF VenueCloses, CloseOrphan
<1> QED
  BY <1>1, <1>2, <1>3, <1>4, <1>5, <1>6, <1>7, <1>8, <1>9, <1>10, <1>11 DEF Next

\* What the file holds is the book, or what it held.
LEMMA DiskShape ==
  ASSUME TypeOK, [Next]_vars PROVE disk'.open = book' \/ disk' = disk
<1> USE DEF custody, venue, history, Persist
<1>1. CASE Enter
  BY <1>1 DEF Enter, OpenRefused, GridSwitchesOff, EntryAccepted, EntryUnanswered, Attach, Book,
              Booked
<1>2. CASE Monitor
  <2>1. MonitorReads => disk' = disk BY DEF MonitorReads
  <2> QED
    BY <1>2, <2>1 DEF Monitor, MonitorBlind, MonitorCopies, MonitorFinishes, MonitorCancels,
                      MonitorDone, Finish
<1>3. CASE CloseAll
  BY <1>3 DEF CloseAll, CloseAllBegins, CloseAllFinishes, CloseAllEnds, Finish
<1>4. ASSUME NEW t \in Trades, WithTrade(t) PROVE disk' = disk
  BY <1>4 DEF WithTrade, OpenBegin, MonitorVanished, MonitorExits, MonitorLeaves,
              CloseAllExits, CloseAllFails
<1>5. ASSUME NEW s \in Streams, SetStrategyEnabled(s) PROVE disk'.open = book'
  BY <1>5 DEF SetStrategyEnabled
<1>6. CASE Arm \/ Disarm \/ Crash \/ Restore \/ RestoreBlind \/ RestoreEnds \/ UNCHANGED vars
  BY <1>6 DEF Arm, Disarm, Crash, Restore, RestoreBlind, RestoreEnds, vars
<1>7. ASSUME NEW p \in Products, VenueCloses(p) \/ CloseOrphan(p) PROVE disk' = disk
  BY <1>7 DEF VenueCloses, CloseOrphan
<1> QED BY <1>1, <1>2, <1>3, <1>4, <1>5, <1>6, <1>7 DEF Next

LEMMA Saved == Spec => [](TypeOK /\ FileInv)
<1>1. Init => FileInv BY DEF Init, FileInv, DiskIsBook, NoTrade, Asleep, NoClose
<1>2. TypeOK /\ FileInv /\ [Next]_vars => (TypeOK /\ FileInv)' BY TypeStep, FileStep
<1> QED BY <1>1, <1>2, TypeInit, PTL DEF Spec

\* perp_bridge.go:577-578: a crash at any time finds the book and the switches in the file.
THEOREM FileIsBook == Spec => []DiskIsBook
<1>1. FileInv => DiskIsBook BY DEF FileInv
<1> QED BY <1>1, Saved, PTL

-----------------------------------------------------------------------------
(* The caps *)

LEMMA FinitePart ==
  ASSUME NEW S \in SUBSET Trades
  PROVE  IsFiniteSet(S) /\ Cardinality(S) \in Nat
<1>1. IsFiniteSet(Trades) BY PerpBridgeAssumption DEF PerpBridgeAssumption
<1>2. IsFiniteSet(S) BY <1>1, FS_Subset
<1> QED BY <1>2, FS_CardinalityType

\* Any part of a set within the limits is within them.
LEMMA FewerWithin ==
  ASSUME NEW S \in SUBSET Trades, NEW R \in SUBSET S, WithinLimits(S)
  PROVE  WithinLimits(R)
<1> USE PerpBridgeAssumption DEF PerpBridgeAssumption
<1>1. Cardinality(R) <= Cardinality(S) /\ Cardinality(R) \in Nat /\ Cardinality(S) \in Nat
  BY FinitePart, FS_Subset
<1>2. ASSUME NEW p \in Products PROVE Cardinality(On(p, R)) <= MaxPerSymbol
  <2>1. On(p, S) \in SUBSET Trades /\ On(p, R) \in SUBSET On(p, S) BY DEF On
  <2>2. /\ Cardinality(On(p, R)) <= Cardinality(On(p, S))
        /\ Cardinality(On(p, R)) \in Nat /\ Cardinality(On(p, S)) \in Nat
    BY <2>1, FinitePart, FS_Subset
  <2> QED BY <2>2 DEF WithinLimits
<1>3. \A t, u \in R : StreamOf[t] = StreamOf[u] => t = u BY DEF WithinLimits
<1> QED BY <1>1, <1>2, <1>3 DEF WithinLimits

\* What the checks of OnPaperOpen admit may join the book.
LEMMA AdmittedWithin ==
  ASSUME TypeOK, NEW t \in Trades, Admits(t), t \notin book, WithinLimits(book)
  PROVE  WithinLimits(book \cup {t})
<1> USE PerpBridgeAssumption DEF PerpBridgeAssumption
<1>0. book \in SUBSET Trades BY DEF TypeOK
<1>1. Cardinality(book \cup {t}) <= MaxOpen
  <2>1. Cardinality(book \cup {t}) = Cardinality(book) + 1 /\ Cardinality(book) \in Nat
    BY <1>0, FinitePart, FS_AddElement
  <2> QED BY <2>1 DEF Admits
<1>2. ASSUME NEW p \in Products PROVE Cardinality(On(p, book \cup {t})) <= MaxPerSymbol
  <2>1. CASE Product(t) = p
    <3>1. On(p, book \cup {t}) = On(p, book) \cup {t} /\ t \notin On(p, book)
      BY <2>1 DEF On
    <3>2. On(p, book) \in SUBSET Trades BY <1>0 DEF On
    <3>3. /\ Cardinality(On(p, book) \cup {t}) = Cardinality(On(p, book)) + 1
          /\ Cardinality(On(p, book)) \in Nat
      BY <3>1, <3>2, FinitePart, FS_AddElement
    <3>4. Cardinality(On(p, book)) < MaxPerSymbol BY <2>1 DEF Admits
    <3>5. Cardinality(On(p, book)) + 1 <= MaxPerSymbol BY <3>3, <3>4
    <3> QED BY <3>1, <3>3, <3>5, Zenon
  <2>2. CASE Product(t) # p
    <3>1. On(p, book \cup {t}) = On(p, book) BY <2>2 DEF On
    <3> QED BY <3>1 DEF WithinLimits
  <2> QED BY <2>1, <2>2
<1>3. \A u, v \in book \cup {t} : StreamOf[u] = StreamOf[v] => u = v
  BY DEF WithinLimits, Admits, OfStream
<1> QED BY <1>1, <1>2, <1>3 DEF WithinLimits

LEMMA LimitStep == TypeOK /\ FileInv /\ LimitInv /\ [Next]_vars => LimitInv'
<1> SUFFICES ASSUME TypeOK, FileInv, LimitInv, [Next]_vars PROVE LimitInv' OBVIOUS
<1>0. book \cup Begun \in SUBSET Trades /\ disk.open \in SUBSET Trades
  BY OpenerType DEF TypeOK, Begun
<1>1. WithinLimits(book' \cup Begun')
  <2>1. CASE book' \cup Begun' \subseteq book \cup Begun
    BY <1>0, <2>1, FewerWithin DEF LimitInv
  <2>2. ASSUME NEW t \in Trades, OpenBegin(t), Begun' = {t} PROVE WithinLimits(book' \cup Begun')
    <3>1. Admits(t) /\ t \notin book /\ book' = book BY <2>2 DEF OpenBegin, Fresh, custody
    <3>2. WithinLimits(book) BY <1>0, FewerWithin DEF LimitInv
    <3> QED BY <2>2, <3>1, <3>2, AdmittedWithin
  <2>3. CASE Begun' = {} /\ book' \subseteq disk.open
    <3>1. book' \cup Begun' \in SUBSET disk.open BY <2>3
    <3> QED BY <1>0, <3>1, FewerWithin DEF LimitInv
  <2> QED BY <2>1, <2>2, <2>3, BookShape
<1>2. WithinLimits(disk'.open)
  <2>1. CASE disk' = disk BY <2>1 DEF LimitInv
  <2>2. CASE disk'.open = book'
    <3>1. book' \cup Begun' \in SUBSET Trades
      <4>1. TypeOK' BY TypeStep
      <4>2. opener'.pc # "idle" => opener'.t \in Trades BY <4>1 DEF TypeOK, NoTrade
      <4>3. book' \subseteq Trades BY <4>1 DEF TypeOK
      <4>4. Begun' \subseteq Trades BY <4>2 DEF Begun
      <4> QED BY <4>3, <4>4
    <3>2. book' \in SUBSET (book' \cup Begun') OBVIOUS
    <3> QED BY <1>1, <2>2, <3>1, <3>2, FewerWithin
  <2> QED BY <2>1, <2>2, DiskShape
<1>3. WithinLimits(book' \cup Begun') => WithinLimits(book \cup Begun)'
  BY DEF WithinLimits
<1>4. WithinLimits(disk'.open) => WithinLimits(disk.open)' BY DEF WithinLimits
<1> QED BY <1>1, <1>2, <1>3, <1>4 DEF LimitInv

LEMMA LimitInit == Init => LimitInv
<1>1. WithinLimits({})
  <2>1. \A p \in Products : On(p, {}) = {} BY DEF On
  <2>2. Cardinality({}) = 0 BY FS_EmptySet
  <2>3. 0 <= MaxOpen /\ 0 <= MaxPerSymbol BY PerpBridgeAssumption DEF PerpBridgeAssumption
  <2> QED BY <2>1, <2>2, <2>3 DEF WithinLimits
<1>2. Init => book \cup Begun = {} /\ disk.open = {} BY DEF Init, Begun, NoTrade
<1> QED BY <1>1, <1>2 DEF LimitInv

\* One live position a stream and the two caps, for the book and the entry under way
\* together, whatever exits and restarts fall between the check and the order.
THEOREM LimitsAlwaysHold == Spec => []LimitsHold
<1>1. Init => LimitInv BY LimitInit
<1>2. FileInv /\ LimitInv /\ TypeOK => LimitsHold
  <2> SUFFICES ASSUME LimitInv, TypeOK PROVE WithinLimits(book \cup InFlight)
    BY DEF WithinLimits, LimitsHold
  <2>1. book \cup Begun \in SUBSET Trades /\ book \cup InFlight \in SUBSET (book \cup Begun)
    BY OpenerType DEF TypeOK, Begun, InFlight
  <2> QED BY <2>1, FewerWithin DEF LimitInv
<1> QED BY <1>1, <1>2, Saved, LimitStep, PTL DEF Spec

-----------------------------------------------------------------------------
(* CLOSE-ALL *)

LEMMA SweepStep == TypeOK /\ FileInv /\ SweepInv /\ [Next]_vars => SweepInv'
<1> SUFFICES ASSUME TypeOK, FileInv, SweepInv, [Next]_vars PROVE SweepInv' OBVIOUS
<1> USE DEF custody, venue, history, SweepInv
\* A step that leaves the sweep, the closer and armed alone does not add to the book.
<1>a. ASSUME UNCHANGED <<closer, sweep>>, armed' => armed, phase' = phase \/ phase' = "up",
             book' \subseteq book \cup Begun, Begun' \subseteq Begun
      PROVE  SweepInv'
  BY <1>a DEF Ahead
<1>b. sweep.state \in {"no", "runs", "clean"} BY DEF TypeOK
<1>1. CASE Enter
  <2>1. book' \subseteq book \cup Begun /\ Begun' \subseteq Begun
    BY <1>1, OpenerType DEF Enter, OpenRefused, GridSwitchesOff, EntryAccepted, EntryUnanswered,
       Attach, Book, Booked, NoTrade, Begun
  <2>2. UNCHANGED <<closer, sweep, armed, phase>>
    BY <1>1 DEF Enter, OpenRefused, GridSwitchesOff, EntryAccepted, EntryUnanswered, Attach, Book
  <2> QED BY <1>a, <2>1, <2>2
<1>2. CASE Monitor
  <2>0. MonitorReads => UNCHANGED <<closer, sweep, opener, phase, armed>> BY DEF MonitorReads
  <2>1. UNCHANGED <<closer, sweep, opener, phase>> /\ (armed' => armed)
    BY <1>2, <2>0 DEF Monitor, MonitorBlind, MonitorCopies, MonitorFinishes, MonitorCancels,
                      MonitorDone
  <2>2. book' \subseteq book
    BY <1>2 DEF Monitor, MonitorReads, MonitorBlind, MonitorCopies, MonitorFinishes,
                MonitorCancels, MonitorDone, Finish
  <2> QED BY <1>a, <2>1, <2>2 DEF Begun
<1>3. CASE CloseAllBegins
  <2>1. Begun \subseteq {opener.t} \cap Trades BY OpenerType DEF Begun
  <2> QED BY <1>3, <2>1 DEF CloseAllBegins, Ahead, Begun
<1>4. CASE CloseAllFinishes
  <2>1. closer.t \in Trades /\ Finish(closer.t) BY <1>4 DEF CloseAllFinishes, TypeOK
  <2>2. book' \subseteq book \ {closer.t} BY <2>1, FinishShape
  <2>3. closer'.pc = "walk" /\ closer'.todo = closer.todo BY <1>4 DEF CloseAllFinishes, TypeOK
  <2>4. UNCHANGED <<armed, opener, sweep, phase>> /\ closer.pc = "finish"
    BY <1>4 DEF CloseAllFinishes
  <2> QED BY <2>2, <2>3, <2>4 DEF Ahead, Begun
<1>5. CASE CloseAllEnds
  BY <1>5, <1>b DEF CloseAllEnds, Ahead, NoSweep, Begun
<1>6. ASSUME NEW t \in Trades, OpenBegin(t) PROVE SweepInv'
  BY <1>6 DEF OpenBegin
<1>7. ASSUME NEW t \in Trades, MonitorVanished(t) \/ MonitorExits(t) \/ MonitorLeaves(t) PROVE SweepInv'
  BY <1>7, <1>a DEF MonitorVanished, MonitorExits, MonitorLeaves, Begun
<1>8. ASSUME NEW t \in Trades, CloseAllExits(t) PROVE SweepInv'
  <2>1. closer'.pc = "finish" /\ closer'.t = t /\ closer'.todo = closer.todo \ {t}
    BY <1>8 DEF CloseAllExits, TypeOK
  <2> QED BY <1>8, <2>1 DEF CloseAllExits, Ahead, Begun
<1>9. ASSUME NEW t \in Trades, CloseAllFails(t) PROVE SweepInv'
  BY <1>9 DEF CloseAllFails, NoSweep
<1>10. CASE Arm BY <1>10 DEF Arm, NoSweep
<1>11. CASE Disarm BY <1>11, <1>a DEF Disarm, Begun
<1>12. ASSUME NEW s \in Streams, SetStrategyEnabled(s) PROVE SweepInv'
  BY <1>12, <1>a DEF SetStrategyEnabled, Begun
<1>13. CASE Crash BY <1>13 DEF Crash, NoSweep
<1>14. CASE Restore \/ RestoreBlind
  BY <1>14 DEF Restore, RestoreBlind, FileInv
<1>15. CASE RestoreEnds \/ UNCHANGED vars BY <1>15, <1>a DEF RestoreEnds, Begun, vars
<1>16. ASSUME NEW p \in Products, VenueCloses(p) \/ CloseOrphan(p) PROVE SweepInv'
  BY <1>16, <1>a DEF VenueCloses, CloseOrphan, Begun
<1> QED
  BY <1>1, <1>2, <1>3, <1>4, <1>5, <1>6, <1>7, <1>8, <1>9, <1>10, <1>11, <1>12, <1>13, <1>14,
     <1>15, <1>16 DEF Next, CloseAll, WithTrade

\* After a CLOSE-ALL without error nothing is open, until somebody arms again, but the one
\* trade whose entry was under way when it began.
THEOREM CloseAllFlattens == Spec => []CloseAllLeavesOne
<1>1. Init => SweepInv BY DEF Init, SweepInv, NoSweep
<1>2. SweepInv => CloseAllLeavesOne BY DEF SweepInv, CloseAllLeavesOne
<1> QED BY <1>1, <1>2, Saved, SweepStep, PTL DEF Spec

-----------------------------------------------------------------------------
(* Brackets *)

LEMMA FreshStep == TypeOK /\ FileInv /\ FreshInv /\ [Next]_vars => FreshInv'
<1> SUFFICES ASSUME TypeOK, FileInv, FreshInv, [Next]_vars PROVE FreshInv' OBVIOUS
<1> USE DEF custody, venue, history, FreshInv, Begun
<1>1. CASE Book
  <2>1. opener.t \in Begun /\ book' \subseteq book \cup {opener.t} /\ opener' = NoTrade /\ monitor' = monitor
    BY <1>1 DEF Book, Booked
  <2> QED BY <2>1 DEF NoTrade
<1>2. CASE Enter /\ ~Book
  <2>1. Begun' \subseteq Begun /\ UNCHANGED <<book, monitor>>
    BY <1>2, OpenerType DEF Enter, OpenRefused, GridSwitchesOff, EntryAccepted, EntryUnanswered,
       Attach, NoTrade
  <2> QED BY <2>1
<1>3. CASE MonitorReads BY <1>3 DEF MonitorReads, Asleep
<1>4. CASE MonitorCopies
  <2>1. monitor'.todo = book /\ monitor'.pc = "walk" /\ UNCHANGED <<book, opener>>
    BY <1>4 DEF MonitorCopies, TypeOK
  <2> QED BY <2>1
<1>5. CASE MonitorFinishes
  <2>1. monitor.t \in Trades /\ Finish(monitor.t) BY <1>5 DEF MonitorFinishes, TypeOK
  <2>2. book' \subseteq book \ {monitor.t} BY <2>1, FinishShape
  <2>3. /\ monitor'.pc = "cancel" /\ monitor'.t = monitor.t /\ monitor'.todo = monitor.todo
        /\ monitor.pc = "finish" /\ opener' = opener
    BY <1>5 DEF MonitorFinishes, TypeOK
  <2> QED BY <2>2, <2>3
<1>6. CASE MonitorCancels
  <2>1. monitor'.pc = "walk" /\ monitor'.todo = monitor.todo /\ UNCHANGED <<book, opener>>
    BY <1>6 DEF MonitorCancels, TypeOK
  <2> QED BY <2>1
<1>7. CASE MonitorBlind \/ MonitorDone BY <1>7 DEF MonitorBlind, MonitorDone, Asleep
<1>8. CASE CloseAll
  <2>1. UNCHANGED <<monitor, opener>> /\ book' \subseteq book
    BY <1>8 DEF CloseAll, CloseAllBegins, CloseAllFinishes, CloseAllEnds, Finish
  <2> QED BY <2>1
<1>9. ASSUME NEW t \in Trades, OpenBegin(t) PROVE FreshInv'
  BY <1>9 DEF OpenBegin, Fresh
<1>10. ASSUME NEW t \in Trades, MonitorVanished(t) \/ MonitorExits(t) PROVE FreshInv'
  <2>1. /\ t \in monitor.todo /\ monitor'.pc = "finish" /\ monitor'.t = t
        /\ monitor'.todo = monitor.todo \ {t} /\ UNCHANGED <<book, opener>>
    BY <1>10 DEF MonitorVanished, MonitorExits, TypeOK
  <2> QED BY <2>1
<1>11. ASSUME NEW t \in Trades, MonitorLeaves(t) PROVE FreshInv'
  <2>1. /\ monitor'.pc = "walk" /\ monitor'.todo = monitor.todo \ {t} /\ UNCHANGED <<book, opener>>
    BY <1>11 DEF MonitorLeaves, TypeOK
  <2> QED BY <2>1
<1>12. ASSUME NEW t \in Trades, CloseAllExits(t) \/ CloseAllFails(t) PROVE FreshInv'
  BY <1>12 DEF CloseAllExits, CloseAllFails
<1>13. ASSUME NEW s \in Streams, SetStrategyEnabled(s) PROVE FreshInv'
  BY <1>13 DEF SetStrategyEnabled
<1>14. CASE Crash BY <1>14 DEF Crash, NoTrade, Asleep
<1>15. CASE Restore \/ RestoreBlind
  BY <1>15 DEF Restore, RestoreBlind, FileInv
<1>16. CASE Arm \/ Disarm \/ RestoreEnds \/ UNCHANGED vars
  BY <1>16 DEF Arm, Disarm, RestoreEnds, vars
<1>17. ASSUME NEW p \in Products, VenueCloses(p) \/ CloseOrphan(p) PROVE FreshInv'
  BY <1>17 DEF VenueCloses, CloseOrphan
<1> QED
  BY <1>1, <1>2, <1>3, <1>4, <1>5, <1>6, <1>7, <1>8, <1>9, <1>10, <1>11, <1>12, <1>13, <1>14,
     <1>15, <1>16, <1>17 DEF Next, Monitor, WithTrade

LEMMA BracketStep ==
  TypeOK /\ FileInv /\ FreshInv /\ BracketInv /\ [Next]_vars => BracketInv'
<1> SUFFICES ASSUME TypeOK, FileInv, FreshInv, BracketInv, [Next]_vars PROVE BracketInv' OBVIOUS
<1> USE DEF custody, venue, history
\* A step that adds no bracketed trade and takes no bracket away without noting it.
<1>a. ASSUME book' \cup disk'.open \cup Attached' \subseteq book \cup disk.open \cup Attached,
             guarded' \subseteq guarded, guard \cup bare \subseteq guard' \cup bare'
      PROVE  BracketInv'
  <2>1. \A t : Product(t)' = Product(t) BY DEF Product
  <2> QED BY <1>a, <2>1 DEF BracketInv
<1>1. CASE OpenRefused \/ GridSwitchesOff \/ EntryAccepted \/ EntryUnanswered
  <2>1. Attached' = {} BY <1>1, OpenerType
    DEF OpenRefused, GridSwitchesOff, EntryAccepted, EntryUnanswered, Attached, NoTrade
  <2>2. disk'.open \subseteq book \cup disk.open /\ UNCHANGED <<book, guarded, guard, bare>>
    BY <1>1 DEF OpenRefused, GridSwitchesOff, EntryAccepted, EntryUnanswered, Persist
  <2> QED BY <1>a, <2>1, <2>2
<1>2. CASE Attach
  <2>1. Attached' = {opener.t} /\ UNCHANGED <<book, disk>>
    BY <1>2, OpenerType DEF Attach, Attached
  <2>2. CASE guard' = guard \cup {Product(opener.t)} /\ bare' = bare \ {Product(opener.t)}
    <3>1. guard \cup bare \subseteq guard' \cup bare' /\ Product(opener.t) \in guard' \cup bare'
      BY <2>2
    <3>2. guarded' \subseteq guarded \cup {opener.t} BY <1>2 DEF Attach
    <3> QED BY <2>1, <3>1, <3>2 DEF BracketInv, Product
  <2>3. CASE guarded' = guarded \ {opener.t} /\ UNCHANGED <<guard, bare>>
    BY <2>1, <2>3 DEF BracketInv, Product
  <2> QED BY <1>2, <2>2, <2>3 DEF Attach
<1>3. CASE Book
  <2>1. /\ Attached = {opener.t} /\ book' \subseteq book \cup {opener.t} /\ disk'.open = book'
        /\ Attached' = {} /\ UNCHANGED <<guarded, guard, bare>>
    BY <1>3 DEF Book, Booked, Persist, Attached, NoTrade
  <2> QED BY <1>a, <2>1
<1>4. CASE MonitorReads \/ MonitorBlind \/ MonitorCopies \/ MonitorDone
  BY <1>4, <1>a DEF MonitorReads, MonitorBlind, MonitorCopies, MonitorDone, Attached
<1>5. CASE MonitorFinishes
  BY <1>5, <1>a DEF MonitorFinishes, Finish, Persist, Attached
<1>6. CASE MonitorCancels
  <2>1. /\ UNCHANGED <<book, disk, opener>> /\ guarded' \subseteq guarded /\ monitor.pc = "cancel"
        /\ monitor.t \notin book /\ disk.open = book
    BY <1>6 DEF MonitorCancels, Kept, FreshInv, FileInv, DiskIsBook
  <2>2. CASE UNCHANGED <<guard, bare>>
    BY <1>a, <2>1, <2>2 DEF Attached
  <2>3. CASE /\ ~Shared(monitor.t) /\ guard' = guard \ {Product(monitor.t)}
             /\ bare' = IF On(Product(monitor.t), InFlight) # {}
                        THEN bare \cup {Product(monitor.t)} ELSE bare
    <3>1. SUFFICES ASSUME NEW t \in (book \cup Attached) \cap guarded
                   PROVE  Product(t) \in guard' \cup bare'
      BY <2>1 DEF BracketInv, Product, Attached
    <3>2. Product(t) \in guard \cup bare BY DEF BracketInv
    <3>3. CASE Product(t) # Product(monitor.t) BY <2>3, <3>2, <3>3
    <3>4. CASE Product(t) = Product(monitor.t) /\ t \in book
      BY <2>1, <2>3, <3>4 DEF Shared, On
    <3>5. CASE Product(t) = Product(monitor.t) /\ t \in Attached
      <4>1. t \in On(Product(monitor.t), InFlight) BY <3>5 DEF Attached, InFlight, On
      <4> QED BY <2>3, <3>5, <4>1
    <3> QED BY <3>3, <3>4, <3>5
  <2> QED BY <1>6, <2>2, <2>3 DEF MonitorCancels
<1>7. CASE CloseAll
  <2>1. /\ book' \subseteq book /\ disk'.open \subseteq book \cup disk.open
        /\ UNCHANGED <<opener, guard, bare>> /\ guarded' \subseteq guarded
    BY <1>7 DEF CloseAll, CloseAllBegins, CloseAllFinishes, CloseAllEnds, Finish, Persist, Kept
  <2> QED BY <1>a, <2>1 DEF Attached
<1>8. ASSUME NEW t \in Trades, WithTrade(t) PROVE BracketInv'
  <2>1. UNCHANGED <<book, disk, guarded, guard, bare>> /\ Attached' \subseteq Attached
    BY <1>8 DEF WithTrade, OpenBegin, MonitorVanished, MonitorExits, MonitorLeaves,
                CloseAllExits, CloseAllFails, Attached
  <2> QED BY <1>a, <2>1
<1>9. ASSUME NEW s \in Streams, SetStrategyEnabled(s) PROVE BracketInv'
  BY <1>9, <1>a DEF SetStrategyEnabled, Persist, Attached
<1>10. CASE Crash
  BY <1>10, <1>a DEF Crash, Attached, NoTrade
<1>11. CASE Restore \/ RestoreBlind
  BY <1>11, <1>a DEF Restore, RestoreBlind, Resumed, Attached
<1>12. CASE Arm \/ Disarm \/ RestoreEnds \/ UNCHANGED vars
  BY <1>12, <1>a DEF Arm, Disarm, RestoreEnds, Persist, Attached, vars
<1>13. ASSUME NEW p \in Products, VenueCloses(p) \/ CloseOrphan(p) PROVE BracketInv'
  BY <1>13, <1>a DEF VenueCloses, CloseOrphan, Attached
<1> QED
  BY <1>1, <1>2, <1>3, <1>4, <1>5, <1>6, <1>7, <1>8, <1>9, <1>10, <1>11, <1>12, <1>13
  DEF Next, Enter, Monitor

\* perp_bracket_cleanup.go:84-86: a trade that counts as bracketed has a bracket at the
\* venue, unless it fired or was cancelled under an entry that was not yet booked.
THEOREM BracketsAreKept == Spec => []BracketKept
<1>1. Init => FreshInv BY DEF Init, FreshInv, Begun, NoTrade, Asleep
<1>2. Init => BracketInv BY DEF Init, BracketInv, Attached, NoTrade
<1>3. BracketInv => BracketKept BY DEF BracketInv, BracketKept
<1> QED BY <1>1, <1>2, <1>3, Saved, FreshStep, BracketStep, PTL DEF Spec

-----------------------------------------------------------------------------
(* The position and its owners *)

\* Who is there to own a contract; who has sold his and is not finished yet; who had
\* none when the monitor read the venue and is to be finished for it.
Holders == IF phase = "down" THEN disk.open ELSE book \cup InFlight
Leaving ==
  (IF monitor.pc = "finish" /\ Product(monitor.t) \in monitor.marked THEN {monitor.t} ELSE {})
    \cup (IF closer.pc = "finish" THEN {closer.t} ELSE {})
Past(p) == IF monitor.pc # "idle" /\ p \notin monitor.marked THEN monitor.known ELSE {}
Sure(p) == On(p, Holders) \ (Leaving \cup Past(p))

\* The trades of S account for a position of n contracts.
Buyers(S) == Cardinality(S \cap Longs)
Sellers(S) == Cardinality(S \ Longs)
Covers(S, n) == n <= Buyers(S) /\ -n <= Sellers(S)

OwnInv ==
  /\ phase # "orphans" => orphans = {}
  /\ \A p \in Products \ (stray \cup orphans) : Covers(Sure(p), net[p])

\* The trade of an entry is on no list that the monitor or CLOSE-ALL made before it.
ApartInv ==
  /\ opener.pc = "begun" => opener.t \notin monitor.known
  /\ Begun \cap closer.todo = {}
  /\ closer.pc = "finish" => closer.t \notin Begun

LEMMA SideTypes ==
  ASSUME NEW S \in SUBSET Trades
  PROVE  /\ IsFiniteSet(S \cap Longs) /\ Buyers(S) \in Nat
         /\ IsFiniteSet(S \ Longs) /\ Sellers(S) \in Nat
<1>1. S \cap Longs \in SUBSET Trades /\ S \ Longs \in SUBSET Trades OBVIOUS
<1> QED BY <1>1, FinitePart DEF Buyers, Sellers

LEMMA CoversMore ==
  ASSUME NEW S \in SUBSET Trades, NEW R \in SUBSET S, NEW n \in Int, Covers(R, n)
  PROVE  Covers(S, n)
<1>1. R \cap Longs \in SUBSET (S \cap Longs) /\ R \ Longs \in SUBSET (S \ Longs) OBVIOUS
<1>2. Buyers(R) <= Buyers(S) /\ Sellers(R) <= Sellers(S)
  BY <1>1, SideTypes, FS_Subset DEF Buyers, Sellers
<1>3. R \in SUBSET Trades OBVIOUS
<1>4. Buyers(R) \in Nat /\ Buyers(S) \in Nat /\ Sellers(R) \in Nat /\ Sellers(S) \in Nat
  BY <1>3, SideTypes
<1> QED BY <1>2, <1>4 DEF Covers

\* Anybody accounts for nothing.
LEMMA CoversNothing == ASSUME NEW S \in SUBSET Trades PROVE Covers(S, 0)
<1>1. Buyers(S) \in Nat /\ Sellers(S) \in Nat BY SideTypes
<1> QED BY <1>1 DEF Covers

\* An entry adds a contract and a trade of its direction.
LEMMA CoversEntry ==
  ASSUME NEW S \in SUBSET Trades, NEW n \in Int, Covers(S, n), NEW t \in Trades, t \notin S
  PROVE  Covers(S \cup {t}, n + Towards(t))
<1>1. IF t \in Longs THEN Buyers(S \cup {t}) = Buyers(S) + 1 /\ Sellers(S \cup {t}) = Sellers(S)
                     ELSE Buyers(S \cup {t}) = Buyers(S) /\ Sellers(S \cup {t}) = Sellers(S) + 1
  <2>1. t \notin S \cap Longs /\ t \notin S \ Longs OBVIOUS
  <2>2. /\ Cardinality((S \cap Longs) \cup {t}) = Cardinality(S \cap Longs) + 1
        /\ Cardinality((S \ Longs) \cup {t}) = Cardinality(S \ Longs) + 1
    BY <2>1, SideTypes, FS_AddElement
  <2>3. CASE t \in Longs
    <3>1. (S \cup {t}) \cap Longs = (S \cap Longs) \cup {t} /\ (S \cup {t}) \ Longs = S \ Longs
      BY <2>3
    <3> QED BY <2>2, <2>3, <3>1 DEF Buyers, Sellers
  <2>4. CASE t \notin Longs
    <3>1. (S \cup {t}) \ Longs = (S \ Longs) \cup {t} /\ (S \cup {t}) \cap Longs = S \cap Longs
      BY <2>4
    <3> QED BY <2>2, <2>4, <3>1 DEF Buyers, Sellers
  <2> QED BY <2>3, <2>4
<1>2. Buyers(S) \in Nat /\ Sellers(S) \in Nat BY SideTypes
<1> QED BY <1>1, <1>2 DEF Covers, Towards

\* A reduce-only fill takes a contract and at most one trade of its direction.
LEMMA CoversExit ==
  ASSUME NEW S \in SUBSET Trades, NEW n \in Int, Covers(S, n), NEW t \in Trades,
         n * Towards(t) > 0
  PROVE  Covers(S \ {t}, n - Towards(t)) /\ Covers(S, n - Towards(t))
<1>1. IF t \in Longs THEN Buyers(S \ {t}) >= Buyers(S) - 1
                     ELSE Sellers(S \ {t}) >= Sellers(S) - 1
  <2>1. (S \ {t}) \cap Longs = (S \cap Longs) \ {t} /\ (S \ {t}) \ Longs = (S \ Longs) \ {t}
    OBVIOUS
  <2>2. /\ Cardinality((S \cap Longs) \ {t}) \in {Cardinality(S \cap Longs), Cardinality(S \cap Longs) - 1}
        /\ Cardinality((S \ Longs) \ {t}) \in {Cardinality(S \ Longs), Cardinality(S \ Longs) - 1}
    BY SideTypes, FS_RemoveElement
  <2>3. /\ Buyers(S \ {t}) \in {Buyers(S), Buyers(S) - 1}
        /\ Sellers(S \ {t}) \in {Sellers(S), Sellers(S) - 1}
    BY <2>1, <2>2, Zenon DEF Buyers, Sellers
  <2>4. Buyers(S) \in Nat /\ Sellers(S) \in Nat BY SideTypes
  <2> QED BY <2>3, <2>4
<1>2. Buyers(S) \in Nat /\ Sellers(S) \in Nat BY SideTypes
<1>3. Buyers(S \ {t}) \in Nat /\ Sellers(S \ {t}) \in Nat
  <2>1. S \ {t} \in SUBSET Trades OBVIOUS
  <2> QED BY <2>1, SideTypes
<1>4. IF t \in Longs THEN n > 0 ELSE n < 0 BY DEF Towards
<1> QED BY <1>1, <1>2, <1>3, <1>4 DEF Covers, Towards

LEMMA SureType ==
  ASSUME TypeOK, NEW p \in Products
  PROVE  Sure(p) \in SUBSET Trades /\ net[p] \in Int
<1>1. book \in SUBSET Trades /\ disk.open \in SUBSET Trades /\ InFlight \in SUBSET Trades
  BY OpenerType DEF TypeOK, InFlight
<1>2. net[p] \in Int BY PerpBridgeAssumption DEF TypeOK, PerpBridgeAssumption
<1> QED BY <1>1, <1>2 DEF Sure, On, Holders

LEMMA SureTypeNext ==
  ASSUME TypeOK', NEW p \in Products
  PROVE  Sure(p)' \in SUBSET Trades /\ net'[p] \in Int
<1>1. book' \in SUBSET Trades /\ disk'.open \in SUBSET Trades /\ InFlight' \in SUBSET Trades
  BY DEF TypeOK, InFlight, NoTrade
<1>2. net'[p] \in Int BY PerpBridgeAssumption DEF TypeOK, PerpBridgeAssumption
<1> QED BY <1>1, <1>2 DEF Sure, On, Holders

LEMMA ApartStep == TypeOK /\ FileInv /\ FreshInv /\ ApartInv /\ [Next]_vars => ApartInv'
<1> SUFFICES ASSUME TypeOK, FileInv, FreshInv, ApartInv, [Next]_vars PROVE ApartInv' OBVIOUS
<1> USE DEF custody, venue, history, ApartInv, Begun
<1>1. CASE Enter
  <2>1. /\ opener'.pc # "begun" /\ UNCHANGED <<monitor, closer>>
        /\ opener'.pc = "idle" \/ (opener'.t = opener.t /\ opener.pc # "idle")
    BY <1>1, OpenerType DEF Enter, OpenRefused, GridSwitchesOff, EntryAccepted, EntryUnanswered,
       Attach, Book, NoTrade
  <2> QED BY <2>1
<1>2. CASE MonitorReads
  <2>1. opener.pc = "begun" => InFlight = {} /\ opener.t \notin book BY DEF InFlight, FreshInv
  <2>2. monitor'.known \subseteq book \cup InFlight /\ UNCHANGED <<opener, closer>>
    BY <1>2 DEF MonitorReads, Asleep
  <2> QED BY <2>1, <2>2
<1>3. CASE Monitor /\ ~MonitorReads
  <2>1. monitor'.known \subseteq monitor.known /\ UNCHANGED <<opener, closer>>
    <3>1. CASE MonitorDone BY <3>1 DEF MonitorDone, Asleep
    <3>2. CASE MonitorCopies \/ MonitorFinishes \/ MonitorCancels
      <4>1. monitor'.known = monitor.known
        BY <3>2 DEF MonitorCopies, MonitorFinishes, MonitorCancels, TypeOK
      <4> QED BY <3>2, <4>1 DEF MonitorCopies, MonitorFinishes, MonitorCancels
    <3>3. CASE MonitorBlind BY <3>3 DEF MonitorBlind
    <3> QED BY <1>3, <3>1, <3>2, <3>3 DEF Monitor
  <2> QED BY <2>1
<1>4. CASE CloseAll
  <2>1. closer'.todo \subseteq closer.todo \cup book /\ closer'.pc # "finish" /\ UNCHANGED <<opener, monitor>>
    <3>1. CASE CloseAllBegins BY <3>1 DEF CloseAllBegins
    <3>2. CASE CloseAllFinishes BY <3>2 DEF CloseAllFinishes, TypeOK
    <3>3. CASE CloseAllEnds BY <3>3 DEF CloseAllEnds, NoClose
    <3> QED BY <1>4, <3>1, <3>2, <3>3 DEF CloseAll
  <2> QED BY <2>1 DEF FreshInv
<1>5. ASSUME NEW t \in Trades, OpenBegin(t) PROVE ApartInv'
  BY <1>5 DEF OpenBegin, Fresh
<1>6. ASSUME NEW t \in Trades, MonitorVanished(t) \/ MonitorExits(t) \/ MonitorLeaves(t) PROVE ApartInv'
  <2>1. monitor'.known = monitor.known /\ UNCHANGED <<opener, closer>>
    BY <1>6 DEF MonitorVanished, MonitorExits, MonitorLeaves, TypeOK
  <2> QED BY <2>1
<1>7. ASSUME NEW t \in Trades, CloseAllExits(t) \/ CloseAllFails(t) PROVE ApartInv'
  <2>1. CASE CloseAllExits(t)
    <3>1. /\ closer'.todo = closer.todo \ {t} /\ closer'.t = t /\ t \in closer.todo
          /\ UNCHANGED <<opener, monitor>>
      BY <2>1 DEF CloseAllExits, TypeOK
    <3> QED BY <3>1
  <2>2. CASE CloseAllFails(t)
    <3>1. /\ closer'.todo = closer.todo \ {t} /\ closer'.pc = "walk"
          /\ UNCHANGED <<opener, monitor>>
      BY <2>2 DEF CloseAllFails, TypeOK
    <3> QED BY <3>1
  <2> QED BY <1>7, <2>1, <2>2
<1>8. CASE Crash BY <1>8 DEF Crash, NoTrade, NoClose
<1>9. CASE Arm \/ Disarm \/ Restore \/ RestoreBlind \/ RestoreEnds \/ UNCHANGED vars
  BY <1>9 DEF Arm, Disarm, Restore, RestoreBlind, RestoreEnds, vars
<1>10. ASSUME NEW s \in Streams, SetStrategyEnabled(s) PROVE ApartInv'
  BY <1>10 DEF SetStrategyEnabled
<1>11. ASSUME NEW p \in Products, VenueCloses(p) \/ CloseOrphan(p) PROVE ApartInv'
  BY <1>11 DEF VenueCloses, CloseOrphan
<1> QED
  BY <1>1, <1>2, <1>3, <1>4, <1>5, <1>6, <1>7, <1>8, <1>9, <1>10, <1>11 DEF Next, WithTrade

\* A product whose position stays as it is, or is gone, is accounted for as before when
\* nobody who owned a part of it leaves.
LEMMA OwnKeeps ==
  ASSUME TypeOK, TypeOK', OwnInv, NEW p \in Products, p \notin stray' \cup orphans',
         \/ net'[p] = 0
         \/ p \notin stray \cup orphans /\ net'[p] = net[p] /\ Sure(p) \subseteq Sure(p)'
  PROVE  Covers(Sure(p), net[p])'
<1>1. Sure(p)' \in SUBSET Trades /\ net'[p] \in Int BY SureTypeNext
<1>2. Covers(Sure(p)', net'[p])
  <2>1. CASE net'[p] = 0 BY <1>1, <2>1, CoversNothing
  <2>2. CASE p \notin stray \cup orphans /\ net'[p] = net[p] /\ Sure(p) \subseteq Sure(p)'
    <3>1. Covers(Sure(p), net[p]) BY <2>2 DEF OwnInv
    <3>2. Sure(p) \in SUBSET Sure(p)' BY <2>2
    <3> HIDE DEF Sure
    <3> QED BY <1>1, <2>2, <3>1, <3>2, CoversMore
  <2> QED BY <2>1, <2>2
<1> QED BY <1>2 DEF Covers

LEMMA OwnRest ==
  ASSUME TypeOK, TypeOK', OwnInv, phase' # "orphans" => orphans' = {},
         \A p \in Products \ (stray' \cup orphans') :
           \/ net'[p] = 0
           \/ p \notin stray \cup orphans /\ net'[p] = net[p] /\ Sure(p) \subseteq Sure(p)'
  PROVE  OwnInv'
<1> SUFFICES ASSUME NEW p \in Products, p \notin stray' \cup orphans' PROVE Covers(Sure(p), net[p])'
  BY DEF OwnInv, Covers, Buyers, Sellers
<1>1. \/ net'[p] = 0
      \/ p \notin stray \cup orphans /\ net'[p] = net[p] /\ Sure(p) \subseteq Sure(p)'
  OBVIOUS
<1> QED BY <1>1, OwnKeeps

\* The same where only the holders, the finishing and the monitor's reading change.
LEMMA SureKeeps ==
  ASSUME NEW p \in Products, Holders \subseteq Holders', Leaving' \subseteq Leaving,
         Past(p)' \subseteq Past(p)
  PROVE  Sure(p) \subseteq Sure(p)'
BY DEF Sure, On, Product

LEMMA OwnSame ==
  ASSUME TypeOK, TypeOK', OwnInv, UNCHANGED <<net, stray, orphans, phase>>,
         Holders \subseteq Holders', Leaving' \subseteq Leaving,
         \A p \in Products : Past(p)' \subseteq Past(p)
  PROVE  OwnInv'
<1>1. \A p \in Products : Sure(p) \subseteq Sure(p)' BY SureKeeps
<1>2. orphans' = orphans /\ net' = net /\ stray' = stray OBVIOUS
<1>3. phase' # "orphans" => orphans' = {} BY DEF OwnInv
<1> QED BY <1>1, <1>2, <1>3, OwnRest

\* An order that closes t, which its sender will finish or not.
LEMMA ExitOwn ==
  ASSUME TypeOK, TypeOK', OwnInv, NEW t \in Trades, UNCHANGED <<orphans, phase>>,
         \/ ExitAccepted(t) /\ \A p \in Products : Sure(p) \ {t} \subseteq Sure(p)'
         \/ ExitFails(t) /\ stray' = stray /\ \A p \in Products : Sure(p) \subseteq Sure(p)'
  PROVE  OwnInv'
<1>1. \A p \in Products : p # Product(t) => t \notin Sure(p) BY DEF Sure, On
<1>2. CASE net' = net
  <2>1. stray' = stray \/ stray' = stray \cup {Product(t)} BY DEF ExitAccepted
  <2>2. ASSUME NEW p \in Products, p \notin stray' \cup orphans'
        PROVE  p \notin stray \cup orphans /\ net'[p] = net[p] /\ Sure(p) \subseteq Sure(p)'
    <3>1. p \notin stray \cup orphans BY <2>1, <2>2
    <3>2. Sure(p) \subseteq Sure(p)'
      <4>1. CASE ExitAccepted(t) /\ \A q \in Products : Sure(q) \ {t} \subseteq Sure(q)'
        <5>1. CASE p = Product(t)
          <6>1. OnSide(t) /\ Fill(t, -1) BY <2>2, <4>1, <5>1 DEF ExitAccepted
          <6>2. net[p] * Towards(t) > 0 /\ net'[p] = net[p] + (-1) * Towards(t)
            BY <5>1, <6>1 DEF OnSide, Fill, TypeOK
          <6>3. net'[p] # net[p] BY <6>2, SureType DEF Towards
          <6> QED BY <1>2, <6>3
        <5>2. CASE p # Product(t) BY <1>1, <4>1, <5>2
        <5> QED BY <5>1, <5>2
      <4> QED BY <4>1
    <3> QED BY <1>2, <3>1, <3>2
  <2>3. phase' # "orphans" => orphans' = {} BY DEF OwnInv
  <2> QED BY <2>2, <2>3, OwnRest
<1>3. CASE OnSide(t) /\ Fill(t, -1) /\ stray' = stray
  <2>1. \A p \in Products : Sure(p) \ {t} \subseteq Sure(p)' OBVIOUS
  <2> SUFFICES ASSUME NEW p \in Products, p \notin stray' \cup orphans' PROVE Covers(Sure(p), net[p])'
    BY DEF OwnInv, Covers, Buyers, Sellers
  <2>2. p \notin stray \cup orphans BY <1>3
  <2>3. CASE p # Product(t)
    <3>1. net'[p] = net[p] BY <1>3, <2>3 DEF Fill, TypeOK
    <3>2. Sure(p) \subseteq Sure(p)' BY <1>1, <2>1, <2>3
    <3> QED BY <2>2, <3>1, <3>2, OwnKeeps
  <2>4. CASE p = Product(t)
    <3>1. net[p] * Towards(t) > 0 /\ net'[p] = net[p] + (-1) * Towards(t)
      BY <1>3, <2>4 DEF OnSide, Fill, TypeOK
    <3>2. Sure(p) \in SUBSET Trades /\ net[p] \in Int BY SureType
    <3>3. net'[p] = net[p] - Towards(t) BY <3>1, <3>2 DEF Towards
    <3>4. Covers(Sure(p), net[p]) BY <2>2 DEF OwnInv
    <3> HIDE DEF Sure
    <3>5. Covers(Sure(p) \ {t}, net'[p]) BY <3>1, <3>2, <3>3, <3>4, CoversExit
    <3>6. Sure(p)' \in SUBSET Trades /\ net'[p] \in Int BY SureTypeNext
    <3>7. Sure(p) \ {t} \in SUBSET Sure(p)' BY <2>1
    <3>8. Covers(Sure(p)', net'[p]) BY <3>5, <3>6, <3>7, CoversMore
    <3> QED BY <3>8 DEF Covers, Buyers, Sellers
  <2> QED BY <2>3, <2>4
<1> QED BY <1>2, <1>3 DEF ExitAccepted, ExitFails

LEMMA OwnEnter ==
  ASSUME TypeOK, TypeOK', FileInv, FreshInv, LimitInv, ApartInv, OwnInv, Enter
  PROVE  OwnInv'
<1> USE DEF custody, venue, history
<1>0. /\ phase = "up" /\ UNCHANGED <<phase, orphans, monitor, closer>> /\ opener.t \in Trades
      /\ opener.pc # "idle" /\ opener.t \notin book
  <2>1. opener.pc # "idle" /\ UNCHANGED <<phase, orphans, monitor, closer>>
    BY DEF Enter, OpenRefused, GridSwitchesOff, EntryAccepted, EntryUnanswered, Attach, Book
  <2> QED BY <2>1, OpenerType DEF FileInv, FreshInv, Begun
<1>1. Leaving' \subseteq Leaving /\ \A p \in Products : Past(p)' \subseteq Past(p)
  BY <1>0 DEF Leaving, Past, Product
<1>2. CASE OpenRefused \/ GridSwitchesOff
  <2>1. Holders' = Holders
    BY <1>0, <1>2 DEF OpenRefused, GridSwitchesOff, Holders, InFlight, NoTrade
  <2>2. UNCHANGED <<net, stray>> BY <1>2 DEF OpenRefused, GridSwitchesOff
  <2> QED BY <1>0, <1>1, <2>1, <2>2, OwnSame
<1>3. CASE EntryAccepted
  <2>1. Holders = book /\ Holders' = book \cup {opener.t} /\ stray' = stray
    BY <1>0, <1>3, OpenerType DEF EntryAccepted, Holders, InFlight
  <2>2. CASE net' = net BY <1>0, <1>1, <2>1, <2>2, OwnSame
  <2>3. CASE Fill(opener.t, 1)
    <3> SUFFICES ASSUME NEW p \in Products, p \notin stray' \cup orphans' PROVE Covers(Sure(p), net[p])'
      BY <1>0 DEF OwnInv, Covers, Buyers, Sellers
    <3>1. p \notin stray \cup orphans /\ Sure(p) \subseteq Sure(p)'
      BY <1>0, <1>1, <2>1, SureKeeps
    <3>2. CASE p # Product(opener.t)
      <4>1. net'[p] = net[p] BY <2>3, <3>2 DEF Fill, TypeOK
      <4> QED BY <3>1, <4>1, OwnKeeps
    <3>3. CASE p = Product(opener.t)
      <4>1. opener.t \notin Leaving
        BY <1>0 DEF Leaving, FreshInv, ApartInv, Begun
      <4>2. opener.t \notin Past(p) BY <1>3 DEF EntryAccepted, Past, ApartInv
      <4>3. opener.t \in Sure(p)' /\ opener.t \notin Sure(p)
        BY <1>0, <1>1, <2>1, <3>3, <4>1, <4>2 DEF Sure, On, Product
      <4>4. net'[p] = net[p] + 1 * Towards(opener.t) BY <2>3, <3>3 DEF Fill, TypeOK
      <4>5. net[p] \in Int /\ Sure(p) \in SUBSET Trades BY SureType
      <4>6. net'[p] = net[p] + Towards(opener.t) BY <4>4, <4>5 DEF Towards
      <4>7. Covers(Sure(p), net[p]) BY <3>1 DEF OwnInv
      <4>8. Sure(p)' \in SUBSET Trades /\ net'[p] \in Int BY SureTypeNext
      <4>9. Sure(p) \cup {opener.t} \in SUBSET Sure(p)' BY <3>1, <4>3
      <4> HIDE DEF Sure
      <4>10. Covers(Sure(p) \cup {opener.t}, net'[p]) BY <1>0, <4>3, <4>5, <4>6, <4>7, CoversEntry
      <4>11. Covers(Sure(p)', net'[p]) BY <4>8, <4>9, <4>10, CoversMore
      <4> QED BY <4>11 DEF Covers, Buyers, Sellers
    <3> QED BY <3>2, <3>3
  <2> QED BY <1>3, <2>2, <2>3 DEF EntryAccepted
<1>4. CASE EntryUnanswered
  <2>1. Holders' = Holders /\ stray' = stray \cup {Product(opener.t)} /\ Fill(opener.t, 1)
    BY <1>0, <1>4 DEF EntryUnanswered, Holders, InFlight, NoTrade
  <2>2. ASSUME NEW p \in Products, p \notin stray' \cup orphans'
        PROVE  p \notin stray \cup orphans /\ net'[p] = net[p] /\ Sure(p) \subseteq Sure(p)'
    BY <1>0, <1>1, <2>1, <2>2, SureKeeps DEF Fill, TypeOK
  <2>3. phase' # "orphans" => orphans' = {} BY <1>0 DEF OwnInv
  <2> QED BY <2>2, <2>3, OwnRest
<1>5. CASE Attach
  <2>1. Holders' = Holders
    BY <1>0, <1>5, OpenerType DEF Attach, Holders, InFlight
  <2>2. UNCHANGED <<net, stray>> BY <1>5 DEF Attach
  <2> QED BY <1>0, <1>1, <2>1, <2>2, OwnSame
<1>6. CASE Book
  <2>1. OfStream(opener.t) = {}
    BY <1>0 DEF LimitInv, WithinLimits, OfStream, Begun
  <2>2. Holders' = Holders /\ UNCHANGED <<net, stray>>
    BY <1>0, <1>6, <2>1 DEF Book, Booked, Holders, InFlight, NoTrade
  <2> QED BY <1>0, <1>1, <2>2, OwnSame
<1> QED BY <1>2, <1>3, <1>4, <1>5, <1>6 DEF Enter

\* Finishing t takes nobody who owns from the book, but where the history says so.
LEMMA FinishOwn ==
  ASSUME TypeOK, TypeOK', OwnInv, UNCHANGED <<phase, orphans, net, opener>>, phase = "up",
         NEW t \in Trades, Finish(t), t \notin InFlight,
         stray \subseteq stray', Supplants(t) => Product(t) \in stray',
         \A p \in Products \ stray' : Past(p)' \subseteq Past(p) /\ t \notin Sure(p),
         Leaving' \subseteq Leaving
  PROVE  OwnInv'
<1>1. ASSUME NEW p \in Products, p \notin stray' \cup orphans'
      PROVE  p \notin stray \cup orphans /\ net'[p] = net[p] /\ Sure(p) \subseteq Sure(p)'
  <2>1. p \notin stray \cup orphans BY <1>1
  <2>2. ASSUME NEW u \in Sure(p) PROVE u \in Sure(p)'
    <3>1. u \in Holders /\ Product(u) = p /\ u \notin Leaving /\ u \notin Past(p) BY DEF Sure, On
    <3>2. u # t BY <1>1
    <3>3. u \notin OfStream(t)
      BY <1>1, <3>1, <3>2 DEF Supplants, OfStream, Product
    <3>4. u \in Holders' BY <3>1, <3>3 DEF Holders, Finish, InFlight
    <3> QED BY <1>1, <3>1, <3>4 DEF Sure, On, Product
  <2> QED BY <2>1, <2>2
<1>2. phase' # "orphans" => orphans' = {} BY DEF OwnInv
<1> QED BY <1>1, <1>2, OwnRest

LEMMA OwnMonitor ==
  ASSUME TypeOK, TypeOK', FileInv, FreshInv, OwnInv, Monitor
  PROVE  OwnInv'
<1> USE DEF custody, venue, history
<1>0. /\ phase = "up" /\ UNCHANGED <<phase, orphans, net, opener, closer>>
  BY DEF Monitor, MonitorReads, MonitorBlind, MonitorCopies, MonitorFinishes, MonitorCancels,
         MonitorDone, FileInv
<1>1. CASE MonitorReads
  <2>1. ASSUME NEW p \in Products, net[p] # 0 PROVE Sure(p) \subseteq Sure(p)'
    <3>1. monitor'.pc = "read" /\ \A t \in monitor'.known : Product(t) # p
      BY <1>1, <2>1 DEF MonitorReads, Asleep
    <3>2. Leaving' \subseteq Leaving BY <1>0, <3>1 DEF Leaving
    <3>3. \A t \in Past(p)' : Product(t) # p BY <3>1 DEF Past
    <3>4. Holders' = Holders BY <1>0, <1>1 DEF MonitorReads, Holders, InFlight
    <3> QED BY <3>2, <3>3, <3>4 DEF Sure, On, Product
  <2>2. phase' # "orphans" => orphans' = {} BY <1>0 DEF OwnInv
  <2>3. stray' = stray /\ orphans' = orphans /\ net' = net BY <1>1 DEF MonitorReads
  <2> QED BY <2>1, <2>2, <2>3, OwnRest
<1>2. CASE MonitorBlind
  <2>1. Holders' = Holders /\ Leaving' = Leaving /\ (\A p \in Products : Past(p)' = Past(p))
        /\ stray' = stray
    BY <1>0, <1>2 DEF MonitorBlind, Holders, InFlight, Leaving, Past, Product
  <2> QED BY <1>0, <2>1, OwnSame
<1>3. CASE MonitorCopies \/ MonitorCancels \/ MonitorDone
  <2>1. /\ monitor'.pc # "finish" /\ UNCHANGED <<book, stray>>
        /\ \/ monitor'.pc = "idle"
           \/ /\ monitor.pc # "idle"
              /\ monitor'.marked = monitor.marked /\ monitor'.known = monitor.known
    <3>1. CASE MonitorCopies BY <3>1 DEF MonitorCopies, TypeOK
    <3>2. CASE MonitorCancels BY <3>2 DEF MonitorCancels, TypeOK
    <3>3. CASE MonitorDone BY <3>3 DEF MonitorDone, Asleep
    <3> QED BY <1>3, <3>1, <3>2, <3>3
  <2>2. Holders' = Holders BY <1>0, <2>1 DEF Holders, InFlight
  <2>3. Leaving' \subseteq Leaving BY <1>0, <2>1 DEF Leaving
  <2>4. \A p \in Products : Past(p)' \subseteq Past(p) BY <2>1 DEF Past
  <2> QED BY <1>0, <2>1, <2>2, <2>3, <2>4, OwnSame
<1>4. CASE MonitorFinishes
  <2>1. /\ monitor.pc = "finish" /\ monitor.t \in Trades /\ Finish(monitor.t)
        /\ monitor'.pc = "cancel" /\ monitor'.marked = monitor.marked /\ monitor'.known = monitor.known
    BY <1>4 DEF MonitorFinishes, TypeOK
  <2>2. /\ stray \subseteq stray'
        /\ Supplants(monitor.t) => Product(monitor.t) \in stray'
        /\ Unseen(monitor.t) => Product(monitor.t) \in stray'
    BY <1>4 DEF MonitorFinishes
  <2>3. monitor.t \notin InFlight BY <2>1 DEF FreshInv, Begun, InFlight
  <2>4. Leaving' \subseteq Leaving BY <1>0, <2>1 DEF Leaving
  <2>5. ASSUME NEW p \in Products, p \notin stray'
        PROVE  Past(p)' \subseteq Past(p) /\ monitor.t \notin Sure(p)
    <3>1. Past(p)' \subseteq Past(p) BY <2>1 DEF Past
    <3>2. CASE Product(monitor.t) # p BY <3>1, <3>2 DEF Sure, On
    <3>3. CASE Product(monitor.t) = p
      <4>1. ~Unseen(monitor.t) BY <2>2, <2>5, <3>3
      <4>2. CASE p \in monitor.marked
        <5>1. monitor.t \in Leaving BY <2>1, <3>3, <4>2 DEF Leaving
        <5> QED BY <3>1, <5>1 DEF Sure
      <4>3. CASE p \notin monitor.marked
        <5>1. monitor.t \in Past(p) BY <2>1, <3>3, <4>1, <4>3 DEF Past, Unseen
        <5> QED BY <3>1, <5>1 DEF Sure
      <4> QED BY <4>2, <4>3
    <3> QED BY <3>2, <3>3
  <2> QED BY <1>0, <2>1, <2>2, <2>3, <2>4, <2>5, FinishOwn
<1> QED BY <1>1, <1>2, <1>3, <1>4 DEF Monitor

LEMMA OwnCloseAll ==
  ASSUME TypeOK, TypeOK', FileInv, ApartInv, OwnInv, CloseAll
  PROVE  OwnInv'
<1> USE DEF custody, venue, history
<1>0. /\ phase = "up" /\ UNCHANGED <<phase, orphans, net, opener, monitor>>
  BY DEF CloseAll, CloseAllBegins, CloseAllFinishes, CloseAllEnds, FileInv
<1>1. \A p \in Products : Past(p)' = Past(p) BY <1>0 DEF Past
<1>2. CASE CloseAllBegins \/ CloseAllEnds
  <2>1. closer'.pc # "finish" /\ UNCHANGED <<book, stray>>
    BY <1>2 DEF CloseAllBegins, CloseAllEnds, NoClose
  <2>2. Holders' = Holders BY <1>0, <2>1 DEF Holders, InFlight
  <2>3. Leaving' \subseteq Leaving BY <1>0, <2>1 DEF Leaving, Product
  <2> QED BY <1>0, <1>1, <2>1, <2>2, <2>3, OwnSame
<1>3. CASE CloseAllFinishes
  <2>1. closer.pc = "finish" /\ closer.t \in Trades /\ Finish(closer.t) /\ closer'.pc = "walk"
    BY <1>3 DEF CloseAllFinishes, TypeOK
  <2>2. stray \subseteq stray' /\ (Supplants(closer.t) => Product(closer.t) \in stray')
    BY <1>3 DEF CloseAllFinishes
  <2>3. closer.t \notin InFlight BY <2>1 DEF ApartInv, Begun, InFlight
  <2>4. Leaving' \subseteq Leaving BY <1>0, <2>1 DEF Leaving, Product
  <2>5. \A p \in Products \ stray' : Past(p)' \subseteq Past(p) /\ closer.t \notin Sure(p)
    BY <1>1, <2>1 DEF Sure, Leaving
  <2> QED BY <1>0, <2>1, <2>2, <2>3, <2>4, <2>5, FinishOwn
<1> QED BY <1>2, <1>3 DEF CloseAll

LEMMA OwnTrade ==
  ASSUME TypeOK, TypeOK', OwnInv, NEW t \in Trades, WithTrade(t)
  PROVE  OwnInv'
<1> USE DEF custody, venue, history
<1>0. UNCHANGED <<phase, orphans, book, disk>>
  BY DEF WithTrade, OpenBegin, MonitorVanished, MonitorExits, MonitorLeaves, CloseAllExits,
         CloseAllFails
<1>1. CASE OpenBegin(t)
  <2>1. Holders' = Holders BY <1>0, <1>1 DEF OpenBegin, Holders, InFlight, NoTrade
  <2>2. Leaving' = Leaving /\ (\A p \in Products : Past(p)' = Past(p)) /\ UNCHANGED <<net, stray>>
    BY <1>1 DEF OpenBegin, Leaving, Past, Product
  <2> QED BY <1>0, <2>1, <2>2, OwnSame
<1>2. ASSUME MonitorVanished(t) \/ MonitorExits(t) \/ MonitorLeaves(t)
      PROVE  /\ Holders' = Holders /\ monitor.pc = "walk" /\ monitor'.marked = monitor.marked
             /\ UNCHANGED <<opener, closer>> /\ \A p \in Products : Past(p)' = Past(p)
  <2>1. /\ monitor'.marked = monitor.marked /\ monitor'.known = monitor.known
        /\ monitor.pc = "walk" /\ monitor'.pc \in {"walk", "finish"} /\ UNCHANGED <<opener, closer>>
    BY <1>2 DEF MonitorVanished, MonitorExits, MonitorLeaves, TypeOK
  <2> QED BY <1>0, <2>1 DEF Holders, InFlight, Past
<1>3. CASE MonitorVanished(t)
  <2>1. monitor'.t = t /\ Product(t) \notin monitor'.marked /\ UNCHANGED <<net, stray>>
    BY <1>2, <1>3 DEF MonitorVanished, TypeOK
  <2>2. Leaving' \subseteq Leaving BY <1>2, <1>3, <2>1 DEF Leaving, Product
  <2> QED BY <1>0, <1>2, <1>3, <2>1, <2>2, OwnSame
<1>4. CASE MonitorExits(t)
  <2>1. monitor'.t = t BY <1>4 DEF MonitorExits, TypeOK
  <2>2. Leaving' \subseteq Leaving \cup {t} BY <1>2, <1>4, <2>1 DEF Leaving, Product
  <2>3. \A p \in Products : Sure(p) \ {t} \subseteq Sure(p)'
    BY <1>2, <1>4, <2>2 DEF Sure, On, Product
  <2>4. ExitAccepted(t) BY <1>4 DEF MonitorExits
  <2> QED BY <1>0, <2>3, <2>4, ExitOwn
<1>5. CASE MonitorLeaves(t)
  <2>1. monitor'.pc = "walk" BY <1>5 DEF MonitorLeaves, TypeOK
  <2>2. Leaving' \subseteq Leaving BY <1>2, <1>5, <2>1 DEF Leaving
  <2>3. \A p \in Products : Sure(p) \subseteq Sure(p)' BY <1>2, <1>5, <2>2, SureKeeps
  <2>4. ExitFails(t) /\ stray' = stray BY <1>5 DEF MonitorLeaves
  <2> QED BY <1>0, <2>3, <2>4, ExitOwn
<1>6. CASE CloseAllExits(t)
  <2>1. closer'.t = t /\ UNCHANGED <<opener, monitor>> BY <1>6 DEF CloseAllExits, TypeOK
  <2>2. Leaving' \subseteq Leaving \cup {t} BY <2>1 DEF Leaving, Product
  <2>3. Holders' = Holders /\ \A p \in Products : Past(p)' = Past(p)
    BY <1>0, <2>1 DEF Holders, InFlight, Past
  <2>4. \A p \in Products : Sure(p) \ {t} \subseteq Sure(p)'
    BY <2>2, <2>3 DEF Sure, On, Product
  <2>5. ExitAccepted(t) BY <1>6 DEF CloseAllExits
  <2> QED BY <1>0, <2>4, <2>5, ExitOwn
<1>7. CASE CloseAllFails(t)
  <2>1. closer'.pc = "walk" /\ UNCHANGED <<opener, monitor>> BY <1>7 DEF CloseAllFails, TypeOK
  <2>2. Leaving' \subseteq Leaving BY <2>1 DEF Leaving, Product
  <2>3. Holders' = Holders /\ \A p \in Products : Past(p)' = Past(p)
    BY <1>0, <2>1 DEF Holders, InFlight, Past
  <2>4. \A p \in Products : Sure(p) \subseteq Sure(p)' BY <2>2, <2>3, SureKeeps
  <2>5. ExitFails(t) /\ stray' = stray BY <1>7 DEF CloseAllFails
  <2> QED BY <1>0, <2>4, <2>5, ExitOwn
<1> QED BY <1>1, <1>3, <1>4, <1>5, <1>6, <1>7 DEF WithTrade

LEMMA OwnRestart ==
  ASSUME TypeOK, TypeOK', FileInv, OwnInv, Crash \/ Restore \/ RestoreBlind \/ RestoreEnds
  PROVE  OwnInv'
<1> USE DEF custody, venue, history
<1>1. phase # "up" =>
        /\ InFlight = {} /\ Leaving = {}
        /\ \A p \in Products : Past(p) = {}
  BY DEF FileInv, InFlight, Leaving, Past
<1>2. CASE Crash
  <2>1. /\ phase' = "down" /\ disk' = disk /\ orphans' = {} /\ Leaving' = {}
        /\ \A p \in Products : Past(p)' = {}
    BY <1>2 DEF Crash, Asleep, NoClose, Leaving, Past
  <2>2. Unsaved \cup stray \subseteq stray' /\ (orphans = {} \/ orphans \subseteq stray')
    BY <1>2 DEF Crash, OwnInv, FileInv
  <2>3. ASSUME NEW p \in Products, p \notin stray' PROVE net'[p] = net[p]
    BY <1>2, <2>3 DEF Crash, Fill, TypeOK
  <2>4. ASSUME NEW p \in Products, p \notin stray' PROVE Sure(p) \subseteq Sure(p)'
    <3>1. \A t \in InFlight : Product(t) # p BY <2>2, <2>4 DEF Unsaved
    <3>2. \A t \in book \ disk.open : Product(t) # p BY <2>2, <2>4 DEF Unsaved
    <3>3. On(p, Holders) \subseteq disk.open BY <3>1, <3>2 DEF On, Holders
    <3> QED BY <2>1, <3>3 DEF Sure, On, Product, Holders
  <2>5. \A p \in Products \ (stray' \cup orphans') : p \notin stray \cup orphans
    BY <2>2
  <2> QED BY <2>1, <2>3, <2>4, <2>5, OwnRest
<1>3. CASE Restore
  <2>1. /\ phase = "down" /\ phase' = "orphans" /\ book' = Resumed /\ net' = net
        /\ orphans' = {p \in Products : net[p] # 0 /\ On(p, Resumed) = {}}
        /\ stray' = {p \in stray : On(p, Resumed) # {}}
        /\ UNCHANGED <<opener, monitor, closer>>
    BY <1>3 DEF Restore
  <2>2. Leaving' = {} /\ \A p \in Products : Past(p)' = {}
    BY <1>1, <2>1 DEF Leaving, Past, FileInv
  <2>3. ASSUME NEW p \in Products, p \notin stray' \cup orphans', net'[p] # 0
        PROVE  p \notin stray \cup orphans /\ net'[p] = net[p] /\ Sure(p) \subseteq Sure(p)'
    <3>1. On(p, Resumed) # {} BY <2>1, <2>3
    <3>2. p \notin stray BY <2>1, <2>3, <3>1
    <3>3. orphans = {} BY <2>1 DEF OwnInv
    <3>4. On(p, disk.open) \subseteq Resumed BY <2>1, <2>3 DEF On, Resumed
    <3>5. Sure(p) \subseteq Sure(p)'
      BY <2>1, <2>2, <3>4 DEF Sure, Holders, On, Product
    <3> QED BY <2>1, <3>2, <3>3, <3>5
  <2> QED BY <2>1, <2>3, OwnRest
<1>4. CASE RestoreBlind
  <2>1. /\ phase = "down" /\ phase' = "up" /\ book' = disk.open
        /\ UNCHANGED <<net, stray, orphans, opener, monitor, closer>>
    BY <1>4 DEF RestoreBlind
  <2>2. ASSUME NEW p \in Products PROVE Sure(p) \subseteq Sure(p)'
    <3>1. Holders \subseteq Holders' BY <2>1 DEF Holders
    <3>2. Leaving' = {} /\ Past(p)' = {} BY <1>1, <2>1 DEF Leaving, Past, FileInv
    <3> QED BY <3>1, <3>2 DEF Sure, On, Product
  <2>3. orphans' = {} BY <2>1 DEF OwnInv
  <2> QED BY <2>1, <2>2, <2>3, OwnRest
<1>5. CASE RestoreEnds
  <2>1. /\ phase = "orphans" /\ orphans = {} /\ phase' = "up" /\ book' = book
        /\ UNCHANGED <<net, stray, orphans, opener, monitor, closer>>
    BY <1>5 DEF RestoreEnds
  <2>2. ASSUME NEW p \in Products PROVE Sure(p) \subseteq Sure(p)'
    <3>1. Holders \subseteq Holders' BY <2>1 DEF Holders, InFlight
    <3>2. Leaving' = {} /\ Past(p)' = {} BY <1>1, <2>1 DEF Leaving, Past, FileInv
    <3> QED BY <3>1, <3>2 DEF Sure, On, Product
  <2> QED BY <2>1, <2>2, OwnRest
<1> QED BY <1>2, <1>3, <1>4, <1>5

LEMMA OwnStep ==
  TypeOK /\ FileInv /\ FreshInv /\ LimitInv /\ ApartInv /\ OwnInv /\ [Next]_vars => OwnInv'
<1> SUFFICES ASSUME TypeOK, FileInv, FreshInv, LimitInv, ApartInv, OwnInv, [Next]_vars
             PROVE  OwnInv'
  OBVIOUS
<1> USE DEF custody, venue, history
<1>0. TypeOK' BY TypeStep
<1>1. CASE Enter BY <1>0, <1>1, OwnEnter
<1>2. CASE Monitor BY <1>0, <1>2, OwnMonitor
<1>3. CASE CloseAll BY <1>0, <1>3, OwnCloseAll
<1>4. ASSUME NEW t \in Trades, WithTrade(t) PROVE OwnInv' BY <1>0, <1>4, OwnTrade
<1>5. CASE Crash \/ Restore \/ RestoreBlind \/ RestoreEnds BY <1>0, <1>5, OwnRestart
<1>6. ASSUME NEW s \in Streams, SetStrategyEnabled(s) PROVE OwnInv'
  <2>1. /\ UNCHANGED <<net, stray, orphans, phase, book, opener, monitor, closer>>
        /\ phase = "up"
    BY <1>6 DEF SetStrategyEnabled
  <2>2. /\ Holders' = Holders /\ Leaving' = Leaving
        /\ \A p \in Products : Past(p)' = Past(p)
    BY <2>1 DEF Holders, InFlight, Leaving, Past, Product
  <2> QED BY <1>0, <2>1, <2>2, OwnSame
<1>7. CASE Arm \/ Disarm \/ UNCHANGED vars
  <2>1. UNCHANGED <<net, stray, orphans, phase, book, disk, opener, monitor, closer>>
    BY <1>7 DEF Arm, Disarm, vars
  <2>2. /\ Holders' = Holders /\ Leaving' = Leaving
        /\ \A p \in Products : Past(p)' = Past(p)
    BY <2>1 DEF Holders, InFlight, Leaving, Past, Product
  <2> QED BY <1>0, <2>1, <2>2, OwnSame
<1>8. ASSUME NEW p \in Products, VenueCloses(p) \/ CloseOrphan(p) PROVE OwnInv'
  <2>1. /\ UNCHANGED <<phase, book, disk, opener, monitor, closer>>
        /\ \A q \in Products : q # p => net'[q] = net[q] /\ (q \in stray' <=> q \in stray)
                                         /\ (q \in orphans' <=> q \in orphans)
        /\ net'[p] = 0 \/ p \in stray'
        /\ orphans' \subseteq orphans
    BY <1>8 DEF VenueCloses, CloseOrphan, TypeOK
  <2>2. /\ Holders' = Holders /\ Leaving' = Leaving
        /\ \A q \in Products : Past(q)' = Past(q)
    BY <2>1 DEF Holders, InFlight, Leaving, Past, Product
  <2>3. \A q \in Products : Sure(q) \subseteq Sure(q)' BY <2>2, SureKeeps
  <2>4. phase' # "orphans" => orphans' = {} BY <2>1 DEF OwnInv
  <2> QED BY <1>0, <2>1, <2>3, <2>4, OwnRest
<1> QED BY <1>1, <1>2, <1>3, <1>4, <1>5, <1>6, <1>7, <1>8 DEF Next

\* perp_bridge.go:602-605: every position is owned until it exits, but where an answer, an
\* exit, a finish or a restart has cut the trade from its contract (stray).
THEOREM ContractsAreOwned == Spec => []EveryContractOwned
<1>1. Init => FreshInv /\ ApartInv
  BY DEF Init, FreshInv, ApartInv, Begun, NoTrade, Asleep, NoClose
<1>2. Init => LimitInv BY LimitInit
<1>3. Init => OwnInv
  <2> SUFFICES ASSUME Init, NEW p \in Products PROVE Covers(Sure(p), net[p])
    BY DEF Init, OwnInv
  <2>1. net[p] = 0 BY DEF Init
  <2>2. Sure(p) \in SUBSET Trades BY TypeInit, SureType
  <2> QED BY <2>1, <2>2, CoversNothing
<1>4. TypeOK /\ OwnInv => EveryContractOwned
  <2> SUFFICES ASSUME TypeOK, OwnInv, phase = "up", NEW p \in Products, p \notin stray
               PROVE  ~Uncovered(p)
    BY DEF EveryContractOwned
  <2>1. Covers(Sure(p), net[p]) /\ Holders = book \cup InFlight
    BY DEF OwnInv, Holders
  <2>2. On(p, book \cup InFlight) \in SUBSET Trades
    BY OpenerType DEF TypeOK, InFlight, On
  <2>3. Sure(p) \in SUBSET On(p, book \cup InFlight) /\ net[p] \in Int
    BY <2>1, SureType DEF Sure
  <2>4. Covers(On(p, book \cup InFlight), net[p])
    <3> HIDE DEF Sure, On
    <3> QED BY <2>1, <2>2, <2>3, CoversMore
  <2>5. /\ Owned(p, Longs) = Buyers(On(p, book \cup InFlight))
        /\ Owned(p, Trades \ Longs) = Sellers(On(p, book \cup InFlight))
    <3>1. {t \in On(p, book \cup InFlight) : t \in Longs} = On(p, book \cup InFlight) \cap Longs
      OBVIOUS
    <3>2. {t \in On(p, book \cup InFlight) : t \in Trades \ Longs} = On(p, book \cup InFlight) \ Longs
      BY <2>2
    <3> QED BY <3>1, <3>2 DEF Owned, Buyers, Sellers
  <2>6. Buyers(On(p, book \cup InFlight)) \in Nat /\ Sellers(On(p, book \cup InFlight)) \in Nat
    BY <2>2, SideTypes
  <2> QED BY <2>3, <2>4, <2>5, <2>6 DEF Covers, Uncovered
<1> QED
  BY <1>1, <1>2, <1>3, <1>4, Saved, LimitStep, FreshStep, ApartStep, OwnStep, PTL DEF Spec

=============================================================================
