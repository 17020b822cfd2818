--------------------------- MODULE PaperReconProofs ---------------------------
(***************************************************************************)
(* Theorems about PaperRecon, for any number of positions and sides: the   *)
(* desk writes its ledger as Ledger allows, so that what LedgerProofs has  *)
(* of the reader holds of it; the ledger matches the book; and a cycle     *)
(* halts, and fails to halt, for the reasons stated only.                  *)
(***************************************************************************)
EXTENDS PaperRecon, LedgerProofs

-----------------------------------------------------------------------------
(* The inductive invariant *)

Opening(p) == <<"opened", p>>
Close(p) == <<"closed", p>>
Emitted(e) == ev[e].pc \notin {"none", "lost"}

\* Of every position: what is known before it opens and until it is mapped, and that
\* its closing is never stamped before its opening.
Course(p) ==
  /\ book[p] = "none" => /\ p \notin tracking \cup mapped \cup closes
                         /\ ev[Opening(p)].pc = "none" /\ ev[Close(p)].pc = "none"
  /\ p \in tracking => /\ p \notin mapped
                       /\ ev[Opening(p)].pc = "none" /\ ev[Close(p)].pc = "none"
  /\ Emitted(Opening(p)) /\ Emitted(Close(p)) => ev[Opening(p)].at <= ev[Close(p)].at

\* Of a position that did not stray: each event is emitted once, when it is due.
Straight(p) ==
  /\ book[p] # "none" /\ p \notin tracking => ev[Opening(p)].pc # "none"
  /\ book[p] = "open" => /\ p \notin closes /\ ev[Close(p)].pc = "none"
                         /\ p \in tracking \cup mapped
  /\ p \in closes => /\ book[p] = "closed" /\ ev[Close(p)].pc = "none"
                     /\ p \in tracking \cup mapped
  /\ book[p] = "closed" /\ p \notin closes => ev[Close(p)].pc # "none" /\ p \notin tracking

DeskInv == \A p \in Pos : Course(p) /\ (p \notin strayed => Straight(p))

\* What the cycle has read is what a full replay tells.
ReadExact ==
  cycle = "read" /\ ~moved =>
    \A p \in Pos : Misread(p) \/ (p \in oms <=> FullReplay[p] = "opened")

LedgerInv == LedgerTypeOK /\ ViewInv /\ OrderInv

-----------------------------------------------------------------------------
(* The desk implements Ledger. *)

LEMMA EmitNothing == ASSUME LedgerTypeOK, Emit({}) PROVE UNCHANGED ledgerVars
<1>1. ev' = [e \in Event |-> ev[e]] BY DEF Emit
<1>2. ev' = ev BY <1>1 DEF LedgerTypeOK
<1> QED BY <1>2 DEF Emit, ledgerVars

LEMMA DeskStep == LedgerTypeOK /\ [Next]_vars => [LedgerNext]_ledgerVars
<1> SUFFICES ASSUME LedgerTypeOK, [Next]_vars PROVE LedgerNext \/ UNCHANGED ledgerVars
  OBVIOUS
<1> USE EventsOf DEF Kind
<1>1. ASSUME NEW p \in Pos, OpenPosition(p) \/ LeaveUnmapped(p) \/ ClosePosition(p)
      PROVE  UNCHANGED ledgerVars
  BY <1>1 DEF OpenPosition, LeaveUnmapped, ClosePosition
<1>7. Reset => UNCHANGED ledgerVars BY DEF Reset
<1>2. ASSUME NEW p \in Pos, Track(p) PROVE LedgerNext
  BY <1>2 DEF Track, LedgerNext
<1>3. ASSUME NEW p \in Pos, ProcessClose(p) PROVE LedgerNext \/ UNCHANGED ledgerVars
  <2>1. CASE p \in mapped BY <1>3, <2>1 DEF ProcessClose, Closing, LedgerNext
  <2>2. CASE p \notin mapped BY <1>3, <2>2, EmitNothing DEF ProcessClose, Closing
  <2> QED BY <2>1, <2>2
<1>4. ASSUME NEW e \in Event, Write(e) PROVE LedgerNext
  BY <1>4 DEF Write, LedgerNext
<1>5. BeginCycle \/ Time \/ Restart => LedgerNext
  BY DEF BeginCycle, Time, Restart, LedgerNext
<1>6. Compare \/ UNCHANGED vars => UNCHANGED ledgerVars
  BY DEF Compare, vars
<1> QED BY <1>1, <1>2, <1>3, <1>4, <1>5, <1>6, <1>7 DEF Next, Desk

LEMMA LedgerStep == LedgerInv /\ [LedgerNext]_ledgerVars => LedgerInv'
BY LedgerTypeStep, ViewStep, OrderStep DEF LedgerInv, ViewInv

LEMMA LedgerStart == Init => LedgerInv
<1>1. LedgerInit => OrderInv
  BY DEF LedgerInit, OrderInv, LastKnown, Skipped, CacheInOrder, ShownOpened, ReadInOrder
<1> QED BY <1>1, ViewInit DEF Init, LedgerInv

LEMMA LedgerHolds == Spec => []LedgerInv /\ [][LedgerNext]_ledgerVars
<1>1. LedgerInv /\ [Next]_vars => LedgerInv'
  BY DeskStep, LedgerStep DEF LedgerInv
<1>2. LedgerInv /\ [Next]_vars => [LedgerNext]_ledgerVars
  BY DeskStep DEF LedgerInv
<1> QED BY <1>1, <1>2, LedgerStart, PTL DEF Spec

\* The desk and its reconciliation use the ledger as Ledger allows.
THEOREM DeskImplementsLedger == Spec => LedgerSpec
<1>1. Init => LedgerInit BY DEF Init
<1> QED BY <1>1, LedgerHolds, PTL DEF Spec, LedgerSpec

\* The reader of the desk's own ledger reads the whole log.
THEOREM DeskReadsTheLog == Spec => ReadsTheLog
BY DeskImplementsLedger, ReaderReadsTheLog, PTL

\* The reader of the desk's own ledger reads in order.
THEOREM DeskReadsInOrder == Spec => []ReadInOrder
BY DeskImplementsLedger, AnswersAreInOrder, PTL

-----------------------------------------------------------------------------
(* Types *)

LEMMA DeskTypeStep == TypeOK /\ LedgerInv /\ [Next]_vars => TypeOK'
<1> SUFFICES ASSUME TypeOK, LedgerInv, [Next]_vars PROVE TypeOK' OBVIOUS
<1>1. LedgerTypeOK' BY DeskStep, LedgerStep DEF LedgerInv
<1>2. ASSUME NEW p \in Pos, \/ OpenPosition(p) \/ Track(p) \/ LeaveUnmapped(p)
                            \/ ClosePosition(p) \/ ProcessClose(p)
      PROVE  TypeOK'
  BY <1>1, <1>2
     DEF TypeOK, OpenPosition, Track, LeaveUnmapped, ClosePosition, ProcessClose, Moves
<1>6. CASE Reset
  BY <1>1, <1>6 DEF TypeOK, Reset, Moves, Open
<1>3. ASSUME NEW e \in Event, Write(e) PROVE TypeOK'
  BY <1>1, <1>3 DEF TypeOK, Write, Moves, desk
<1>4. CASE BeginCycle \/ Compare \/ Time \/ UNCHANGED vars
  BY <1>1, <1>4 DEF TypeOK, BeginCycle, Compare, Time, vars, desk
<1>5. CASE Restart
  BY <1>1, <1>5 DEF TypeOK, Restart
<1> QED BY <1>2, <1>3, <1>4, <1>5, <1>6 DEF Next, Desk

-----------------------------------------------------------------------------
(* The ledger matches the book. *)

LEMMA EventOf ==
  ASSUME NEW p \in Pos
  PROVE  /\ Opening(p) \in Event /\ Close(p) \in Event /\ Opening(p) # Close(p)
         /\ \A q \in Pos : (Opening(q) = Opening(p) => q = p) /\ (Close(q) = Close(p) => q = p)
         /\ \A q \in Pos : Opening(q) # Close(p)
BY DEF Opening, Close, Event, Kind

\* The desk's part of the invariant over a step of an append: it emits nothing.
LEMMA AppendKeeps ==
  ASSUME TypeOK, NEW e \in Event, AppendStep(e), NEW f \in Event
  PROVE  /\ ev'[f].pc = "none" <=> ev[f].pc = "none"
         /\ Emitted(f)' => Emitted(f) /\ ev'[f].at = ev[f].at
BY DEF TypeOK, LedgerTypeOK, AppendStep, Number, Insert, AppendFails, Lost, Unsent, Emitted

LEMMA EmitSets ==
  ASSUME TypeOK, NEW E \in SUBSET Event, Emit(E), NEW f \in Event
  PROVE  /\ f \notin E => ev'[f] = ev[f]
         /\ ev'[f] = ev[f] \/ ev'[f].at = clock
         /\ f \in E => ev'[f].pc \notin {"none", "lost"}
         /\ f \in E /\ ev[f].pc = "none" => ev'[f].at = clock
BY DEF TypeOK, LedgerTypeOK, Emit

LEMMA CourseStep ==
  ASSUME TypeOK, LedgerInv, DeskInv, [Next]_vars, NEW p \in Pos
  PROVE  Course(p)' /\ (p \notin strayed' => Straight(p)')
<1> USE EventOf DEF Course, Straight
<1>0. Course(p) /\ (p \notin strayed => Straight(p)) BY DEF DeskInv
<1>1. ASSUME NEW q \in Pos, OpenPosition(q) \/ ClosePosition(q)
      PROVE  Course(p)' /\ (p \notin strayed' => Straight(p)')
  <2>1. UNCHANGED <<ev, mapped, strayed>>
    BY <1>1 DEF OpenPosition, ClosePosition, ledgerVars
  <2> QED BY <1>0, <1>1, <2>1 DEF OpenPosition, ClosePosition, Emitted, TypeOK
<1>2. ASSUME NEW q \in Pos, Track(q) PROVE Course(p)' /\ (p \notin strayed' => Straight(p)')
  <2>1. {Opening(q)} \in SUBSET Event /\ Emit({Opening(q)}) BY <1>2 DEF Track, Opening
  <2>2. ev'[Close(p)] = ev[Close(p)] BY <2>1, EmitSets
  <2>3. p # q => ev'[Opening(p)] = ev[Opening(p)] BY <2>1, EmitSets
  <2>4. p = q => ev'[Opening(p)].pc # "none" BY <2>1, EmitSets
  <2>5. p = q => ev[Close(p)].pc = "none" BY <1>0, <1>2 DEF Track
  <2> QED BY <1>0, <1>2, <2>2, <2>3, <2>4, <2>5 DEF Track, Emitted
<1>3. ASSUME NEW q \in Pos, ProcessClose(q)
      PROVE  Course(p)' /\ (p \notin strayed' => Straight(p)')
  <2>0. Closing(q) \in SUBSET Event /\ Emit(Closing(q)) BY <1>3 DEF ProcessClose, Closing, Close
  <2>1. Opening(p) \notin Closing(q) /\ (p # q => Close(p) \notin Closing(q))
    BY DEF Closing, Close
  <2>2. ev'[Opening(p)] = ev[Opening(p)] /\ (p # q => ev'[Close(p)] = ev[Close(p)])
    BY <2>0, <2>1, EmitSets
  <2>3. CASE p # q BY <1>0, <1>3, <2>2, <2>3 DEF ProcessClose, Emitted
  <2>4. CASE p = q /\ p \notin mapped
    <3>1. Closing(q) = {} BY <2>4 DEF Closing
    <3>2. ev'[Close(p)] = ev[Close(p)] BY <2>0, <3>1, EmitSets
    <3> QED BY <1>0, <1>3, <2>2, <2>4, <3>2 DEF ProcessClose, Emitted
  <2>5. CASE p = q /\ p \in mapped
    <3>1. Close(p) \in Closing(q) BY <2>5 DEF Closing, Close
    <3>2. ev'[Close(p)].pc # "none" BY <2>0, <3>1, EmitSets
    <3>3. ev'[Close(p)] = ev[Close(p)] \/ ev'[Close(p)].at = clock BY <2>0, EmitSets
    <3>4. ev[Opening(p)].at <= clock BY DEF LedgerInv, ViewInv, Stamps
    <3>5. Emitted(Opening(p))' /\ Emitted(Close(p))' => ev'[Opening(p)].at <= ev'[Close(p)].at
      BY <1>0, <2>2, <3>3, <3>4 DEF Emitted
    <3>6. book[p] # "none" /\ p \notin tracking BY <1>0, <2>5
    <3> QED BY <1>0, <1>3, <2>2, <2>5, <3>2, <3>5, <3>6 DEF ProcessClose
  <2> QED BY <2>3, <2>4, <2>5
<1>4. ASSUME NEW e \in Event, Write(e) PROVE Course(p)' /\ (p \notin strayed' => Straight(p)')
  <2>1. AppendStep(e) /\ UNCHANGED <<book, tracking, mapped, closes, strayed>>
    BY <1>4 DEF Write, desk
  <2>2. /\ ev'[Opening(p)].pc = "none" <=> ev[Opening(p)].pc = "none"
        /\ ev'[Close(p)].pc = "none" <=> ev[Close(p)].pc = "none"
        /\ Emitted(Opening(p))' => Emitted(Opening(p)) /\ ev'[Opening(p)].at = ev[Opening(p)].at
        /\ Emitted(Close(p))' => Emitted(Close(p)) /\ ev'[Close(p)].at = ev[Close(p)].at
    BY <2>1, AppendKeeps
  <2> QED BY <1>0, <2>1, <2>2
<1>5. CASE Restart
  <2>1. LedgerRestart BY <1>5 DEF Restart
  <2>2. \A f \in Event : /\ ev'[f].pc = "none" <=> ev[f].pc = "none"
                         /\ Emitted(f)' => Emitted(f) /\ ev'[f].at = ev[f].at
    BY <2>1 DEF LedgerRestart, Lost, Unsent, Emitted
  <2>3. PICK kept \in SUBSET ({r \in Pos : book[r] # "none"} \ tracking) :
          /\ book' = [r \in Pos |-> IF r \in kept THEN "open"
                                    ELSE IF book[r] = "open" THEN "closed" ELSE book[r]]
          /\ mapped' = kept
          /\ strayed' = strayed \cup tracking \cup closes
                               \cup {r \in Pos : (r \in kept) # (book[r] = "open")}
    BY <1>5 DEF Restart
  <2>4. tracking' = {} /\ closes' = {} BY <1>5 DEF Restart
  <2>a. /\ ev'[Opening(p)].pc = "none" <=> ev[Opening(p)].pc = "none"
        /\ ev'[Close(p)].pc = "none" <=> ev[Close(p)].pc = "none"
        /\ Emitted(Opening(p))' => Emitted(Opening(p)) /\ ev'[Opening(p)].at = ev[Opening(p)].at
        /\ Emitted(Close(p))' => Emitted(Close(p)) /\ ev'[Close(p)].at = ev[Close(p)].at
    BY <2>2
  <2>b. /\ p \in kept => book[p] # "none" /\ p \notin tracking
        /\ book'[p] = IF p \in kept THEN "open" ELSE IF book[p] = "open" THEN "closed" ELSE book[p]
        /\ book[p] \in {"none", "open", "closed"}
    BY <2>3 DEF TypeOK
  <2>5. Course(p)' BY <1>0, <2>3, <2>4, <2>a, <2>b
  <2>6. p \notin strayed' => Straight(p)'
    <3>1. SUFFICES ASSUME p \notin strayed' PROVE Straight(p)' OBVIOUS
    <3>2. /\ Straight(p) /\ p \notin tracking \cup closes /\ ((p \in kept) <=> (book[p] = "open"))
      BY <1>0, <2>3, <3>1
    <3> QED BY <2>3, <2>4, <2>a, <2>b, <3>2
  <2> QED BY <2>5, <2>6
<1>6. CASE BeginCycle \/ Compare \/ Time \/ UNCHANGED vars
  <2>1. UNCHANGED <<ev, book, tracking, mapped, closes, strayed>>
    BY <1>6 DEF BeginCycle, LoadEvents, Prime, Extend, Compare, Time, Tick, vars, ledgerVars, desk
  <2> QED BY <1>0, <2>1 DEF Emitted
<1>7. ASSUME NEW q \in Pos, LeaveUnmapped(q)
      PROVE  Course(p)' /\ (p \notin strayed' => Straight(p)')
  <2>1. UNCHANGED <<ev, book, mapped, closes>> BY <1>7 DEF LeaveUnmapped, ledgerVars
  <2>2. tracking' = tracking \ {q} /\ strayed' = strayed \cup {q}
    BY <1>7 DEF LeaveUnmapped
  <2> QED BY <1>0, <2>1, <2>2 DEF Emitted
<1>8. CASE Reset
  <2>1. UNCHANGED <<ev, tracking, mapped, closes>> BY <1>8 DEF Reset, ledgerVars
  <2>2. book'[p] = (IF book[p] = "open" THEN "closed" ELSE book[p])
        /\ strayed' = strayed \cup Open /\ (p \in Open <=> book[p] = "open")
    BY <1>8 DEF Reset, Open
  <2> QED BY <1>0, <2>1, <2>2 DEF Emitted
<1> QED BY <1>1, <1>2, <1>3, <1>4, <1>5, <1>6, <1>7, <1>8 DEF Next, Desk

LEMMA DeskInvStep == TypeOK /\ LedgerInv /\ DeskInv /\ [Next]_vars => DeskInv'
BY CourseStep DEF DeskInv

LEMMA DeskStart == Init => TypeOK /\ LedgerInv /\ DeskInv
<1>1. Init => LedgerInv BY LedgerStart
<1>2. Init => TypeOK BY <1>1 DEF Init, TypeOK, LedgerInv
<1>3. Init => DeskInv
  BY EventOf DEF Init, LedgerInit, Unsent, DeskInv, Course, Straight, Emitted
<1> QED BY <1>1, <1>2, <1>3

LEMMA DeskHolds == Spec => [](TypeOK /\ LedgerInv /\ DeskInv)
<1>1. TypeOK /\ LedgerInv /\ DeskInv /\ [Next]_vars => (TypeOK /\ LedgerInv /\ DeskInv)'
  BY DeskTypeStep, DeskStep, LedgerStep, DeskInvStep DEF LedgerInv
<1> QED BY <1>1, DeskStart, PTL DEF Spec

\* The types of the desk.
THEOREM DeskTypes == Spec => []TypeOK
BY DeskHolds, PTL

\* loop.go:2624: what a full replay of the ledger tells of a position is what the book has,
\* except while it is recorded, after a lost append, a stray or a tie.
THEOREM LedgerTellsTheBook == Spec => []LedgerMatchesBook
<1>1. TypeOK /\ DeskInv => LedgerMatchesBook
  <2> SUFFICES ASSUME TypeOK, DeskInv, NEW p \in Pos, ~UnderWay(p), p \notin strayed, ~Tied(p),
                      \A k \in Kind : ev[<<k, p>>].pc # "lost"
               PROVE  ~Divergent(p)
    BY DEF LedgerMatchesBook
  <2> USE EventOf DEF Kind, Opening, Close
  <2>1. Course(p) /\ Straight(p) BY DEF DeskInv
  <2>2. /\ ev[Opening(p)].pc \in {"none", "stored"} /\ ev[Close(p)].pc \in {"none", "stored"}
        /\ p \notin tracking \cup closes
    BY DEF UnderWay, TypeOK, LedgerTypeOK
  <2>3. /\ Opening(p) \in Stored <=> ev[Opening(p)].pc = "stored"
        /\ Close(p) \in Stored <=> ev[Close(p)].pc = "stored"
    BY DEF Stored
  <2>4. FullReplay[p] = LastOf(Stored, p) BY DEF FullReplay
  <2>5. CASE book[p] = "none"
    <3>1. LastOf(Stored, p) = "none"
      BY <2>1, <2>3, <2>5, FreshShape, LastOfShape DEF Course
    <3> QED BY <2>4, <2>5, <3>1 DEF Divergent
  <2>6. CASE book[p] = "open"
    <3>1. Opening(p) \in Stored /\ Close(p) \notin Stored
      BY <2>1, <2>2, <2>3, <2>6 DEF Straight
    <3>2. LastOf(Stored, p) = "opened" BY <3>1, FreshShape, LastOfShape
    <3> QED BY <2>4, <2>6, <3>2 DEF Divergent
  <2>7. CASE book[p] = "closed"
    <3>1. Opening(p) \in Stored /\ Close(p) \in Stored
      BY <2>1, <2>2, <2>3, <2>7 DEF Straight
    <3>2. ev[Opening(p)].at <= ev[Close(p)].at
      BY <2>1, <2>3, <3>1 DEF Course, Emitted
    <3>3. ev[Opening(p)].at # ev[Close(p)].at BY <3>1 DEF Tied
    <3>4. ev[Opening(p)].at \in Nat /\ ev[Close(p)].at \in Nat BY StampType DEF TypeOK
    <3>5. Before(Opening(p), Close(p)) BY <3>2, <3>3, <3>4 DEF Before
    <3>6. LastOf(Stored, p) # "opened" BY <3>1, <3>5, FreshShape, LastOfShape
    <3> QED BY <2>4, <2>7, <3>6 DEF Divergent
  <2> QED BY <2>5, <2>6, <2>7 DEF TypeOK
<1> QED BY <1>1, DeskHolds, PTL

-----------------------------------------------------------------------------
(* Why a cycle halts, and why not. *)

\* A read tells of a position what a full replay does, unless an event of it came late or
\* out of order.
LEMMA ReadTells ==
  ASSUME LedgerInv, LoadEvents, NEW p \in Pos, ~Misread(p),
         Opening(p) \in Stored /\ Close(p) \in Stored => ev[Opening(p)].at <= ev[Close(p)].at
  PROVE  p \in oms' <=> FullReplay[p] = "opened"
<1> USE EventOf DEF Kind, Opening, Close
<1>1. CASE oms' = OpenIn(FullReplay)
  BY <1>1 DEF OpenIn
<1>2. CASE Extend /\ Cardinality(seen \cup Fresh) <= CacheCap
  <2>1. oms' = OpenIn(last') /\ primed' BY <1>2 DEF Extend
  <2>2. LedgerInv' BY LedgerStep DEF LedgerNext
  <2>3. \A e \in Stored : e[2] = p => e \in seen'
    BY <2>1, ReadShape DEF LedgerInv, Misread
  <2>4. seen' \subseteq Stored BY ReadShape DEF LedgerInv
  <2>5. /\ Opening(p) \in Stored <=> Opening(p) \in seen'
        /\ Close(p) \in Stored <=> Close(p) \in seen'
    BY <2>3, <2>4, EventsOf
  <2>6. /\ last'[p] # "none" => <<last'[p], p>> \in seen'
        /\ \A k \in Kind : <<k, p>> \in seen' => last'[p] # "none"
        /\ last'[p] \in Kind \cup {"none"}
    BY <2>2 DEF LedgerInv, OrderInv, LastKnown, LedgerTypeOK
  <2>7. FullReplay[p] = LastOf(Stored, p) /\ Stored \in SUBSET Event
    BY FreshShape DEF FullReplay
  <2>8. CASE Opening(p) \in Stored /\ Close(p) \in Stored
    <3>1. ev[Opening(p)].at < ev[Close(p)].at
      <4>1. ev[Opening(p)].at \in Nat /\ ev[Close(p)].at \in Nat BY StampType DEF LedgerInv
      <4>2. ev[Opening(p)].at # ev[Close(p)].at BY <2>8 DEF Misread, Tied
      <4> QED BY <2>8, <4>1, <4>2
    <3>2. LastOf(Stored, p) # "opened"
      <4>1. Before(Opening(p), Close(p)) BY <3>1 DEF Before
      <4> QED BY <2>7, <2>8, <4>1, LastOfShape
    <3>3. last'[p] # "opened"
      <4>1. ev' = ev /\ swapped' = swapped BY <1>2 DEF Extend
      <4>2. p \notin swapped BY DEF Misread
      <4>3. ev[Opening(p)].at \in Nat /\ ev[Close(p)].at \in Nat BY StampType DEF LedgerInv
      <4>4. last'[p] = "opened" => InOrder(p)'
        BY <2>2, <2>5, <2>8 DEF LedgerInv, OrderInv, CacheInOrder
      <4> QED BY <3>1, <4>1, <4>2, <4>3, <4>4 DEF InOrder
    <3> QED BY <2>1, <2>7, <3>2, <3>3 DEF OpenIn
  <2>9. CASE Opening(p) \notin Stored
    BY <2>1, <2>5, <2>6, <2>7, <2>9, LastOfShape DEF OpenIn
  <2>10. CASE Opening(p) \in Stored /\ Close(p) \notin Stored
    <3>1. last'[p] = "opened" BY <2>5, <2>6, <2>10
    <3>2. LastOf(Stored, p) = "opened" BY <2>7, <2>10, LastOfShape
    <3> QED BY <2>1, <2>7, <3>1, <3>2 DEF OpenIn
  <2> QED BY <2>8, <2>9, <2>10
<1> QED BY <1>1, <1>2 DEF LoadEvents, Prime, Extend

LEMMA ReadExactStep ==
  TypeOK /\ LedgerInv /\ DeskInv /\ ReadExact /\ [Next]_vars => ReadExact'
<1> SUFFICES ASSUME TypeOK, LedgerInv, DeskInv, ReadExact, [Next]_vars PROVE ReadExact'
  OBVIOUS
<1>1. CASE BeginCycle
  <2>1. LoadEvents BY <1>1 DEF BeginCycle
  <2>2. UNCHANGED <<ev, late, swapped>> BY <2>1 DEF LoadEvents, Prime, Extend
  <2>3. ASSUME NEW p \in Pos PROVE Misread(p)' \/ (p \in oms' <=> FullReplay'[p] = "opened")
    <3>1. Misread(p)' <=> Misread(p) BY <2>2 DEF Misread, Tied, Stored
    <3>2. FullReplay' = FullReplay BY <2>2 DEF FullReplay, LastOf, Stored, Before
    <3>3. Opening(p) \in Stored /\ Close(p) \in Stored => ev[Opening(p)].at <= ev[Close(p)].at
      BY DEF DeskInv, Course, Emitted, Stored
    <3> QED BY <2>1, <3>1, <3>2, <3>3, ReadTells
  <2> QED BY <2>3 DEF ReadExact
<1>2. ASSUME ~(cycle' = "read" /\ ~moved') PROVE ReadExact'
  BY <1>2 DEF ReadExact
<1>3. ASSUME UNCHANGED <<ev, late, swapped, oms, cycle, moved>> PROVE ReadExact'
  <2>1. Stored' = Stored BY <1>3 DEF Stored
  <2>2. \A p \in Pos : Misread(p)' <=> Misread(p) BY <1>3, <2>1 DEF Misread, Tied
  <2>3. FullReplay' = FullReplay BY <1>3, <2>1 DEF FullReplay, LastOf, Before
  <2> QED BY <1>3, <2>2, <2>3 DEF ReadExact
<1>4. Moves => ~(cycle' = "read" /\ ~moved')
  BY DEF Moves, TypeOK
<1>5. Compare \/ Restart => ~(cycle' = "read" /\ ~moved')
  BY DEF Compare, Restart
<1>6. Time \/ UNCHANGED vars => UNCHANGED <<ev, late, swapped, oms, cycle, moved>>
  BY DEF Time, Tick, vars, ledgerVars, reader
<1> QED
  BY <1>1, <1>2, <1>3, <1>4, <1>5, <1>6
     DEF Next, Desk, OpenPosition, Track, LeaveUnmapped, ClosePosition, ProcessClose, Reset,
         Write

\* What a comparison that finds nothing moved says of the book.
Agree == \A p \in Pos : ~Divergent(p) /\ ~Misread(p)

LEMMA AgreeFindsNothing ==
  ASSUME TypeOK, ReadExact, cycle = "read", ~moved, Agree, ~Stacked(Open)
  PROVE  ~Mismatch /\ ~MayDiffer
<1>1. oms = Open
  <2>1. \A p \in Pos : p \in oms <=> p \in Open
    BY DEF ReadExact, Agree, Divergent, Open
  <2> QED BY <2>1 DEF TypeOK, LedgerTypeOK, Open
<1> QED BY <1>1 DEF Mismatch, MayDiffer, Stacked

LEMMA DriftIsFound ==
  ASSUME TypeOK, ReadExact, cycle = "read", ~moved, NEW p \in Pos,
         Divergent(p), ~Misread(p), ~Masked(p)
  PROVE  Mismatch
<1>1. (p \in oms) # (p \in Open) BY DEF ReadExact, Divergent, Open
<1>2. \A q \in Open \cup oms : q # p => side[q] # side[p]
  BY DEF Masked, TypeOK, LedgerTypeOK, Open
<1>3. (side[p] \in SidesOf(oms)) # (side[p] \in SidesOf(Open))
  BY <1>1, <1>2 DEF SidesOf
<1> QED BY <1>3 DEF Mismatch

LEMMA ReconHolds == Spec => [](TypeOK /\ LedgerInv /\ DeskInv /\ ReadExact)
<1>1. Init => ReadExact BY DEF Init, ReadExact
<1>2. TypeOK /\ LedgerInv /\ DeskInv /\ ReadExact /\ [Next]_vars
        => (TypeOK /\ LedgerInv /\ DeskInv /\ ReadExact)'
  BY DeskTypeStep, DeskStep, LedgerStep, DeskInvStep, ReadExactStep DEF LedgerInv
<1> QED BY <1>1, <1>2, DeskStart, PTL DEF Spec

\* Only a comparison halts, and only a comparison or a restart ends a cycle that was read.
LEMMA WhoEnds ==
  ASSUME [Next]_vars, cycle = "read", cycle' # "read"
  PROVE  Compare \/ (clock' = clock + 1 /\ cycle' = "idle")
<1>1. Desk \/ (\E e \in Event : Write(e)) => ~(cycle' # cycle)
  BY DEF Desk, OpenPosition, Track, LeaveUnmapped, ClosePosition, ProcessClose, Reset, Write,
         Moves
<1>2. Time \/ UNCHANGED vars => ~(cycle' # cycle) BY DEF Time, vars
<1>3. ~BeginCycle BY DEF BeginCycle
<1>4. Restart => clock' = clock + 1 /\ cycle' = "idle" BY DEF Restart, LedgerRestart
<1> QED BY <1>1, <1>2, <1>3, <1>4 DEF Next

\* killswitch_hook.go:92-94: reconciliation never halts on a book that the ledger records.
THEOREM HaltsAreExplained == Spec => HaltIsExplained
<1> DEFINE Explained == (cycle = "read" /\ cycle' = "halt") =>
             moved \/ Stacked(Open) \/ \E p \in Pos : Divergent(p) \/ Misread(p)
<1>1. TypeOK /\ LedgerInv /\ DeskInv /\ ReadExact /\ [Next]_vars => Explained
  <2> SUFFICES ASSUME TypeOK, ReadExact, [Next]_vars, cycle = "read", cycle' = "halt", ~moved,
                      ~Stacked(Open), Agree
               PROVE  FALSE
    BY DEF Agree
  <2>1. Compare BY WhoEnds
  <2>2. ~Mismatch /\ ~MayDiffer BY AgreeFindsNothing
  <2> QED BY <2>1, <2>2 DEF Compare
<1> QED BY <1>1, ReconHolds, PTL DEF Spec, HaltIsExplained

\* A cycle that nothing disturbs finds every drift that nothing hides.
THEOREM CalmCyclesFindDrift == Spec => CalmCycleFindsDrift
<1> DEFINE Finds == cycle = "read" /\ cycle' = "idle" /\ clock' = clock /\ ~moved =>
              \A p \in Pos : Divergent(p) => Masked(p) \/ Misread(p)
<1>1. TypeOK /\ LedgerInv /\ DeskInv /\ ReadExact /\ [Next]_vars => Finds
  <2> SUFFICES ASSUME TypeOK, ReadExact, [Next]_vars, cycle = "read", cycle' = "idle", ~moved,
                      clock' = clock, NEW p \in Pos, Divergent(p), ~Masked(p), ~Misread(p)
               PROVE  FALSE
    OBVIOUS
  <2>1. clock \in Int BY DEF TypeOK, LedgerTypeOK
  <2>2. Compare BY <2>1, WhoEnds
  <2>3. Mismatch BY DriftIsFound
  <2> QED BY <2>2, <2>3 DEF Compare
<1> QED BY <1>1, ReconHolds, PTL DEF Spec, CalmCycleFindsDrift

=============================================================================
