----------------------------- MODULE LedgerProofs -----------------------------
(***************************************************************************)
(* Theorems about Ledger, for any number of positions, any overlap, cache  *)
(* cap and clock: reading incrementally, with a cursor, an overlap window  *)
(* and a cache that is dropped when it is full, implements LedgerView.     *)
(***************************************************************************)
EXTENDS Ledger, TLAPS

-----------------------------------------------------------------------------
(* The inductive invariant.  What carries the refinement is Caught: an      *)
(* event the cache does not have is within the overlap of the cursor, so   *)
(* that the next read asks for it, or it was inserted late.                 *)

Stamps == \A e \in Event : ev[e].at <= clock

Caught == primed => \A e \in Stored \ late : e \notin seen => ev[e].at + Overlap >= cursor

ViewInv ==
  /\ Stamps /\ Caught
  /\ seen \subseteq Stored /\ answer \subseteq Stored /\ late \subseteq Stored
  /\ primed => answer \subseteq seen

\* The cache keeps the last event of each position it has one of.
LastKnown ==
  \A p \in Pos : /\ last[p] # "none" => <<last[p], p>> \in seen
                 /\ \A k \in Kind : <<k, p>> \in seen => last[p] # "none"

\* An opening that the cache misses, when it has the closing, came after the closing or
\* is out of the reader's reach.
Skipped ==
  primed => \A p \in Pos :
    <<"closed", p>> \in seen /\ <<"opened", p>> \in Stored \ seen =>
      p \in swapped \/ ev[<<"opened", p>>].at < cursor - Overlap

InOrder(p) == p \in swapped \/ ev[<<"closed", p>>].at <= ev[<<"opened", p>>].at

CacheInOrder ==
  \A p \in Pos : last[p] = "opened" /\ <<"closed", p>> \in seen => InOrder(p)

ShownOpened == \A p \in oms : <<"opened", p>> \in Stored

OrderInv == LastKnown /\ Skipped /\ CacheInOrder /\ ShownOpened /\ ReadInOrder

-----------------------------------------------------------------------------
(* Events, and the last of them in a replay. *)

LEMMA EventsOf ==
  /\ \A p \in Pos, k \in Kind : <<k, p>> \in Event /\ <<k, p>>[1] = k /\ <<k, p>>[2] = p
  /\ \A e \in Event : e[2] \in Pos /\ (e = <<"opened", e[2]>> \/ e = <<"closed", e[2]>>)
BY DEF Event, Kind

LEMMA LastOfShape ==
  ASSUME NEW S \in SUBSET Event, NEW p \in Pos
  PROVE  /\ LastOf(S, p) \in Kind \cup {"none"}
         /\ LastOf(S, p) = "none" <=> <<"opened", p>> \notin S /\ <<"closed", p>> \notin S
         /\ LastOf(S, p) # "none" => <<LastOf(S, p), p>> \in S
         /\ LastOf(S, p) = "opened" =>
              /\ <<"opened", p>> \in S
              /\ <<"closed", p>> \in S => ~Before(<<"opened", p>>, <<"closed", p>>)
         /\ LastOf(S, p) = "closed" => <<"closed", p>> \in S
<1>1. \A e \in S : e[2] = p => e = <<"opened", p>> \/ e = <<"closed", p>>
  BY EventsOf
<1>2. \A k \in Kind : <<k, p>>[1] = k /\ <<k, p>>[2] = p
  BY EventsOf
<1>3. CASE \A e \in S : e[2] # p
  BY <1>2, <1>3 DEF LastOf, Kind
<1>4. CASE (\E e \in S : e[2] = p) /\ <<"closed", p>> \notin S
  <2>1. <<"opened", p>> \in S /\ \A e \in S : e[2] = p => e = <<"opened", p>>
    BY <1>1, <1>4
  <2>2. \E k \in Kind : \A e \in S : e[2] = p => e[1] = k BY <1>2, <2>1 DEF Kind
  <2>3. (CHOOSE e \in S : e[2] = p) = <<"opened", p>> BY <1>4, <2>1
  <2>4. LastOf(S, p) = "opened" BY <1>2, <1>4, <2>2, <2>3 DEF LastOf, Kind
  <2> QED BY <1>4, <2>1, <2>4 DEF Kind
<1>5. CASE (\E e \in S : e[2] = p) /\ <<"opened", p>> \notin S
  <2>1. <<"closed", p>> \in S /\ \A e \in S : e[2] = p => e = <<"closed", p>>
    BY <1>1, <1>5
  <2>2. \E k \in Kind : \A e \in S : e[2] = p => e[1] = k BY <1>2, <2>1 DEF Kind
  <2>3. (CHOOSE e \in S : e[2] = p) = <<"closed", p>> BY <1>5, <2>1
  <2>4. LastOf(S, p) = "closed" BY <1>2, <1>5, <2>2, <2>3 DEF LastOf, Kind
  <2> QED BY <1>5, <2>1, <2>4 DEF Kind
<1>6. CASE <<"opened", p>> \in S /\ <<"closed", p>> \in S
  <2>1. ~ \E k \in Kind : \A e \in S : e[2] = p => e[1] = k BY <1>2, <1>6 DEF Kind
  <2>2. ~ \A e \in S : e[2] # p BY <1>2, <1>6 DEF Kind
  <2>3. LastOf(S, p) = IF Before(<<"opened", p>>, <<"closed", p>>) THEN "closed" ELSE "opened"
    BY <2>1, <2>2 DEF LastOf
  <2> QED BY <1>6, <2>3 DEF Kind
<1> QED BY <1>3, <1>4, <1>5, <1>6

LEMMA StampType ==
  ASSUME LedgerTypeOK, NEW e \in Event
  PROVE  /\ ev[e].at \in Nat /\ ev[e].seq \in Nat
         /\ ev[e].pc \in {"none", "stamped", "numbered", "stored", "lost"}
BY DEF LedgerTypeOK

\* The cursor stays at or behind the clock and never goes back.
LEMMA NewestShape ==
  ASSUME LedgerTypeOK, Stamps, NEW S \in SUBSET Event, NEW t \in Newest(S)
  PROVE  t \in 0..clock /\ t >= cursor
BY DEF LedgerTypeOK, Stamps, Newest

LEMMA FreshShape == Fresh \subseteq Stored /\ Stored \subseteq Event
BY DEF Fresh, Stored

-----------------------------------------------------------------------------
(* Types *)

LEMMA LedgerTypeStep ==
  LedgerTypeOK /\ Stamps /\ [LedgerNext]_ledgerVars => LedgerTypeOK' /\ Stamps'
<1> SUFFICES ASSUME LedgerTypeOK, Stamps, [LedgerNext]_ledgerVars
             PROVE  LedgerTypeOK' /\ Stamps'
  OBVIOUS
<1> USE LedgerAssumption DEF LedgerAssumption, reader
<1>1. ASSUME NEW e \in Event, Number(e) PROVE LedgerTypeOK' /\ Stamps'
  <2>1. e[2] \in Pos BY EventsOf
  <2>2. counter' \in [Pos -> Nat] /\ counter[e[2]] + 1 \in Nat
    BY <1>1, <2>1 DEF Number, LedgerTypeOK
  <2>3. /\ ev' \in [Event -> [pc : {"none", "stamped", "numbered", "stored", "lost"},
                              at : 0..MaxClock, seq : Nat]]
        /\ \A f \in Event : ev'[f].at = ev[f].at
    <3>1. PICK n \in Nat : ev' = [ev EXCEPT ![e].pc = "numbered", ![e].seq = n]
      BY <1>1, <2>2 DEF Number
    <3> QED BY <3>1 DEF LedgerTypeOK
  <2> QED BY <1>1, <2>2, <2>3 DEF Number, LedgerTypeOK, Stamps
<1>2. ASSUME NEW e \in Event, Insert(e) PROVE LedgerTypeOK' /\ Stamps'
  <2>1. e[2] \in Pos BY EventsOf
  <2>2. /\ ev' \in [Event -> [pc : {"none", "stamped", "numbered", "stored", "lost"},
                              at : 0..MaxClock, seq : Nat]]
        /\ \A f \in Event : ev'[f].at = ev[f].at
    BY <1>2 DEF Insert, LedgerTypeOK
  <2> QED BY <1>2, <2>1, <2>2 DEF Insert, LedgerTypeOK, Stamps
<1>3. ASSUME NEW e \in Event, AppendFails(e) PROVE LedgerTypeOK' /\ Stamps'
  BY <1>3 DEF AppendFails, Lost, Unsent, LedgerTypeOK, Stamps
<1>4. ASSUME NEW E \in SUBSET Event, Emit(E) PROVE LedgerTypeOK' /\ Stamps'
  BY <1>4 DEF Emit, LedgerTypeOK, Stamps
<1>5. CASE Tick
  BY <1>5 DEF Tick, LedgerTypeOK, Stamps
<1>6. CASE Prime
  <2>1. cursor' \in 0..clock BY <1>6, FreshShape, NewestShape DEF Prime
  <2>2. last' \in [Pos -> Kind \cup {"none"}]
    BY <1>6, FreshShape, LastOfShape DEF Prime, FullReplay
  <2> QED BY <1>6, <2>1, <2>2, FreshShape DEF Prime, LedgerTypeOK, Stamps, OpenIn
<1>7. CASE Extend
  <2>1. cursor' \in 0..clock BY <1>7, FreshShape, NewestShape DEF Extend
  <2>2. last' \in [Pos -> Kind \cup {"none"}]
    <3>1. Extended(Fresh) \in [Pos -> Kind \cup {"none"}]
      BY FreshShape, LastOfShape DEF Extended, LedgerTypeOK
    <3> QED BY <1>7, <3>1 DEF Extend
  <2> QED BY <1>7, <2>1, <2>2, FreshShape DEF Extend, LedgerTypeOK, Stamps, OpenIn
<1>8. CASE LedgerRestart
  <2>1. clock' = clock + 1 /\ clock \in Nat /\ clock' \in 0..MaxClock
    BY <1>8 DEF LedgerRestart, LedgerTypeOK
  <2>2. ev' = [e \in Event |-> IF ev[e].pc \in {"none", "stored"} THEN ev[e]
                               ELSE [pc |-> "lost", at |-> 0, seq |-> 0]]
    BY <1>8 DEF LedgerRestart, Lost, Unsent
  <2>3. ev' \in [Event -> [pc : {"none", "stamped", "numbered", "stored", "lost"},
                           at : 0..MaxClock, seq : Nat]]
    BY <2>2 DEF LedgerTypeOK
  <2>4. Stamps'
    <3>1. ASSUME NEW e \in Event PROVE ev'[e].at <= clock'
      <4>1. ev'[e].at = ev[e].at \/ ev'[e].at = 0 BY <2>2
      <4>2. ev[e].at <= clock /\ ev[e].at \in Nat BY DEF Stamps, LedgerTypeOK
      <4> QED BY <2>1, <4>1, <4>2
    <3> QED BY <3>1 DEF Stamps
  <2>5. last' \in [Pos -> Kind \cup {"none"}] /\ cursor' \in 0..clock'
    BY <1>8, <2>1 DEF LedgerRestart
  <2> QED BY <1>8, <2>1, <2>3, <2>4, <2>5 DEF LedgerRestart, LedgerTypeOK
<1>9. CASE UNCHANGED ledgerVars
  BY <1>9 DEF ledgerVars, LedgerTypeOK, Stamps
<1> QED
  BY <1>1, <1>2, <1>3, <1>4, <1>5, <1>6, <1>7, <1>8, <1>9
     DEF LedgerNext, AppendStep, LoadEvents

-----------------------------------------------------------------------------
(* Refinement *)

\* What a step of the desk's appends does to the events: stored ones stay as they are.
LEMMA StoredStay ==
  ASSUME LedgerTypeOK, [LedgerNext]_ledgerVars
  PROVE  /\ Stored \subseteq Stored'
         /\ \A e \in Stored : ev'[e] = ev[e]
<1> USE DEF Stored
<1>1. ASSUME NEW e \in Event, AppendStep(e) PROVE \A f \in Stored : ev'[f] = ev[f]
  BY <1>1 DEF AppendStep, Number, Insert, AppendFails, LedgerTypeOK
<1>2. ASSUME NEW E \in SUBSET Event, Emit(E) PROVE \A f \in Stored : ev'[f] = ev[f]
  BY <1>2 DEF Emit
<1>3. CASE LedgerRestart
  BY <1>3 DEF LedgerRestart
<1>4. CASE UNCHANGED ev
  BY <1>4
<1>5. \A f \in Stored : ev'[f] = ev[f]
  BY <1>1, <1>2, <1>3, <1>4 DEF LedgerNext, Tick, LoadEvents, Prime, Extend, ledgerVars
<1> QED BY <1>5

\* Only an insert stores, and it stores its own event.
LEMMA StoredGrow ==
  ASSUME LedgerTypeOK, [LedgerNext]_ledgerVars, NEW f \in Event, f \notin Stored, f \in Stored'
  PROVE  Insert(f)
<1> USE DEF Stored
<1>1. ASSUME NEW e \in Event, AppendStep(e) PROVE Insert(f)
  BY <1>1 DEF AppendStep, Number, Insert, AppendFails, Lost, Unsent, LedgerTypeOK
<1>2. ASSUME NEW E \in SUBSET Event, Emit(E) PROVE FALSE
  BY <1>2 DEF Emit
<1>3. CASE LedgerRestart
  BY <1>3 DEF LedgerRestart, Lost, Unsent
<1>4. CASE UNCHANGED ev
  BY <1>4
<1> QED
  BY <1>1, <1>2, <1>3, <1>4 DEF LedgerNext, Tick, LoadEvents, Prime, Extend, ledgerVars

\* A read returns the log, but what was inserted late, and what it returned before.
LEMMA ReadShape ==
  ASSUME LedgerTypeOK, ViewInv, LoadEvents
  PROVE  /\ (Stored \ late) \cup answer \subseteq answer' /\ answer' \subseteq Stored
         /\ Stored' = Stored /\ late' = late
         /\ seen' \subseteq Stored /\ (primed' => answer' = seen')
         /\ primed' => \A e \in Stored \ late : e \in seen'
<1>1. Stored' = Stored /\ late' = late BY DEF LoadEvents, Prime, Extend, Stored
<1>2. CASE Prime
  BY <1>1, <1>2 DEF Prime, ViewInv
<1>3. CASE Extend
  <2>1. \A e \in Stored \ late : e \in seen \cup Fresh
    <3>1. ASSUME NEW e \in Stored \ late, e \notin seen PROVE e \in Fresh
      <4>1. ev[e].at + Overlap >= cursor BY <1>3, <3>1 DEF ViewInv, Caught, Extend
      <4>2. ev[e].at \in Nat /\ cursor \in Int /\ Overlap \in Nat
        BY StampType, FreshShape, LedgerAssumption DEF LedgerTypeOK, LedgerAssumption
      <4> QED BY <3>1, <4>1, <4>2 DEF Fresh
    <3> QED BY <3>1
  <2>2. seen \cup Fresh \subseteq Stored BY FreshShape DEF ViewInv
  <2>3. answer \subseteq seen BY <1>3 DEF Extend, ViewInv
  <2> QED BY <1>1, <1>3, <2>1, <2>2, <2>3 DEF Extend
<1> QED BY <1>2, <1>3 DEF LoadEvents

LEMMA ViewStep ==
  LedgerTypeOK /\ ViewInv /\ [LedgerNext]_ledgerVars => ViewInv'
<1> SUFFICES ASSUME LedgerTypeOK, ViewInv, [LedgerNext]_ledgerVars PROVE ViewInv' OBVIOUS
<1>1. LedgerTypeOK' /\ Stamps' BY LedgerTypeStep DEF ViewInv
<1>2. CASE LoadEvents
  BY <1>1, <1>2, ReadShape DEF ViewInv, Caught
<1>3. ASSUME NEW e \in Event, Insert(e) PROVE ViewInv'
  <2>1. Stored \subseteq Stored' /\ \A f \in Stored : ev'[f] = ev[f] BY StoredStay
  <2>2. Stored' = Stored \cup {e} /\ ev'[e].at = ev[e].at
    BY <1>3 DEF Insert, Stored, LedgerTypeOK
  <2>3. UNCHANGED <<clock, reader>> BY <1>3 DEF Insert
  <2>4. late' \subseteq Stored' /\ late \subseteq late' /\ (Late(e) => e \in late')
    BY <1>3, <2>2 DEF Insert, ViewInv
  <2>5. ~Late(e) => ev[e].at + Overlap >= cursor
    BY StampType, LedgerAssumption DEF Late, LedgerTypeOK, LedgerAssumption
  <2>6. Caught'
    <3>1. ASSUME primed, NEW f \in Stored' \ late', f \notin seen
          PROVE  ev'[f].at + Overlap >= cursor
      <4>1. CASE f = e BY <2>2, <2>4, <2>5, <3>1, <4>1
      <4>2. CASE f # e BY <2>1, <2>2, <2>4, <3>1, <4>2 DEF ViewInv, Caught
      <4> QED BY <4>1, <4>2
    <3> QED BY <2>3, <3>1 DEF Caught, reader
  <2> QED BY <1>1, <2>1, <2>3, <2>4, <2>6 DEF ViewInv, reader
<1>4. ASSUME Stored' = Stored, UNCHANGED <<reader, late>> PROVE ViewInv'
  <2>1. \A f \in Stored : ev'[f] = ev[f] BY StoredStay
  <2> QED BY <1>1, <1>4, <2>1 DEF ViewInv, Caught, reader
<1>5. CASE LedgerRestart
  <2>1. Stored \subseteq Stored' BY StoredStay
  <2>2. seen' = {} /\ primed' = FALSE /\ UNCHANGED <<answer, late>> BY <1>5 DEF LedgerRestart
  <2> QED BY <1>1, <2>1, <2>2 DEF ViewInv, Caught
<1>6. ASSUME NEW e \in Event, Number(e) \/ AppendFails(e) PROVE ViewInv'
  <2>1. Stored' = Stored
    BY <1>6 DEF Number, AppendFails, Lost, Unsent, Stored, LedgerTypeOK
  <2> QED BY <1>4, <1>6, <2>1 DEF Number, AppendFails
<1>7. ASSUME NEW E \in SUBSET Event, Emit(E) PROVE ViewInv'
  <2>1. Stored' = Stored BY <1>7 DEF Emit, Stored
  <2> QED BY <1>4, <1>7, <2>1 DEF Emit
<1>8. CASE Tick \/ UNCHANGED ledgerVars
  BY <1>4, <1>8 DEF Tick, ledgerVars, Stored
<1> QED BY <1>2, <1>3, <1>5, <1>6, <1>7, <1>8 DEF LedgerNext, AppendStep

LEMMA ViewInit == LedgerInit => LedgerTypeOK /\ ViewInv
<1> SUFFICES ASSUME LedgerInit PROVE LedgerTypeOK /\ ViewInv OBVIOUS
<1> USE LedgerAssumption DEF LedgerAssumption, LedgerInit, Unsent
<1>1. LedgerTypeOK
  <2>1. 0 \in 0..MaxClock /\ 0 \in 0..0 OBVIOUS
  <2>2. ev \in [Event -> [pc : {"none", "stamped", "numbered", "stored", "lost"},
                          at : 0..MaxClock, seq : Nat]]
    BY <2>1
  <2>3. last \in [Pos -> Kind \cup {"none"}] /\ counter \in [Pos -> Nat] OBVIOUS
  <2> QED BY <2>1, <2>2, <2>3 DEF LedgerTypeOK
<1>2. Stored = {} BY DEF Stored
<1>3. Stamps BY DEF Stamps
<1> QED BY <1>1, <1>2, <1>3 DEF ViewInv, Caught

\* Every step of the ledger and its reader is a write, a read, or nothing, for a client.
LEMMA StepRefines ==
  LedgerTypeOK /\ ViewInv /\ [LedgerNext]_ledgerVars
    => [Log!Next]_(<<Stored, late, answer>>)
<1> SUFFICES ASSUME LedgerTypeOK, ViewInv, [LedgerNext]_ledgerVars
             PROVE  Log!Next \/ UNCHANGED <<Stored, late, answer>>
  OBVIOUS
<1>1. CASE LoadEvents
  BY <1>1, ReadShape DEF Log!Next, Log!Read
<1>2. ASSUME NEW e \in Event, Insert(e) PROVE Log!Write(e)
  <2>1. e \notin Stored /\ Stored' = Stored \cup {e}
    BY <1>2 DEF Insert, Stored, LedgerTypeOK
  <2> QED BY <1>2, <2>1 DEF Insert, Log!Write, reader
<1>3. ASSUME NEW e \in Event, Number(e) \/ AppendFails(e)
      PROVE  UNCHANGED <<Stored, late, answer>>
  BY <1>3 DEF Number, AppendFails, Lost, Unsent, Stored, LedgerTypeOK, reader
<1>4. ASSUME NEW E \in SUBSET Event, Emit(E) PROVE UNCHANGED <<Stored, late, answer>>
  BY <1>4 DEF Emit, Stored, reader
<1>5. CASE LedgerRestart
  BY <1>5 DEF LedgerRestart, Lost, Unsent, Stored
<1>6. CASE Tick \/ UNCHANGED ledgerVars
  BY <1>6 DEF Tick, ledgerVars, Stored, reader
<1> QED
  BY <1>1, <1>2, <1>3, <1>4, <1>5, <1>6 DEF LedgerNext, AppendStep, Log!Next

\* The types of the ledger.
THEOREM LedgerTypes == LedgerSpec => []LedgerTypeOK
<1>1. LedgerTypeOK /\ ViewInv /\ [LedgerNext]_ledgerVars => (LedgerTypeOK /\ ViewInv)'
  BY LedgerTypeStep, ViewStep DEF ViewInv
<1> QED BY <1>1, ViewInit, PTL DEF LedgerSpec

\* ledger_oms_reader.go:25-27: reading with a cursor, an overlap and a cache is reading the
\* whole log, except for the events inserted after their overlap had passed.
THEOREM ReaderReadsTheLog == LedgerSpec => ReadsTheLog
<1>1. LedgerInit => Log!Init
  BY DEF LedgerInit, Log!Init, Stored, Unsent
<1>2. LedgerTypeOK /\ ViewInv /\ [LedgerNext]_ledgerVars => (LedgerTypeOK /\ ViewInv)'
  BY LedgerTypeStep, ViewStep DEF ViewInv
<1> QED BY <1>1, <1>2, ViewInit, StepRefines, PTL DEF LedgerSpec, ReadsTheLog, Log!Spec

-----------------------------------------------------------------------------
(* The order in which the cache applies events *)

\* The last event of p in the cache extended by what is fresh.
LEMMA ExtendedShape ==
  ASSUME NEW p \in Pos
  PROVE  Extended(Fresh)[p] = IF LastOf(Fresh, p) = "none" THEN last[p] ELSE LastOf(Fresh, p)
BY DEF Extended

LEMMA ReadOrder ==
  ASSUME LedgerTypeOK, ViewInv, OrderInv, LoadEvents PROVE OrderInv'
<1> USE EventsOf DEF Kind
<1>1. Stored' = Stored /\ ev' = ev /\ swapped' = swapped
  BY DEF LoadEvents, Prime, Extend, Stored
<1>2. LedgerTypeOK' /\ cursor' >= cursor /\ cursor \in Nat /\ cursor' \in Nat
  <2>1. LedgerTypeOK' BY LedgerTypeStep DEF LedgerNext, ViewInv
  <2>2. cursor' >= cursor
    BY NewestShape, FreshShape DEF LoadEvents, Prime, Extend, ViewInv
  <2> QED BY <2>1, <2>2 DEF LedgerTypeOK
<1>3. ASSUME NEW p \in Pos
      PROVE  /\ <<"opened", p>> \in Event => ev[<<"opened", p>>].at \in Nat
             /\ <<"closed", p>> \in Event => ev[<<"closed", p>>].at \in Nat
  BY StampType
\* A replay of everything, or of what is fresh, ends with an opening only in order.
<1>4. ASSUME NEW S \in SUBSET Event, NEW p \in Pos, LastOf(S, p) = "opened", <<"closed", p>> \in S
      PROVE  ev[<<"closed", p>>].at <= ev[<<"opened", p>>].at
  BY <1>3, <1>4, LastOfShape DEF Before
<1>5. CASE Prime
  <2>1. \A p \in Pos : last'[p] = LastOf(Stored, p) BY <1>5 DEF Prime, FullReplay
  <2>2. seen' = Stored /\ answer' = Stored /\ \A p \in oms' : p \in Pos /\ last'[p] = "opened"
    BY <1>5, <2>1 DEF Prime, OpenIn, FullReplay
  <2>3. LastKnown'
    <3>1. ASSUME NEW p \in Pos
          PROVE  /\ last'[p] # "none" => <<last'[p], p>> \in seen'
                 /\ \A k \in Kind : <<k, p>> \in seen' => last'[p] # "none"
      <4>1. last'[p] = LastOf(Stored, p) /\ seen' = Stored BY <2>1, <2>2
      <4>2. Stored \in SUBSET Event BY FreshShape
      <4> QED BY <4>1, <4>2, LastOfShape
    <3> QED BY <3>1 DEF LastKnown
  <2>4. CacheInOrder' /\ ReadInOrder'
    BY <1>1, <1>4, <2>1, <2>2, FreshShape DEF CacheInOrder, ReadInOrder, InOrder
  <2>5. ShownOpened' BY <1>1, <2>1, <2>2, FreshShape, LastOfShape DEF ShownOpened
  <2>6. Skipped' BY <1>1, <2>2 DEF Skipped
  <2> QED BY <2>3, <2>4, <2>5, <2>6 DEF OrderInv
<1>6. CASE Extend /\ ~(Cardinality(seen \cup Fresh) <= CacheCap)
  <2>1. /\ seen' = {} /\ last' = [p \in Pos |-> "none"] /\ primed' = FALSE
        /\ answer' = Stored /\ oms' = OpenIn(FullReplay)
    BY <1>6 DEF Extend
  <2>2. \A p \in oms' : p \in Pos /\ LastOf(Stored, p) = "opened"
    BY <2>1 DEF OpenIn, FullReplay
  <2>3. ReadInOrder' BY <1>1, <1>4, <2>1, <2>2, FreshShape DEF ReadInOrder
  <2>4. ShownOpened' BY <1>1, <2>2, FreshShape, LastOfShape DEF ShownOpened
  <2> QED BY <2>1, <2>3, <2>4 DEF OrderInv, LastKnown, Skipped, CacheInOrder
<1>7. CASE Extend /\ Cardinality(seen \cup Fresh) <= CacheCap
  <2>1. /\ primed /\ seen' = seen \cup Fresh /\ answer' = seen \cup Fresh /\ primed'
        /\ last' = Extended(Fresh) /\ oms' = OpenIn(Extended(Fresh))
    BY <1>7 DEF Extend
  <2>2. \A p \in Pos : last'[p] = IF LastOf(Fresh, p) = "none" THEN last[p] ELSE LastOf(Fresh, p)
    BY <2>1, ExtendedShape
  <2>3. LastKnown'
    <3>1. ASSUME NEW p \in Pos
          PROVE  /\ last'[p] # "none" => <<last'[p], p>> \in seen'
                 /\ \A k \in Kind : <<k, p>> \in seen' => last'[p] # "none"
      <4>1. /\ last[p] # "none" => <<last[p], p>> \in seen
            /\ \A k \in Kind : <<k, p>> \in seen => last[p] # "none"
        BY DEF OrderInv, LastKnown
      <4>2. Fresh \in SUBSET Event BY FreshShape
      <4>3. /\ LastOf(Fresh, p) # "none" => <<LastOf(Fresh, p), p>> \in Fresh
            /\ \A k \in Kind : <<k, p>> \in Fresh => LastOf(Fresh, p) # "none"
        BY <4>2, LastOfShape
      <4>4. CASE LastOf(Fresh, p) = "none" BY <2>1, <2>2, <4>1, <4>3, <4>4
      <4>5. CASE LastOf(Fresh, p) # "none" BY <2>1, <2>2, <4>3, <4>5
      <4> QED BY <4>4, <4>5
    <3> QED BY <3>1 DEF LastKnown
  <2>4. Skipped'
    <3>1. ASSUME NEW p \in Pos, <<"closed", p>> \in seen', <<"opened", p>> \in Stored \ seen'
          PROVE  ev[<<"opened", p>>].at < cursor' - Overlap
      <4>1. <<"opened", p>> \notin Fresh /\ <<"opened", p>> \in Stored \ seen BY <2>1, <3>1
      <4>2. ~(ev[<<"opened", p>>].at >= cursor - Overlap) BY <4>1 DEF Fresh
      <4>3. ev[<<"opened", p>>].at \in Nat BY <1>3
      <4> QED BY <1>2, <4>2, <4>3, LedgerAssumption DEF LedgerAssumption
    <3> QED BY <1>1, <3>1 DEF Skipped
  <2>5. CacheInOrder'
    <3>1. ASSUME NEW p \in Pos, last'[p] = "opened", <<"closed", p>> \in seen' PROVE InOrder(p)
      <4>1. CASE LastOf(Fresh, p) = "none"
        <5>1. last[p] = "opened" /\ <<"closed", p>> \in seen
          BY <2>1, <2>2, <3>1, <4>1, FreshShape, LastOfShape
        <5> QED BY <5>1 DEF OrderInv, CacheInOrder
      <4>2. CASE LastOf(Fresh, p) # "none" /\ <<"closed", p>> \in Fresh
        BY <1>4, <2>2, <3>1, <4>2, FreshShape DEF InOrder
      <4>3. CASE LastOf(Fresh, p) # "none" /\ <<"closed", p>> \notin Fresh
        <5>1. LastOf(Fresh, p) = "opened" BY <2>2, <3>1, <4>3
        <5>2. Fresh \in SUBSET Event BY FreshShape
        <5>3. <<"closed", p>> \in seen /\ <<"opened", p>> \in Fresh
          BY <2>1, <3>1, <4>3, <5>1, <5>2, LastOfShape
        <5>4. /\ <<"opened", p>> \in Stored \ seen
              /\ ev[<<"opened", p>>].at >= cursor - Overlap
          BY <5>3 DEF Fresh
        <5>5. p \in swapped \/ ev[<<"opened", p>>].at < cursor - Overlap
          BY <2>1, <5>3, <5>4 DEF OrderInv, Skipped
        <5>6. ev[<<"opened", p>>].at \in Nat BY <1>3
        <5>7. p \in swapped BY <1>2, <5>4, <5>5, <5>6, LedgerAssumption DEF LedgerAssumption
        <5> QED BY <5>7 DEF InOrder
      <4> QED BY <4>1, <4>2, <4>3
    <3> QED BY <1>1, <3>1 DEF CacheInOrder, InOrder
  <2>6. \A p \in oms' : p \in Pos /\ last'[p] = "opened" BY <2>1 DEF OpenIn
  <2>7. ReadInOrder' BY <2>1, <2>5, <2>6 DEF ReadInOrder, CacheInOrder, InOrder
  <2>8. ShownOpened'
    <3>1. \A p \in oms' : <<"opened", p>> \in seen'
      BY <2>3, <2>6 DEF LastKnown
    <3> QED BY <1>1, <2>1, <3>1, FreshShape DEF ShownOpened, ViewInv
  <2> QED BY <2>3, <2>4, <2>5, <2>7, <2>8 DEF OrderInv
<1> QED BY <1>5, <1>6, <1>7 DEF LoadEvents

LEMMA OrderStep ==
  LedgerTypeOK /\ ViewInv /\ OrderInv /\ [LedgerNext]_ledgerVars => OrderInv'
<1> SUFFICES ASSUME LedgerTypeOK, ViewInv, OrderInv, [LedgerNext]_ledgerVars PROVE OrderInv'
  OBVIOUS
<1> USE EventsOf DEF Kind, OrderInv
<1>1. Stored \subseteq Stored' /\ \A e \in Stored : ev'[e] = ev[e] BY StoredStay
\* A step that leaves the reader alone keeps the order if it stores no opening behind
\* its closing unnoticed.
<1>2. ASSUME UNCHANGED reader, swapped \subseteq swapped',
             \A p \in Pos : <<"opened", p>> \in Stored' \ Stored /\ <<"closed", p>> \in Stored
                           => p \in swapped'
      PROVE  OrderInv'
  <2>1. seen \subseteq Stored /\ answer \subseteq Stored /\ seen' = seen /\ answer' = answer
    BY <1>2 DEF ViewInv, reader
  <2>2. LastKnown' BY <1>2 DEF LastKnown, reader
  <2>3. Skipped'
    <3>1. ASSUME primed, NEW p \in Pos, <<"closed", p>> \in seen, <<"opened", p>> \in Stored' \ seen
          PROVE  p \in swapped' \/ ev'[<<"opened", p>>].at < cursor - Overlap
      <4>1. CASE <<"opened", p>> \in Stored
        BY <1>1, <1>2, <3>1, <4>1 DEF Skipped
      <4>2. CASE <<"opened", p>> \notin Stored
        BY <1>2, <2>1, <3>1, <4>2
      <4> QED BY <4>1, <4>2
    <3> QED BY <1>2, <3>1 DEF Skipped, reader
  <2>4. CacheInOrder'
    <3>1. ASSUME NEW p \in Pos, last[p] = "opened", <<"closed", p>> \in seen
          PROVE  InOrder(p)'
      <4>1. <<"opened", p>> \in Stored /\ <<"closed", p>> \in Stored
        BY <2>1, <3>1 DEF LastKnown
      <4>2. InOrder(p) BY <3>1 DEF CacheInOrder
      <4> QED BY <1>1, <1>2, <4>1, <4>2 DEF InOrder
    <3> QED BY <1>2, <3>1 DEF CacheInOrder, reader
  <2>5. ShownOpened' BY <1>1, <1>2 DEF ShownOpened, reader
  <2>6. ReadInOrder'
    BY <1>1, <1>2, <2>1 DEF ReadInOrder, ShownOpened, reader
  <2> QED BY <2>2, <2>3, <2>4, <2>5, <2>6
<1>3. CASE LoadEvents
  BY <1>3, ReadOrder
<1>4. ASSUME NEW e \in Event, Insert(e) PROVE OrderInv'
  <2>1. UNCHANGED reader /\ swapped \subseteq swapped' BY <1>4 DEF Insert
  <2>2. ASSUME NEW p \in Pos, <<"opened", p>> \in Stored' \ Stored, <<"closed", p>> \in Stored
        PROVE  p \in swapped'
    <3>1. Insert(<<"opened", p>>) BY <2>2, StoredGrow
    <3> QED BY <2>2, <3>1 DEF Insert
  <2> QED BY <1>2, <2>1, <2>2
<1>5. ASSUME Stored' = Stored, UNCHANGED <<reader, swapped>> PROVE OrderInv'
  BY <1>2, <1>5
<1>6. ASSUME NEW e \in Event, Number(e) \/ AppendFails(e) PROVE OrderInv'
  <2>1. Stored' = Stored
    BY <1>6 DEF Number, AppendFails, Lost, Unsent, Stored, LedgerTypeOK
  <2> QED BY <1>5, <1>6, <2>1 DEF Number, AppendFails
<1>7. ASSUME NEW E \in SUBSET Event, Emit(E) PROVE OrderInv'
  <2>1. Stored' = Stored BY <1>7 DEF Emit, Stored
  <2> QED BY <1>5, <1>7, <2>1 DEF Emit
<1>8. CASE LedgerRestart
  <2>1. /\ seen' = {} /\ primed' = FALSE /\ last' = [p \in Pos |-> "none"]
        /\ UNCHANGED <<answer, oms, swapped>>
    BY <1>8 DEF LedgerRestart
  <2>2. ReadInOrder'
    BY <1>1, <2>1 DEF ReadInOrder, ShownOpened, ViewInv
  <2>3. ShownOpened' BY <1>1, <2>1 DEF ShownOpened
  <2> QED BY <2>1, <2>2, <2>3 DEF LastKnown, Skipped, CacheInOrder
<1>9. CASE Tick \/ UNCHANGED ledgerVars
  BY <1>5, <1>9 DEF Tick, ledgerVars, Stored
<1> QED BY <1>3, <1>4, <1>6, <1>7, <1>8, <1>9 DEF LedgerNext, AppendStep

\* A position is shown open after its closing was read only if the closing was inserted first
\* or carries no later stamp, whatever the cache, its cap and the restarts.
THEOREM AnswersAreInOrder == LedgerSpec => []ReadInOrder
<1>1. LedgerInit => OrderInv
  BY DEF LedgerInit, OrderInv, LastKnown, Skipped, CacheInOrder, ShownOpened, ReadInOrder
<1>2. LedgerTypeOK /\ ViewInv /\ OrderInv /\ [LedgerNext]_ledgerVars
        => (LedgerTypeOK /\ ViewInv /\ OrderInv)'
  BY LedgerTypeStep, ViewStep, OrderStep DEF ViewInv
<1>3. OrderInv => ReadInOrder BY DEF OrderInv
<1> QED BY <1>1, <1>2, <1>3, ViewInit, PTL DEF LedgerSpec

=============================================================================
