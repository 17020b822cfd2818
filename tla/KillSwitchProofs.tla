--------------------------- MODULE KillSwitchProofs ---------------------------
(***************************************************************************)
(* Proofs about KillSwitch for any set of callers and any clock bound.     *)
(***************************************************************************)
EXTENDS KillSwitch, TLAPS

\* The state of the switch has the declared types in every reachable state.
THEOREM TypeCorrect == Spec => []TypeOK
<1>0. NoEvent \in Event
  BY DEF NoEvent, Event
<1>1. Init => TypeOK
  <2> SUFFICES ASSUME Init PROVE TypeOK
    OBVIOUS
  <2> USE DEF Init
  <2>1. enabled \in BOOLEAN /\ active \in BOOLEAN /\ reconciler \in BOOLEAN /\ owed \in BOOLEAN
    OBVIOUS
  <2>2. reason \in Kinds \cup {NoKind} /\ phase \in Phases
    BY DEF Phases
  <2>3. pc \in [Callers -> Steps] /\ call \in [Callers -> Event]
    BY <1>0 DEF Steps
  <2>4. ledger \in SUBSET Event /\ clock \in Nat /\ acted \in SUBSET Event
    BY DEF OldHalt, Event, Kinds
  <2>5. QED
    BY <2>1, <2>2, <2>3, <2>4 DEF TypeOK
<1>2. TypeOK /\ [Next]_vars => TypeOK'
  <2> SUFFICES ASSUME TypeOK, [Next]_vars PROVE TypeOK'
    OBVIOUS
  <2> USE DEF TypeOK, memory
  <2>1. ASSUME NEW type \in {"TRIGGERED", "RELEASED"}, NEW kind \in Kinds \cup {NoKind}
        PROVE  NewEvent(type, kind) \in Event
    BY DEF NewEvent, Event
  <2>r. NewEvent("RELEASED", NoKind) \in Event /\ clock + 1 \in Nat
    BY <2>1
  <2>b. ASSUME NEW next \in Phases, BootRelease(next) PROVE TypeOK'
    BY <2>r, <2>b DEF BootRelease, Clear
  <2>2. ASSUME NEW c \in Callers, NEW kind \in Kinds, TriggerBegin(c, kind) PROVE TypeOK'
    BY <2>1, <2>2 DEF TriggerBegin, Start, Steps
  <2>3. ASSUME NEW c \in Callers, TriggerAppend(c) PROVE TypeOK'
    BY <1>0, <2>3 DEF TriggerAppend, MayStore, Goto, Return, Steps
  <2>4. ASSUME NEW c \in Callers, Activate(c) PROVE TypeOK'
    BY <2>4 DEF Activate, Goto, Steps, Event
  <2>5. ASSUME NEW c \in Callers, Execute(c) PROVE TypeOK'
    BY <1>0, <2>5 DEF Execute, Return, Steps
  <2>6. ASSUME NEW c \in Callers, ReleaseBegin(c) PROVE TypeOK'
    BY <2>r, <2>6 DEF ReleaseBegin, Start, Steps
  <2>7. ASSUME NEW c \in Callers, ReleaseAppend(c) PROVE TypeOK'
    BY <2>7 DEF ReleaseAppend, MayStore, Goto, Steps
  <2>8. ASSUME NEW c \in Callers, ReleaseClear(c) PROVE TypeOK'
    BY <1>0, <2>8 DEF ReleaseClear, Clear, Return, Steps
  <2>9. CASE Crash
    BY <1>0, <2>9 DEF Crash, Clear, Phases, Steps
  <2>10. CASE Boot
    BY <2>10 DEF Boot, Phases
  <2>11. CASE RestoreUnreadable
    BY <2>11 DEF RestoreUnreadable, Phases
  <2>12. CASE RestoreFromLedger
    BY <2>12 DEF RestoreFromLedger, Clear, Phases
  <2>13. ASSUME NEW clean \in BOOLEAN, HealerCheck(clean) PROVE TypeOK'
    BY <2>13 DEF HealerCheck, Phases
  <2>14. CASE HealerRelease
    BY <2>b, <2>14 DEF HealerRelease, Phases
  <2>15. CASE OpenGate
    <3>1. CASE BootRelease("up")
      BY <2>b, <3>1 DEF Phases
    <3>2. CASE ~BootRelease("up")
      BY <2>15, <3>2 DEF OpenGate, Phases
    <3>3. QED
      BY <3>1, <3>2
  <2>16. CASE UNCHANGED vars
    BY <2>16 DEF vars
  <2>17. QED
    BY <2>2, <2>3, <2>4, <2>5, <2>6, <2>7, <2>8, <2>9, <2>10, <2>11, <2>12, <2>13,
       <2>14, <2>15, <2>16 DEF Next, CallBegin, RaisedKinds, CallStep, BootStep
<1>3. QED
  BY <1>1, <1>2, PTL DEF Spec

-----------------------------------------------------------------------------
\* What makes the write-ahead rule inductive: a call past its append holds an
\* event that the ledger has.
WriteAheadInv ==
  /\ RecordedBeforeActing
  /\ \A c \in Callers :
       /\ pc[c] \in {"append", "activate", "execute"} => call[c].type = "TRIGGERED"
       /\ pc[c] \in {"activate", "execute"} => call[c] \in ledger

LEMMA WriteAheadStep == TypeOK /\ WriteAheadInv /\ [Next]_vars => WriteAheadInv'
<1> SUFFICES ASSUME TypeOK, WriteAheadInv, [Next]_vars PROVE WriteAheadInv'
  OBVIOUS
<1> USE DEF TypeOK, WriteAheadInv, RecordedBeforeActing, memory
<1>1. ASSUME NEW c \in Callers, NEW kind \in Kinds, TriggerBegin(c, kind) PROVE WriteAheadInv'
  BY <1>1 DEF TriggerBegin, Start, NewEvent
<1>2. ASSUME NEW c \in Callers, TriggerAppend(c) PROVE WriteAheadInv'
  <2>1. ledger \subseteq ledger' /\ (pc'[c] = "activate" => call[c] \in ledger')
    BY <1>2 DEF TriggerAppend, MayStore, Goto, Return
  <2>2. \A d \in Callers : d # c => pc'[d] = pc[d] /\ call'[d] = call[d]
    BY <1>2 DEF TriggerAppend, Goto, Return
  <2>3. \/ pc'[c] = "activate" /\ call'[c] = call[c]
        \/ pc'[c] = "idle"
    BY <1>2 DEF TriggerAppend, Goto, Return
  <2>4. call[c].type = "TRIGGERED"
    BY <1>2 DEF TriggerAppend
  <2>5. active' = active /\ reason' = reason /\ acted' = acted
    BY <1>2 DEF TriggerAppend
  <2>6. RecordedBeforeActing'
    BY <2>1, <2>5
  <2>7. QED
    BY <2>1, <2>2, <2>3, <2>4, <2>6
<1>3. ASSUME NEW c \in Callers, Activate(c) PROVE WriteAheadInv'
  BY <1>3 DEF Activate, Goto
<1>4. ASSUME NEW c \in Callers, Execute(c) PROVE WriteAheadInv'
  BY <1>4 DEF Execute, Return
<1>5. ASSUME NEW c \in Callers, ReleaseBegin(c) PROVE WriteAheadInv'
  BY <1>5 DEF ReleaseBegin, Start
<1>6. ASSUME NEW c \in Callers, ReleaseAppend(c) PROVE WriteAheadInv'
  BY <1>6 DEF ReleaseAppend, MayStore, Goto
<1>7. ASSUME NEW c \in Callers, ReleaseClear(c) PROVE WriteAheadInv'
  BY <1>7 DEF ReleaseClear, Clear, Return
<1>8. CASE Crash
  BY <1>8 DEF Crash, Clear
<1>9. CASE Boot
  BY <1>9 DEF Boot
<1>10. CASE RestoreUnreadable
  BY <1>10 DEF RestoreUnreadable
<1>11. CASE RestoreFromLedger
  BY <1>11 DEF RestoreFromLedger, Clear, HaltedBy, IsLatest
<1>12. ASSUME NEW clean \in BOOLEAN, HealerCheck(clean) PROVE WriteAheadInv'
  BY <1>12 DEF HealerCheck
<1>13. CASE HealerRelease
  BY <1>13 DEF HealerRelease, BootRelease, Clear
<1>14. CASE OpenGate
  BY <1>14 DEF OpenGate, BootRelease, Clear
<1>15. CASE UNCHANGED vars
  BY <1>15 DEF vars
<1>16. QED
  BY <1>1, <1>2, <1>3, <1>4, <1>5, <1>6, <1>7, <1>8, <1>9, <1>10, <1>11, <1>12, <1>13,
     <1>14, <1>15 DEF Next, CallBegin, RaisedKinds, CallStep, BootStep

\* However calls overlap, appends fail and the process crashes, the switch is
\* never active and no emergency action has run without a ledger record.
THEOREM WriteAhead == Spec => []RecordedBeforeActing
<1>1. Init => WriteAheadInv
  BY DEF Init, WriteAheadInv, RecordedBeforeActing
<1>2. WriteAheadInv => RecordedBeforeActing
  BY DEF WriteAheadInv
<1>3. QED
  BY <1>1, <1>2, TypeCorrect, WriteAheadStep, PTL DEF Spec

-----------------------------------------------------------------------------
(* Triggers that overlap each other, and a Release that runs alone.  A       *)
(* trigger in progress is stamped after every release on record, so that     *)
(* from its append on, in whatever order the appends come, the replay ends   *)
(* with a trigger.                                                           *)

SinceReleases(c) == \A e \in ledger : e.type = "RELEASED" => e.at < call[c].at

\* The replay of a ledger with events ends with one of them.
HasLatest == ledger = {} \/ \E e \in ledger : IsLatest(e)

LedgerInv ==
  /\ HasLatest
  /\ \A e \in ledger : e.at <= clock /\ (e.type = "TRIGGERED" => e.kind \in Kinds)

CallInv(c) ==
  /\ pc[c] # "idle" => phase = "up"
  /\ pc[c] \in {"append", "activate", "execute"} =>
       /\ call[c].type = "TRIGGERED" /\ call[c].kind \in Kinds /\ call[c].at <= clock
       /\ SinceReleases(c)
  /\ pc[c] \in {"activate", "execute"} => call[c] \in ledger
  /\ pc[c] \in {"relAppend", "relClear"} =>
       ~owed /\ call[c].type = "RELEASED" /\ call[c].at <= clock

HaltInv ==
  /\ owed => RestoredHalt
  /\ owed /\ phase \in {"heal", "release", "gate", "up"} => active
  /\ active => RestoredHalt \/ \E c \in Callers : pc[c] = "relClear"

AloneInv == LedgerInv /\ HaltInv /\ ReleasesAlone /\ \A c \in Callers : CallInv(c)

\* A trigger on record that is newer than the releases is what the replay restores,
\* or a newer one is.
LEMMA TriggerOnRecordHalts ==
  ASSUME TypeOK, LedgerInv, NEW t \in ledger, t.type = "TRIGGERED",
         \A e \in ledger : e.type = "RELEASED" => e.at < t.at
  PROVE  RestoredHalt
<1>1. PICK e \in ledger : IsLatest(e) BY DEF LedgerInv, HasLatest
<1>2. e \in Event /\ t \in Event BY DEF TypeOK
<1>3. t.at <= e.at BY <1>1 DEF IsLatest
<1>4. e.type = "TRIGGERED" BY <1>2, <1>3 DEF Event
<1> QED BY <1>1, <1>4 DEF LedgerInv, RestoredHalt, HaltedBy

\* One more event: the replay still ends with some event, and with a trigger if the
\* new one is a trigger newer than the releases.
LEMMA AppendLatest ==
  ASSUME TypeOK, LedgerInv, NEW t \in Event, ledger' = ledger \cup {t}
  PROVE  HasLatest'
<1>1. CASE \A f \in ledger : f.at <= t.at
  <2>1. \A f \in ledger' : f.at <= t.at BY <1>1 DEF Event
  <2> QED BY <2>1 DEF HasLatest, IsLatest
<1>2. CASE ~ \A f \in ledger : f.at <= t.at
  <2>1. PICK f \in ledger : ~(f.at <= t.at) BY <1>2
  <2>2. PICK e \in ledger : IsLatest(e) BY <2>1 DEF LedgerInv, HasLatest
  <2>3. f \in Event /\ e \in Event BY DEF TypeOK
  <2>4. f.at <= e.at BY <2>2 DEF IsLatest
  <2>5. t.at <= e.at BY <2>1, <2>3, <2>4 DEF Event
  <2>6. \A g \in ledger' : g.at <= e.at BY <2>2, <2>5 DEF IsLatest
  <2> QED BY <2>6 DEF HasLatest, IsLatest
<1> QED BY <1>1, <1>2

LEMMA AloneStep ==
  ASSUME TypeOK, TypeOK', AloneInv, [Next /\ ReleasesAlone']_vars
  PROVE  AloneInv'
<1> USE DEF AloneInv, memory
<1>h. UNCHANGED ledger => (RestoredHalt' <=> RestoredHalt) /\ (HasLatest' <=> HasLatest)
  BY DEF RestoredHalt, HaltedBy, IsLatest, HasLatest
<1>n. \A e \in ledger : e \in Event /\ e.at \in Nat /\ e.at <= clock /\ clock \in Nat
  BY DEF TypeOK, LedgerInv, Event
<1>a. ReleasesAlone' BY DEF vars, ReleasesAlone
<1>c. \A c \in Callers : call[c] \in Event /\ call[c].at \in Nat BY DEF TypeOK, Event
<1>1. ASSUME NEW c \in Callers, NEW kind \in Kinds, TriggerBegin(c, kind) PROVE AloneInv'
  <2>1. LedgerInv' BY <1>1, <1>h, <1>n DEF TriggerBegin, LedgerInv
  <2>2. HaltInv'
    BY <1>1, <1>h DEF TriggerBegin, Start, HaltInv, TypeOK
  <2>3. ASSUME NEW d \in Callers PROVE CallInv(d)'
    <3>1. CASE d = c
      <4>1. pc'[d] = "append" /\ call'[d] = NewEvent("TRIGGERED", kind)
        BY <1>1, <3>1 DEF TriggerBegin, Start, TypeOK
      <4>2. phase' = "up" /\ ledger' = ledger /\ clock' = clock + 1
        BY <1>1 DEF TriggerBegin
      <4> QED BY <1>n, <4>1, <4>2 DEF CallInv, SinceReleases, NewEvent, TypeOK
    <3>2. CASE d # c
      <4>1. pc'[d] = pc[d] /\ call'[d] = call[d]
        BY <1>1, <3>2 DEF TriggerBegin, Start, TypeOK
      <4>2. CallInv(d) /\ UNCHANGED <<phase, ledger, owed>> /\ clock' = clock + 1
        BY <1>1 DEF TriggerBegin
      <4>3. clock \in Nat BY DEF TypeOK
      <4> QED BY <1>c, <4>1, <4>2, <4>3 DEF CallInv, SinceReleases
    <3> QED BY <3>1, <3>2
  <2> QED BY <1>a, <2>1, <2>2, <2>3
<1>2. ASSUME NEW c \in Callers, TriggerAppend(c) PROVE AloneInv'
  <2>0. /\ call[c].type = "TRIGGERED" /\ call[c].kind \in Kinds /\ call[c].at <= clock
        /\ SinceReleases(c)
    BY <1>2 DEF TriggerAppend, CallInv
  <2>1. ledger' = ledger \/ ledger' = ledger \cup {call[c]}
    BY <1>2 DEF TriggerAppend, MayStore
  <2>2. UNCHANGED <<memory, phase, clock, acted, owed>> BY <1>2 DEF TriggerAppend
  <2>3. \A d \in Callers : d # c => pc'[d] = pc[d] /\ call'[d] = call[d]
    BY <1>2 DEF TriggerAppend, Goto, Return, TypeOK
  <2>4. \/ pc'[c] = "activate" /\ call'[c] = call[c] /\ call[c] \in ledger'
        \/ pc'[c] = "idle"
    BY <1>2 DEF TriggerAppend, Goto, Return, TypeOK
  <2>5. LedgerInv'
    <3>1. HasLatest' BY <1>c, <1>h, <2>1, AppendLatest DEF LedgerInv
    <3>2. \A e \in ledger' : e.at <= clock /\ (e.type = "TRIGGERED" => e.kind \in Kinds)
      BY <2>0, <2>1 DEF LedgerInv
    <3> QED BY <2>2, <3>1, <3>2 DEF LedgerInv
  <2>6. \A e \in ledger' : e.type = "RELEASED" => e \in ledger BY <2>0, <2>1
  <2>7. RestoredHalt => RestoredHalt'
    <3>1. CASE ledger' = ledger BY <1>h, <3>1
    <3>2. CASE ledger' = ledger \cup {call[c]}
      <4>1. call[c] \in ledger' /\ \A e \in ledger' : e.type = "RELEASED" => e.at < call[c].at
        BY <2>0, <2>6, <3>2 DEF SinceReleases
      <4>2. PICK e \in ledger' : IsLatest(e)' BY <2>5, <4>1 DEF LedgerInv, HasLatest
      <4>3. e \in Event /\ call[c].at <= e.at BY <4>1, <4>2 DEF IsLatest, TypeOK
      <4>4. e.type = "TRIGGERED" BY <1>c, <4>1, <4>3 DEF Event
      <4> QED BY <2>5, <4>2, <4>4 DEF LedgerInv, RestoredHalt, HaltedBy
    <3> QED BY <2>1, <3>1, <3>2
  <2>8. HaltInv'
    <3>1. \A d \in Callers : pc[d] = "relClear" => pc'[d] = "relClear"
      BY <1>2, <2>3 DEF TriggerAppend
    <3> QED BY <2>2, <2>7, <3>1 DEF HaltInv
  <2>9. ASSUME NEW d \in Callers PROVE CallInv(d)'
    <3>1. CASE d = c
      <4>1. phase' = "up" BY <1>2, <2>2 DEF TriggerAppend, CallInv
      <4> QED BY <2>0, <2>2, <2>4, <2>6, <3>1, <4>1 DEF CallInv, SinceReleases
    <3>2. CASE d # c
      <4>1. CallInv(d) /\ pc'[d] = pc[d] /\ call'[d] = call[d] BY <2>3, <3>2
      <4>2. ledger \subseteq ledger' BY <2>1
      <4> QED BY <2>2, <2>6, <4>1, <4>2 DEF CallInv, SinceReleases
    <3> QED BY <3>1, <3>2
  <2> QED BY <1>a, <2>5, <2>8, <2>9
<1>3. ASSUME NEW c \in Callers, Activate(c) PROVE AloneInv'
  <2>1. RestoredHalt
    <3>1. call[c] \in ledger /\ call[c].type = "TRIGGERED" /\ SinceReleases(c)
      BY <1>3 DEF Activate, CallInv
    <3> QED BY <3>1, TriggerOnRecordHalts DEF SinceReleases
  <2>2. \A d \in Callers : pc[d] \notin {"relAppend", "relClear"}
    BY <1>3 DEF Activate, ReleasesAlone
  <2>3. LedgerInv' /\ HaltInv'
    BY <1>3, <1>h, <2>1 DEF Activate, LedgerInv, HaltInv
  <2>4. ASSUME NEW d \in Callers PROVE CallInv(d)'
    <3>1. CallInv(d) /\ UNCHANGED <<phase, ledger, clock, call>>
      BY <1>3 DEF Activate, Goto
    <3>2. d # c => pc'[d] = pc[d] BY <1>3 DEF Activate, Goto, TypeOK
    <3>3. d = c => pc[d] = "activate" /\ pc'[d] = "execute"
      BY <1>3 DEF Activate, Goto, TypeOK
    <3> QED BY <2>2, <3>1, <3>2, <3>3 DEF CallInv, SinceReleases
  <2> QED BY <1>a, <2>3, <2>4
<1>4. ASSUME NEW c \in Callers, Execute(c) PROVE AloneInv'
  <2>1. LedgerInv' BY <1>4, <1>h DEF Execute, LedgerInv
  <2>2. HaltInv' BY <1>4, <1>h DEF Execute, Return, HaltInv, TypeOK
  <2>3. ASSUME NEW d \in Callers PROVE CallInv(d)'
    BY <1>4 DEF Execute, Return, CallInv, SinceReleases, TypeOK
  <2> QED BY <1>a, <2>1, <2>2, <2>3
<1>5. ASSUME NEW c \in Callers, ReleaseBegin(c) PROVE AloneInv'
  <2>1. LedgerInv' BY <1>5, <1>h, <1>n DEF ReleaseBegin, LedgerInv
  <2>2. HaltInv' BY <1>5, <1>h DEF ReleaseBegin, Start, HaltInv, TypeOK
  <2>3. ASSUME NEW d \in Callers PROVE CallInv(d)'
    <3>1. CASE d = c
      <4>1. pc'[d] = "relAppend" /\ call'[d] = NewEvent("RELEASED", NoKind)
        BY <1>5, <3>1 DEF ReleaseBegin, Start, TypeOK
      <4>2. phase' = "up" /\ clock' = clock + 1 /\ ~owed' BY <1>5 DEF ReleaseBegin
      <4> QED BY <4>1, <4>2 DEF CallInv, NewEvent, TypeOK
    <3>2. CASE d # c
      <4>1. pc'[c] = "relAppend" BY <1>5 DEF ReleaseBegin, Start, TypeOK
      <4>2. pc'[d] = "idle" BY <1>a, <3>2, <4>1 DEF ReleasesAlone
      <4> QED BY <4>2 DEF CallInv
    <3> QED BY <3>1, <3>2
  <2> QED BY <1>a, <2>1, <2>2, <2>3
<1>6. ASSUME NEW c \in Callers, ReleaseAppend(c) PROVE AloneInv'
  <2>1. ~owed /\ call[c].type = "RELEASED" /\ call[c].at <= clock /\ phase = "up"
    BY <1>6 DEF ReleaseAppend, CallInv
  <2>2. ledger' = ledger \/ ledger' = ledger \cup {call[c]}
    BY <1>6 DEF ReleaseAppend, MayStore
  <2>3. UNCHANGED <<memory, phase, clock, owed>> /\ call' = call /\ pc'[c] = "relClear"
    BY <1>6 DEF ReleaseAppend, Goto, TypeOK
  <2>4. HasLatest' BY <1>c, <1>h, <2>2, AppendLatest DEF LedgerInv
  <2>5. LedgerInv' BY <2>1, <2>2, <2>3, <2>4 DEF LedgerInv
  <2>6. HaltInv' BY <2>1, <2>3 DEF HaltInv
  <2>7. \A d \in Callers : d # c => pc'[d] = "idle" BY <1>a, <2>3 DEF ReleasesAlone
  <2>8. \A d \in Callers : CallInv(d)' BY <2>1, <2>3, <2>7 DEF CallInv
  <2> QED BY <1>a, <2>5, <2>6, <2>8
<1>7. ASSUME NEW c \in Callers, ReleaseClear(c) PROVE AloneInv'
  <2>1. LedgerInv' BY <1>7, <1>h DEF ReleaseClear, LedgerInv
  <2>2. ~owed BY <1>7 DEF ReleaseClear, CallInv
  <2>3. HaltInv' BY <1>7, <2>2 DEF ReleaseClear, Clear, HaltInv
  <2>4. \A d \in Callers : d # c => pc[d] = "idle" BY <1>7 DEF ReleaseClear, ReleasesAlone
  <2>5. \A d \in Callers : pc'[d] = "idle" BY <1>7, <2>4 DEF ReleaseClear, Return, TypeOK
  <2>6. \A d \in Callers : CallInv(d)' BY <2>5 DEF CallInv
  <2> QED BY <1>a, <2>1, <2>3, <2>6
\* While the engine is down or boots, no call is in progress.
<1>b. ASSUME \A c \in Callers : pc'[c] = "idle", LedgerInv', HaltInv' PROVE AloneInv'
  BY <1>a, <1>b DEF CallInv
<1>i. phase # "up" => \A c \in Callers : pc[c] = "idle" BY DEF CallInv
<1>8. CASE Crash
  <2>1. LedgerInv' /\ HaltInv' BY <1>8, <1>h DEF Crash, Clear, LedgerInv, HaltInv
  <2> QED BY <1>8, <1>b, <2>1 DEF Crash
<1>9. CASE Boot
  BY <1>9, <1>b, <1>h, <1>i DEF Boot, LedgerInv, HaltInv
<1>10. CASE RestoreUnreadable
  BY <1>10, <1>b, <1>h, <1>i DEF RestoreUnreadable, LedgerInv, HaltInv
<1>11. CASE RestoreFromLedger
  BY <1>11, <1>b, <1>h, <1>i DEF RestoreFromLedger, Clear, RestoredHalt, LedgerInv, HaltInv
<1>12. ASSUME NEW clean \in BOOLEAN, HealerCheck(clean) PROVE AloneInv'
  BY <1>12, <1>b, <1>h, <1>i DEF HealerCheck, LedgerInv, HaltInv
<1>13. ASSUME NEW next \in Phases, phase # "up", BootRelease(next) PROVE AloneInv'
  <2>1. NewEvent("RELEASED", NoKind) \in Event BY DEF NewEvent, Event, TypeOK
  <2>2. HasLatest' BY <1>13, <1>h, <2>1, AppendLatest DEF BootRelease, LedgerInv
  <2>3. LedgerInv'
    <3>1. CASE ledger' = ledger /\ clock' = clock BY <2>2, <3>1 DEF LedgerInv
    <3>2. CASE ledger' = ledger \cup {NewEvent("RELEASED", NoKind)} /\ clock' = clock + 1
      BY <1>n, <2>1, <2>2, <3>2 DEF NewEvent, LedgerInv, TypeOK
    <3> QED BY <1>13, <3>1, <3>2 DEF BootRelease
  <2>4. \A c \in Callers : pc'[c] = "idle" BY <1>13, <1>i DEF BootRelease
  <2>5. HaltInv' BY <1>13 DEF BootRelease, Clear, HaltInv
  <2> QED BY <1>b, <2>3, <2>4, <2>5
<1>14. CASE HealerRelease
  BY <1>13, <1>14 DEF HealerRelease, Phases
<1>15. CASE OpenGate
  <2>1. CASE BootRelease("up")
    BY <1>13, <1>15, <2>1 DEF OpenGate, Phases
  <2>2. CASE ~BootRelease("up")
    BY <1>15, <1>b, <1>h, <1>i, <2>2 DEF OpenGate, LedgerInv, HaltInv
  <2> QED BY <2>1, <2>2
<1>16. CASE UNCHANGED vars
  BY <1>16, <1>a, <1>h DEF vars, LedgerInv, HaltInv, CallInv, SinceReleases
<1>17. QED
  BY <1>1, <1>2, <1>3, <1>4, <1>5, <1>6, <1>7, <1>8, <1>9, <1>10, <1>11, <1>12,
     <1>14, <1>15, <1>16 DEF Next, CallBegin, RaisedKinds, CallStep, BootStep

LEMMA Alone == AloneSpec => []AloneInv
<1>1. Init => AloneInv
  BY DEF Init, AloneInv, LedgerInv, HasLatest, IsLatest, HaltInv, CallInv, ReleasesAlone,
         OldHalt, Kinds
<1>2. AloneSpec => Spec
  <2>1. [Next /\ ReleasesAlone']_vars => [Next]_vars OBVIOUS
  <2> QED BY <2>1, PTL DEF AloneSpec, Spec
<1>3. TypeOK /\ TypeOK' /\ AloneInv /\ [Next /\ ReleasesAlone']_vars => AloneInv'
  BY AloneStep
<1>4. QED
  BY <1>1, <1>2, <1>3, TypeCorrect, PTL DEF AloneSpec

\* With any number of Triggers in progress beside each other, and each Release alone, an
\* acknowledged halt holds through append faults, crashes and restarts until somebody
\* asks for its release.
THEOREM AcknowledgedHalt == AloneSpec => []AcknowledgedHaltHolds
<1>1. AloneInv => AcknowledgedHaltHolds
  BY DEF AloneInv, HaltInv, AcknowledgedHaltHolds
<1>2. QED
  BY <1>1, Alone, PTL

\* Under the same condition a halt in force survives a restart: the replay of the ledger
\* would restore it.
THEOREM RestartKeepsHalt == AloneSpec => []HaltSurvivesRestart
<1>1. AloneInv => HaltSurvivesRestart
  BY DEF AloneInv, HaltInv, HaltSurvivesRestart
<1>2. QED
  BY <1>1, Alone, PTL

=============================================================================
