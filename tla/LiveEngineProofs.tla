--------------------------- MODULE LiveEngineProofs ---------------------------
(***************************************************************************)
(* Theorems about LiveEngine, for every reject threshold, loss limit,      *)
(* equity and number of days.                                              *)
(***************************************************************************)
EXTENDS LiveEngine, TLAPS

\* What a step may leave in the baseline, the file and the armed flag has its
\* type: the only variables whose new value is computed from others.
LEMMA SnapshotType ==
  ASSUME NEW b \in Bases, wallet \in Nat, day \in Nat
  PROVE  Snapshot(b) \subseteq Bases
<1>1. [eq |-> wallet, day |-> day, known |-> TRUE] \in Bases
  BY DEF Bases
<1>2. ASSUME NEW x \in Snapshot(b)
      PROVE  x = b \/ x = [eq |-> wallet, day |-> day, known |-> TRUE]
  BY <1>2, Zenon DEF Snapshot
<1> QED BY <1>1, <1>2

LEMMA OffType == Off \in Files
BY DEF Off, Files

LEMMA PersistType ==
  ASSUME NEW on \in BOOLEAN, NEW why \in BOOLEAN, NEW b \in Bases, file \in Files,
         Persist(on, why, b)
  PROVE  file' \in Files
<1> DEFINE f == [armed |-> on, reason |-> why, eq |-> b.eq, day |-> b.day, fresh |-> TRUE]
<1>1. f \in Files
  BY DEF Files, Bases
<1>2. file' = f \/ file' = file
  BY Zenon DEF Persist
<1> QED BY <1>1, <1>2

LEMMA DisarmType ==
  ASSUME base \in Bases, file \in Files, DisarmLocked
  PROVE  /\ armed' \in BOOLEAN /\ reason' \in BOOLEAN /\ effector' \in BOOLEAN
         /\ file' \in Files /\ stopped' \in BOOLEAN
<1>1. file' \in Files
  BY PersistType DEF DisarmLocked
<1> QED BY <1>1 DEF DisarmLocked

LEMMA AutoDisarmType ==
  ASSUME TypeOK, AutoDisarm
  PROVE  /\ armed' \in BOOLEAN /\ reason' \in BOOLEAN /\ effector' \in BOOLEAN
         /\ file' \in Files /\ stopped' \in BOOLEAN
<1>1. CASE armed /\ DisarmLocked
  BY <1>1, DisarmType DEF TypeOK
<1>2. CASE UNCHANGED <<armed, reason, effector, file, stopped>>
  BY <1>2 DEF TypeOK
<1> QED BY <1>1, <1>2 DEF AutoDisarm

LEMMA FlattenType ==
  ASSUME TypeOK, Flatten
  PROVE  wallet' \in Nat /\ marks' \in Nat
<1>1. wallet \in Nat /\ marks \in Nat
  BY DEF TypeOK
<1>2. marks' \in 0..marks
  BY <1>1 DEF Flatten
<1>3. wallet' = (wallet + marks) - marks'
  BY DEF Flatten, Equity
<1>4. ASSUME NEW w \in Nat, NEW m \in Nat, NEW k \in 0..m
      PROVE  (w + m) - k \in Nat /\ k \in Nat
  OBVIOUS
<1> QED BY <1>1, <1>2, <1>3, <1>4

-----------------------------------------------------------------------------
LEMMA TypeStep ==
  ASSUME TypeOK, [Next]_vars
  PROVE  TypeOK'
<1> USE DEF TypeOK
<1>1. CASE ArmBegin
  <2>1. base' \in Bases
    BY <1>1 DEF ArmBegin, Bases
  <2>2. carried' \in [eq : Nat, day : Nat, onDisk : BOOLEAN] /\ rejects' \in 0..MaxRejects
    BY <1>1, LiveEngineAssumption DEF ArmBegin, NotCarried, LiveEngineAssumption
  <2> QED BY <1>1, <2>1, <2>2 DEF ArmBegin, tasks, world
<1>2. CASE ArmFinish
  <2>1. base' \in Bases
    BY <1>2, SnapshotType DEF ArmFinish
  <2>2. file' \in Files
    BY <1>2, <2>1, PersistType DEF ArmFinish
  <2> QED BY <1>2, <2>1, <2>2 DEF ArmFinish, Enabled, tasks, world, history
<1>3. CASE Disarm
  BY <1>3, DisarmType DEF Disarm, tasks, world
<1>4. CASE CloseAll
  BY <1>4, FlattenType DEF CloseAll, process, tasks, history
<1>5. CASE HaltBegin
  <2>1. halted' = halted \/ halted' = TRUE
    BY <1>5, Zenon DEF HaltBegin
  <2>2. halted' \in BOOLEAN
    BY <2>1
  <2> QED BY <1>5, <2>2 DEF HaltBegin, process, history
<1>6. CASE Release
  BY <1>6 DEF Release, process, tasks
<1>7. CASE \E v \in BOOLEAN : BridgeToggle(v)
  BY <1>7 DEF BridgeToggle, Enabled, tasks, world, history
<1>8. CASE RecordFillOK
  BY <1>8, LiveEngineAssumption DEF RecordFillOK, LiveEngineAssumption, tasks, history
<1>9. CASE RecordReject
  BY <1>9, AutoDisarmType, LiveEngineAssumption
     DEF RecordReject, LiveEngineAssumption, tasks, world
<1>10. CASE Market
  BY <1>10, LiveEngineAssumption DEF Market, LiveEngineAssumption, process, tasks, history
<1>11. CASE MonitorTick
  BY <1>11 DEF MonitorTick, MonitorSteps, process, world, history
<1>12. CASE MonitorCheck
  BY <1>12 DEF MonitorCheck, MonitorSteps, process, world, history
<1>13. CASE MonitorHalt
  BY <1>13, AutoDisarmType DEF MonitorHalt, MonitorSteps, world
<1>14. CASE MonitorReads
  BY <1>14 DEF MonitorReads, MonitorSteps, process, world, history
<1>14a. CASE MonitorReadMarks
  BY <1>14a DEF MonitorReadMarks, MonitorSteps, process, world, history
<1>15. CASE MonitorReadFails
  BY <1>15 DEF MonitorReadFails, MonitorSteps, process, world, history
<1>16. CASE MonitorJudge
  <2>1. CASE base' = [eq |-> sample, day |-> day, known |-> TRUE]
             /\ monitor' = "positions"
             /\ UNCHANGED <<armed, reason, effector, file, stopped>>
    BY <1>16, <2>1 DEF MonitorJudge, MonitorSteps, Bases, world
  <2>2. CASE DisarmLocked /\ monitor' = "flatten" /\ base' = base
    BY <1>16, <2>2, DisarmType DEF MonitorJudge, MonitorSteps, world
  <2>3. CASE monitor' = "positions"
             /\ UNCHANGED <<base, armed, reason, effector, file, stopped>>
    BY <1>16, <2>3 DEF MonitorJudge, MonitorSteps, world
  <2> QED BY <1>16, <2>1, <2>2, <2>3 DEF MonitorJudge
<1>17. CASE MonitorFlatten
  BY <1>17, FlattenType DEF MonitorFlatten, MonitorSteps, process, history
<1>18. CASE MonitorPositions
  BY <1>18, AutoDisarmType DEF MonitorPositions, MonitorSteps, world
<1>19. CASE RestoreRead
  <2>1. saved' \in Files
    BY <1>19, OffType DEF RestoreRead
  <2> QED BY <1>19, <2>1 DEF RestoreRead, process, world, history
<1>20. CASE RestoreRefused
  BY <1>20, OffType DEF RestoreRefused, process, world, history
<1>21. CASE RestoreResume
  BY <1>21, LiveEngineAssumption
     DEF RestoreResume, LiveEngineAssumption, tasks, world, history
<1>22. CASE RestoreFinish
  <2>1. base' \in Bases
    <3>1. SavedBase \in Bases
      BY DEF SavedBase, Bases, Files
    <3>2. Snapshot(base) \subseteq Bases
      BY SnapshotType
    <3>3. base' = SavedBase \/ base' \in Snapshot(base)
      BY <1>22, Zenon DEF RestoreFinish
    <3> QED BY <3>1, <3>2, <3>3
  <2>2. file' \in Files
    BY <1>22, <2>1, PersistType DEF RestoreFinish
  <2>3. saved' \in Files
    BY <1>22, OffType DEF RestoreFinish
  <2> QED BY <1>22, <2>1, <2>2, <2>3 DEF RestoreFinish, Enabled, world, history
<1>23. CASE Crash
  <2>1. carried' \in [eq : Nat, day : Nat, onDisk : BOOLEAN]
    BY <1>23 DEF Crash, Bases
  <2>2. base' \in Bases /\ saved' \in Files /\ rejects' \in 0..MaxRejects
    BY <1>23, LiveEngineAssumption, OffType DEF Crash, LiveEngineAssumption, NoBase, Bases
  <2> QED BY <1>23, <2>1, <2>2 DEF Crash, MonitorSteps, world
<1>24. CASE Boot
  BY <1>24 DEF Boot, process, tasks
<1>25. CASE Age
  <2>1. file' \in Files
    BY <1>25 DEF Age, Files
  <2> QED BY <1>25, <2>1 DEF Age, process, tasks, world, history
<1>26. CASE Midnight
  BY <1>26 DEF Midnight, process, tasks, history
<1>27. CASE HaltFinish
  BY <1>27, AutoDisarmType DEF HaltFinish, world
<1>28. CASE HaltElsewhere
  BY <1>28 DEF HaltElsewhere, process, tasks, history
<1>29. CASE Heartbeat
  <2>1. file' \in Files
    BY <1>29, PersistType, Zenon DEF Heartbeat
  <2> QED BY <1>29, <2>1 DEF Heartbeat, process, tasks, world, history
<1>30. CASE UNCHANGED vars
  BY <1>30 DEF vars, process, tasks, world, history
<1> QED
  BY <1>1, <1>2, <1>3, <1>4, <1>5, <1>6, <1>7, <1>8, <1>9, <1>10, <1>11, <1>12, <1>13,
     <1>14, <1>14a, <1>15, <1>16, <1>17, <1>18, <1>19, <1>20, <1>21, <1>22, <1>23, <1>24, <1>25,
     <1>26, <1>27, <1>28, <1>29, <1>30
     DEF Next, Operator, Broker, Monitor, Restore, Life

\* Every variable keeps its type in every behaviour.
THEOREM TypeCorrect == Spec => []TypeOK
<1>1. Init => TypeOK
  <2>1. NoBase \in Bases
    BY DEF NoBase, Bases
  <2>2. NotCarried \in [eq : Nat, day : Nat, onDisk : BOOLEAN]
    BY DEF NotCarried
  <2>3. MaxRejects \in Nat /\ MaxEquity \in Nat
    BY LiveEngineAssumption DEF LiveEngineAssumption
  <2> SUFFICES ASSUME Init PROVE TypeOK
    OBVIOUS
  <2>4. rejects \in 0..MaxRejects /\ sample \in Nat /\ wallet \in Nat /\ marks \in Nat
        /\ day \in Nat
    BY <2>3 DEF Init
  <2> QED BY <2>1, <2>2, <2>4, OffType, Zenon DEF Init, TypeOK, MonitorSteps
<1>2. TypeOK /\ [Next]_vars => TypeOK'
  BY TypeStep
<1> QED BY <1>1, <1>2, PTL DEF Spec

-----------------------------------------------------------------------------
(* What a step can do to the armed flag, the switch and the counter.       *)

LEMMA AutoDisarmDisarms ==
  ASSUME TypeOK, AutoDisarm
  PROVE  ~armed'
BY DEF AutoDisarm, DisarmLocked

\* Only these actions arm the engine or touch the switch.
Moves == ArmBegin \/ RestoreResume \/ HaltBegin \/ HaltElsewhere \/ HaltFinish
         \/ Release \/ Crash \/ Boot

LEMMA OtherStepsKeepHalt ==
  ASSUME TypeOK, [Next]_vars, ~Moves
  PROVE  (armed' => armed) /\ UNCHANGED <<halted, engineHalt>>
<1>1. CASE Disarm
  BY <1>1 DEF Disarm, DisarmLocked, world
<1>2. CASE RecordReject
  BY <1>2, AutoDisarmDisarms DEF RecordReject, world
<1>3. CASE MonitorHalt
  BY <1>3, AutoDisarmDisarms DEF MonitorHalt, world
<1>4. CASE MonitorJudge
  <2>1. armed' = FALSE \/ armed' = armed
    BY <1>4, Zenon DEF MonitorJudge, DisarmLocked
  <2>2. UNCHANGED <<halted, engineHalt>>
    BY <1>4, Zenon DEF MonitorJudge, world
  <2> QED BY <2>1, <2>2
<1>5. CASE MonitorPositions
  BY <1>5, AutoDisarmDisarms DEF MonitorPositions, world
<1>6. CASE ArmFinish \/ CloseAll \/ (\E v \in BOOLEAN : BridgeToggle(v)) \/ Heartbeat
  <2>1. CASE ArmFinish
    BY <2>1, Zenon DEF ArmFinish, world, history
  <2>2. CASE CloseAll
    BY <2>2 DEF CloseAll, process, history
  <2>3. CASE \E v \in BOOLEAN : BridgeToggle(v)
    BY <2>3 DEF BridgeToggle, world, history
  <2>4. CASE Heartbeat
    BY <2>4, Zenon DEF Heartbeat, process, world, history
  <2> QED BY <1>6, <2>1, <2>2, <2>3, <2>4
<1>7. CASE RecordFillOK \/ Market
  BY <1>7 DEF RecordFillOK, Market, process, history
<1>8. CASE MonitorTick \/ MonitorCheck \/ MonitorReads \/ MonitorReadMarks
            \/ MonitorReadFails \/ MonitorFlatten
  BY <1>8 DEF MonitorTick, MonitorCheck, MonitorReads, MonitorReadMarks,
              MonitorReadFails, MonitorFlatten, process, world, history
<1>9. CASE RestoreRead \/ RestoreRefused \/ RestoreFinish
  <2>1. CASE RestoreRead
    BY <2>1 DEF RestoreRead, process, world, history
  <2>2. CASE RestoreRefused
    BY <2>2 DEF RestoreRefused, process, world, history
  <2>3. CASE RestoreFinish
    BY <2>3, Zenon DEF RestoreFinish, world, history
  <2> QED BY <1>9, <2>1, <2>2, <2>3
<1>10. CASE Age \/ Midnight \/ UNCHANGED vars
  BY <1>10 DEF Age, Midnight, vars, process, world, history
<1> QED
  BY <1>1, <1>2, <1>3, <1>4, <1>5, <1>6, <1>7, <1>8, <1>9, <1>10
     DEF Next, Operator, Broker, Monitor, Restore, Life, Moves

-----------------------------------------------------------------------------
\* A halt made through the engine and not lifted since leaves it disarmed, across
\* requests under way and across restarts.
THEOREM HaltKeepsOff == Spec => []HaltedEngineIsOff
<1>1. Init => HaltedEngineIsOff
  BY DEF Init, HaltedEngineIsOff
<1>2. TypeOK /\ HaltedEngineIsOff /\ [Next]_vars => HaltedEngineIsOff'
  <2> SUFFICES ASSUME TypeOK, HaltedEngineIsOff, [Next]_vars PROVE HaltedEngineIsOff'
    OBVIOUS
  <2> USE DEF HaltedEngineIsOff
  <2>1. CASE ~Moves
    BY <2>1, OtherStepsKeepHalt
  <2>2. CASE ArmBegin
    BY <2>2 DEF ArmBegin, world
  <2>3. CASE RestoreResume
    BY <2>3 DEF RestoreResume, MayResume, world, history
  <2>4. CASE HaltBegin
    <3>1. halted' = halted \/ halted' = TRUE
      BY <2>4, Zenon DEF HaltBegin
    <3>2. armed' = armed /\ engineHalt' = engineHalt
      BY <2>4 DEF HaltBegin, process, history
    <3> QED BY <3>1, <3>2
  <2>5. CASE HaltElsewhere
    BY <2>5 DEF HaltElsewhere, process, history
  <2>6. CASE HaltFinish
    BY <2>6, AutoDisarmDisarms DEF HaltFinish, world
  <2>7. CASE Release
    BY <2>7 DEF Release
  <2>8. CASE Crash
    BY <2>8 DEF Crash, world
  <2>9. CASE Boot
    BY <2>9 DEF Boot, process
  <2> QED BY <2>1, <2>2, <2>3, <2>4, <2>5, <2>6, <2>7, <2>8, <2>9 DEF Moves
<1> QED BY <1>1, <1>2, TypeCorrect, PTL DEF Spec

\* An armed engine is below the reject threshold.
THEOREM RejectStreak == Spec => []RejectStreakStops
<1> USE DEF RejectStreakStops
<1>1. Init => RejectStreakStops
  BY DEF Init
<1>2. TypeOK /\ RejectStreakStops /\ [Next]_vars => RejectStreakStops'
  <2> SUFFICES ASSUME TypeOK, RejectStreakStops, [Next]_vars PROVE RejectStreakStops'
    OBVIOUS
  <2>0. MaxRejects \in Nat \ {0} /\ rejects \in Nat
    BY LiveEngineAssumption DEF LiveEngineAssumption, TypeOK
  <2>1. CASE ArmBegin \/ RestoreResume
    BY <2>0, <2>1 DEF ArmBegin, RestoreResume
  <2>2. CASE RecordReject
    <3>1. StreakReached(rejects') => ~armed'
      BY <2>2, AutoDisarmDisarms DEF RecordReject
    <3> QED BY <2>0, <2>2, <3>1 DEF StreakReached, RecordReject
  <2>3. CASE RecordFillOK
    BY <2>0, <2>3 DEF RecordFillOK
  <2>4. CASE Crash
    BY <2>4 DEF Crash
  <2>5. CASE HaltFinish
    BY <2>5, AutoDisarmDisarms DEF HaltFinish
  <2>6. CASE HaltBegin \/ HaltElsewhere \/ Release \/ Boot
    BY <2>6 DEF HaltBegin, HaltElsewhere, Release, Boot, process
  <2>7. CASE ~(Moves \/ RecordReject \/ RecordFillOK)
    <3>1. rejects' = rejects
      BY <2>7 DEF Next, Operator, Broker, Monitor, Restore, Life, Moves, ArmFinish, Disarm,
         CloseAll, BridgeToggle, Heartbeat, Market, MonitorTick, MonitorCheck,
         MonitorHalt, MonitorReads, MonitorReadMarks, MonitorReadFails, MonitorJudge, MonitorFlatten,
         MonitorPositions, RestoreRead, RestoreRefused, RestoreFinish, Age, Midnight,
         vars, process
    <3> QED BY <2>7, <3>1, OtherStepsKeepHalt
  <2> QED BY <2>1, <2>2, <2>3, <2>4, <2>5, <2>6, <2>7 DEF Moves
<1> QED BY <1>1, <1>2, TypeCorrect, PTL DEF Spec

-----------------------------------------------------------------------------
(* One-way disarm, when saves do not fail and no request is served before  *)
(* the restore has ended.  Run le_race shows that it fails without the     *)
(* second condition; without the first the file keeps an ON that was never *)
(* overwritten.                                                            *)

Dependable == ~SavesMayFail /\ ~EarlyRequests

\* A stopped engine is off in memory, in the file and in the restore's copy.
StoppedEverywhere == stopped => ~armed /\ ~file.armed /\ restore # "apply"

\* Nobody arms, or holds the mutex across a wallet read, ahead of the restore.
RestoreFirst ==
  /\ armed => restore = "done" \/ mutex = "restore"
  /\ mutex = "restore" => restore = "apply"
  /\ mutex # "free" => armed

OneWayInv == StoppedEverywhere /\ RestoreFirst

\* With dependable saves the file holds what the last save wrote.
LEMMA PersistOff ==
  ASSUME Dependable, DisarmLocked
  PROVE  ~file'.armed /\ ~armed'
BY DEF Dependable, DisarmLocked, Persist

LEMMA AutoDisarmOneWay ==
  ASSUME Dependable, TypeOK, OneWayInv, mutex = "free", AutoDisarm, UNCHANGED <<mutex, restore>>
  PROVE  OneWayInv'
<1>1. CASE armed /\ DisarmLocked
  <2>1. ~file'.armed /\ ~armed'
    BY <1>1, PersistOff
  <2>2. restore = "done"
    BY <1>1 DEF OneWayInv, RestoreFirst
  <2> QED BY <2>1, <2>2 DEF OneWayInv, RestoreFirst, StoppedEverywhere
<1>2. CASE UNCHANGED <<armed, reason, effector, file, stopped>>
  BY <1>2 DEF OneWayInv, RestoreFirst, StoppedEverywhere
<1> QED BY <1>1, <1>2 DEF AutoDisarm

LEMMA OneWayStep ==
  ASSUME Dependable, TypeOK, OneWayInv, [Next]_vars
  PROVE  OneWayInv'
<1> USE DEF OneWayInv, RestoreFirst, StoppedEverywhere
<1>1. CASE ArmBegin
  BY <1>1 DEF Dependable, ArmBegin, Requests, Free, tasks
<1>2. CASE ArmFinish
  <2>1. UNCHANGED <<armed, restore, stopped>> /\ mutex = "arm" /\ mutex' = "free"
    BY <1>2 DEF ArmFinish, tasks, history
  <2> QED BY <2>1
<1>3. CASE Disarm
  <2>1. restore = "done" /\ mutex = "free" /\ UNCHANGED <<mutex, restore>>
    BY <1>3 DEF Dependable, Disarm, Requests, Free, tasks
  <2>2. ~file'.armed /\ ~armed'
    BY <1>3, PersistOff DEF Disarm
  <2> QED BY <2>1, <2>2
<1>4. CASE Heartbeat
  <2>1. armed /\ UNCHANGED <<mutex, armed, restore, stopped>>
    BY <1>4, Zenon DEF Heartbeat, process, tasks, history
  <2> QED BY <2>1
<1>5. CASE RecordReject
  <2>1. CASE AutoDisarm
    BY <1>5, <2>1, AutoDisarmOneWay DEF RecordReject, Free, tasks
  <2>2. CASE UNCHANGED <<armed, reason, effector, file, stopped>>
    BY <1>5, <2>2 DEF RecordReject, tasks
  <2> QED BY <1>5, <2>1, <2>2 DEF RecordReject
<1>6. CASE HaltFinish
  BY <1>6, AutoDisarmOneWay DEF HaltFinish, Free
<1>7. CASE MonitorHalt
  BY <1>7, AutoDisarmOneWay DEF MonitorHalt, Free
<1>8. CASE MonitorPositions
  <2>1. CASE Free /\ AutoDisarm
    BY <1>8, <2>1, AutoDisarmOneWay DEF MonitorPositions, Free
  <2>2. CASE UNCHANGED <<armed, reason, effector, file, stopped>>
    BY <1>8, <2>2 DEF MonitorPositions
  <2> QED BY <1>8, <2>1, <2>2 DEF MonitorPositions
<1>9. CASE MonitorJudge
  <2>1. CASE Tripped /\ DisarmLocked
    <3>1. AutoDisarm
      BY <2>1 DEF Tripped, AutoDisarm
    <3> QED BY <1>9, <3>1, AutoDisarmOneWay DEF MonitorJudge, Free
  <2>2. CASE UNCHANGED <<armed, reason, effector, file, stopped>>
    BY <1>9, <2>2 DEF MonitorJudge
  <2> QED BY <1>9, <2>1, <2>2, Zenon DEF MonitorJudge
<1>10. CASE RestoreRead
  BY <1>10 DEF RestoreRead, process, history
<1>11. CASE RestoreRefused
  BY <1>11 DEF RestoreRefused, Free, process, history
<1>12. CASE RestoreResume
  BY <1>12 DEF RestoreResume, tasks, history
<1>13. CASE RestoreFinish
  <2>1. /\ mutex = "restore" /\ mutex' = "free" /\ restore' = "done"
        /\ UNCHANGED <<armed, stopped>>
    BY <1>13, Zenon DEF RestoreFinish, history
  <2> QED BY <2>1
<1>14. CASE Crash
  BY <1>14 DEF Crash
<1>15. CASE Age
  BY <1>15 DEF Age, TypeOK, Files, process, tasks, history
<1>16. CASE \/ CloseAll \/ HaltBegin \/ HaltElsewhere \/ Release \/ RecordFillOK \/ Market
            \/ MonitorTick \/ MonitorCheck \/ MonitorReads \/ MonitorReadMarks \/ MonitorReadFails
            \/ MonitorFlatten \/ Boot \/ Midnight \/ UNCHANGED vars
  <2>1. UNCHANGED <<mutex, armed, file, restore, stopped>>
    BY <1>16, Zenon DEF CloseAll, HaltBegin, HaltElsewhere, Release, RecordFillOK, Market,
       MonitorTick, MonitorCheck, MonitorReads, MonitorReadMarks, MonitorReadFails, MonitorFlatten, Boot,
       Midnight, vars, process, tasks, history
  <2> QED BY <2>1
<1>17. CASE \E v \in BOOLEAN : BridgeToggle(v)
  BY <1>17 DEF BridgeToggle, tasks, history
<1> QED
  BY <1>1, <1>2, <1>3, <1>4, <1>5, <1>6, <1>7, <1>8, <1>9, <1>10, <1>11, <1>12, <1>13,
     <1>14, <1>15, <1>16, <1>17 DEF Next, Operator, Broker, Monitor, Restore, Life

\* A disarm is undone by a human only, restarts included, when saves do not fail
\* and requests wait for the restore.
THEOREM OneWay ==
  ASSUME Dependable
  PROVE  Spec => []StopIsOneWay
<1>1. Init => OneWayInv
  BY DEF Init, OneWayInv, StoppedEverywhere, RestoreFirst
<1>2. Dependable /\ TypeOK /\ OneWayInv /\ [Next]_vars => OneWayInv'
  BY OneWayStep
<1>3. OneWayInv => StopIsOneWay
  BY DEF OneWayInv, StoppedEverywhere, StopIsOneWay
<1>4. Dependable
  OBVIOUS
<1> QED BY <1>1, <1>2, <1>3, <1>4, TypeCorrect, PTL DEF Spec

-----------------------------------------------------------------------------
(* What is saved can be resumed, when no request is served before the       *)
(* restore has ended: a Disarm served earlier leaves a reason that the      *)
(* restore would save with its ON.                                          *)

\* An armed engine has a reason left over only while an Arm is under way, and none
\* is given before the restore has ended.
ReasonCleared ==
  /\ armed /\ reason => mutex = "arm"
  /\ restore # "done" => ~reason

ResumeInv == OnStateCanResume /\ ReasonCleared /\ RestoreFirst

\* What a save leaves in the file: what it wrote, or what was there.
LEMMA PersistFlags ==
  ASSUME NEW on \in BOOLEAN, NEW why \in BOOLEAN, NEW b \in Bases, Persist(on, why, b)
  PROVE  (file'.armed = on /\ file'.reason = why) \/ file' = file
<1> DEFINE f == [armed |-> on, reason |-> why, eq |-> b.eq, day |-> b.day, fresh |-> TRUE]
<1>1. f.armed = on /\ f.reason = why
  OBVIOUS
<1>2. file' = f \/ file' = file
  BY Zenon DEF Persist
<1> QED BY <1>1, <1>2, Zenon

LEMMA AutoDisarmResumes ==
  ASSUME TypeOK, ResumeInv, mutex = "free", AutoDisarm, UNCHANGED <<mutex, restore>>
  PROVE  ResumeInv'
<1> USE DEF ResumeInv, ReasonCleared, RestoreFirst, OnStateCanResume
<1>1. CASE armed /\ DisarmLocked
  <2>1. (file'.armed = FALSE /\ file'.reason = TRUE) \/ file' = file
    BY <1>1, PersistFlags DEF DisarmLocked, TypeOK
  <2>2. restore = "done" /\ ~armed'
    BY <1>1 DEF DisarmLocked
  <2> QED BY <2>1, <2>2
<1>2. CASE UNCHANGED <<armed, reason, effector, file, stopped>>
  BY <1>2
<1> QED BY <1>1, <1>2 DEF AutoDisarm

LEMMA ResumeStep ==
  ASSUME ~EarlyRequests, TypeOK, ResumeInv, [Next]_vars
  PROVE  ResumeInv'
<1> USE DEF ResumeInv, ReasonCleared, RestoreFirst, OnStateCanResume
<1>1. CASE ArmBegin
  BY <1>1 DEF ArmBegin, Requests, Free, tasks
<1>2. CASE ArmFinish
  <2>1. base' \in Bases
    BY <1>2, SnapshotType DEF ArmFinish, TypeOK
  <2>2. (file'.armed = TRUE /\ file'.reason = FALSE) \/ file' = file
    BY <1>2, <2>1, PersistFlags DEF ArmFinish
  <2>3. armed /\ mutex = "arm" /\ reason' = FALSE /\ mutex' = "free" /\ UNCHANGED <<armed, restore>>
    BY <1>2 DEF ArmFinish, tasks
  <2> QED BY <2>2, <2>3
<1>3. CASE Disarm
  <2>1. restore = "done" /\ mutex = "free" /\ ~armed' /\ UNCHANGED <<mutex, restore>>
    BY <1>3 DEF Disarm, Requests, Free, DisarmLocked, tasks
  <2>2. (file'.armed = FALSE /\ file'.reason = TRUE) \/ file' = file
    BY <1>3, PersistFlags DEF Disarm, DisarmLocked, TypeOK
  <2> QED BY <2>1, <2>2
<1>4. CASE Heartbeat
  <2>1. armed /\ mutex = "free" /\ UNCHANGED <<mutex, armed, reason, restore>>
    BY <1>4, Zenon DEF Heartbeat, Free, process, tasks
  <2>2. (file'.armed = TRUE /\ file'.reason = reason) \/ file' = file
    BY <1>4, PersistFlags DEF Heartbeat, TypeOK
  <2>3. ~reason
    BY <2>1
  <2>4. file'.armed => ~file'.reason
    BY <2>2, <2>3, Zenon
  <2> QED BY <2>1, <2>3, <2>4, Zenon
<1>5. CASE RecordReject
  <2>1. CASE AutoDisarm
    BY <1>5, <2>1, AutoDisarmResumes DEF RecordReject, Free, tasks
  <2>2. CASE UNCHANGED <<armed, reason, effector, file, stopped>>
    BY <1>5, <2>2 DEF RecordReject, tasks
  <2> QED BY <1>5, <2>1, <2>2 DEF RecordReject
<1>6. CASE HaltFinish
  BY <1>6, AutoDisarmResumes DEF HaltFinish, Free
<1>7. CASE MonitorHalt
  BY <1>7, AutoDisarmResumes DEF MonitorHalt, Free
<1>8. CASE MonitorPositions
  <2>1. CASE Free /\ AutoDisarm
    BY <1>8, <2>1, AutoDisarmResumes DEF MonitorPositions, Free
  <2>2. CASE UNCHANGED <<armed, reason, effector, file, stopped>>
    BY <1>8, <2>2 DEF MonitorPositions
  <2> QED BY <1>8, <2>1, <2>2 DEF MonitorPositions
<1>9. CASE MonitorJudge
  <2>1. CASE Tripped /\ DisarmLocked
    <3>1. AutoDisarm
      BY <2>1 DEF Tripped, AutoDisarm
    <3> QED BY <1>9, <3>1, AutoDisarmResumes DEF MonitorJudge, Free
  <2>2. CASE UNCHANGED <<armed, reason, effector, file, stopped>>
    BY <1>9, <2>2 DEF MonitorJudge
  <2> QED BY <1>9, <2>1, <2>2, Zenon DEF MonitorJudge
<1>10. CASE RestoreRead
  BY <1>10 DEF RestoreRead, process
<1>11. CASE RestoreRefused
  BY <1>11 DEF RestoreRefused, Free, process
<1>12. CASE RestoreResume
  BY <1>12 DEF RestoreResume, tasks
<1>13. CASE RestoreFinish
  <2>1. base' \in Bases
    <3>1. SavedBase \in Bases
      BY DEF SavedBase, Bases, Files, TypeOK
    <3>2. Snapshot(base) \subseteq Bases
      BY SnapshotType DEF TypeOK
    <3>3. base' = SavedBase \/ base' \in Snapshot(base)
      BY <1>13, Zenon DEF RestoreFinish
    <3> QED BY <3>1, <3>2, <3>3
  <2>2. (file'.armed = TRUE /\ file'.reason = reason) \/ file' = file
    BY <1>13, <2>1, PersistFlags DEF RestoreFinish, TypeOK
  <2>3. /\ mutex = "restore" /\ mutex' = "free" /\ restore' = "done"
        /\ UNCHANGED <<armed, reason>>
    BY <1>13, Zenon DEF RestoreFinish
  <2>4. reason = FALSE
    BY <2>3 DEF TypeOK
  <2> QED BY <2>2, <2>3, <2>4
<1>14. CASE Crash
  BY <1>14 DEF Crash
<1>15. CASE Age
  <2>1. file'.armed = file.armed /\ file'.reason = file.reason
    BY <1>15 DEF Age, TypeOK, Files
  <2> QED BY <1>15, <2>1 DEF Age, process, tasks
<1>16. CASE \/ CloseAll \/ HaltBegin \/ HaltElsewhere \/ Release \/ RecordFillOK \/ Market
            \/ MonitorTick \/ MonitorCheck \/ MonitorReads \/ MonitorReadMarks \/ MonitorReadFails
            \/ MonitorFlatten \/ Boot \/ Midnight \/ UNCHANGED vars
  <2>1. UNCHANGED <<mutex, armed, reason, file, restore>>
    BY <1>16, Zenon DEF CloseAll, HaltBegin, HaltElsewhere, Release, RecordFillOK, Market,
       MonitorTick, MonitorCheck, MonitorReads, MonitorReadMarks, MonitorReadFails, MonitorFlatten, Boot,
       Midnight, vars, process, tasks
  <2> QED BY <2>1
<1>17. CASE \E v \in BOOLEAN : BridgeToggle(v)
  BY <1>17 DEF BridgeToggle, tasks
<1> QED
  BY <1>1, <1>2, <1>3, <1>4, <1>5, <1>6, <1>7, <1>8, <1>9, <1>10, <1>11, <1>12, <1>13,
     <1>14, <1>15, <1>16, <1>17 DEF Next, Operator, Broker, Monitor, Restore, Life

\* An ON state with a stop reason is never saved, failing saves or not, when requests
\* wait for the restore.
THEOREM SavedStateResumes ==
  ASSUME ~EarlyRequests
  PROVE  Spec => []OnStateCanResume
<1>1. Init => ResumeInv
  BY DEF Init, Off, ResumeInv, OnStateCanResume, ReasonCleared, RestoreFirst
<1>2. ~EarlyRequests /\ TypeOK /\ ResumeInv /\ [Next]_vars => ResumeInv'
  BY ResumeStep
<1>3. ResumeInv => OnStateCanResume
  BY DEF ResumeInv
<1>4. ~EarlyRequests
  OBVIOUS
<1> QED BY <1>1, <1>2, <1>3, <1>4, TypeCorrect, PTL DEF Spec

-----------------------------------------------------------------------------
(* The bridge follows the controller, when nobody drives it past it.       *)

\* The mutex is held across a wallet read only by an engine that has just been armed, and
\* none is armed without broker keys, which only a boot changes.
EffectorInv ==
  /\ EffectorFollows
  /\ mutex # "free" => armed
  /\ armed => up /\ configured

LEMMA AutoDisarmEffector ==
  ASSUME EffectorInv, AutoDisarm, UNCHANGED <<up, configured, mutex>>, mutex = "free"
  PROVE  EffectorInv'
<1>1. CASE armed /\ DisarmLocked
  <2>1. armed' = FALSE /\ effector' = FALSE
    BY <1>1 DEF DisarmLocked
  <2> QED BY <2>1 DEF EffectorInv, EffectorFollows
<1>2. CASE UNCHANGED <<armed, reason, effector, file, stopped>>
  BY <1>2 DEF EffectorInv, EffectorFollows
<1> QED BY <1>1, <1>2 DEF AutoDisarm

LEMMA EffectorStep ==
  ASSUME ~BridgeEndpoint, TypeOK, EffectorInv, [Next]_vars
  PROVE  EffectorInv'
<1> USE DEF EffectorInv, EffectorFollows
<1>1. CASE ArmBegin
  BY <1>1 DEF ArmBegin, Free
<1>2. CASE ArmFinish
  <2>1. /\ mutex = "arm" /\ effector' = Enabled(TRUE)
        /\ UNCHANGED <<up, configured, armed>>
    BY <1>2, Zenon DEF ArmFinish
  <2> QED BY <2>1 DEF Enabled
<1>3. CASE Disarm
  <2>1. mutex = "free" /\ armed' = FALSE /\ effector' = FALSE /\ UNCHANGED <<up, configured, mutex>>
    BY <1>3, Zenon DEF Disarm, DisarmLocked, Free
  <2> QED BY <2>1
<1>4. CASE RecordReject
  <2>1. CASE AutoDisarm
    BY <1>4, <2>1, AutoDisarmEffector DEF RecordReject, Free
  <2>2. CASE UNCHANGED <<armed, reason, effector, file, stopped>>
    BY <1>4, <2>2 DEF RecordReject
  <2> QED BY <1>4, <2>1, <2>2 DEF RecordReject
<1>5. CASE HaltFinish \/ MonitorHalt
  <2>1. AutoDisarm /\ mutex = "free" /\ UNCHANGED <<up, configured, mutex>>
    BY <1>5 DEF HaltFinish, MonitorHalt, Free
  <2> QED BY <2>1, AutoDisarmEffector
<1>6. CASE MonitorPositions
  <2>1. CASE Free /\ AutoDisarm
    BY <1>6, <2>1, AutoDisarmEffector DEF MonitorPositions, Free
  <2>2. CASE UNCHANGED <<armed, reason, effector, file, stopped>>
    BY <1>6, <2>2 DEF MonitorPositions
  <2> QED BY <1>6, <2>1, <2>2 DEF MonitorPositions
<1>7. CASE MonitorJudge
  <2>0. mutex = "free" /\ UNCHANGED <<up, configured, mutex>>
    BY <1>7, Zenon DEF MonitorJudge, Free
  <2>1. CASE DisarmLocked
    <3>1. armed' = FALSE /\ effector' = FALSE
      BY <2>1 DEF DisarmLocked
    <3> QED BY <2>0, <3>1
  <2>2. CASE UNCHANGED <<armed, reason, effector, file, stopped>>
    BY <2>0, <2>2
  <2> QED BY <1>7, <2>1, <2>2, Zenon DEF MonitorJudge
<1>8. CASE RestoreResume
  BY <1>8 DEF RestoreResume, MayResume, Free
<1>9. CASE RestoreFinish
  <2>1. /\ mutex = "restore" /\ effector' = Enabled(TRUE)
        /\ UNCHANGED <<up, configured, armed>>
    BY <1>9, Zenon DEF RestoreFinish
  <2> QED BY <2>1 DEF Enabled
<1>10. CASE Crash
  BY <1>10 DEF Crash
<1>11. CASE Boot
  BY <1>11 DEF Boot, process
<1>12. CASE \E v \in BOOLEAN : BridgeToggle(v)
  BY <1>12 DEF BridgeToggle
<1>13. CASE \/ CloseAll \/ HaltBegin \/ HaltElsewhere \/ Release \/ RecordFillOK \/ Market
            \/ MonitorTick \/ MonitorCheck \/ MonitorReads \/ MonitorReadMarks \/ MonitorReadFails
            \/ MonitorFlatten \/ RestoreRead \/ RestoreRefused \/ Heartbeat \/ Age \/ Midnight
            \/ UNCHANGED vars
  <2>1. UNCHANGED <<up, configured, mutex, armed, effector>>
    BY <1>13, Zenon DEF CloseAll, HaltBegin, HaltElsewhere, Release, RecordFillOK, Market,
       MonitorTick, MonitorCheck, MonitorReads, MonitorReadMarks, MonitorReadFails, MonitorFlatten,
       RestoreRead, RestoreRefused, Heartbeat, Age, Midnight, vars, process
  <2> QED BY <2>1
<1> QED
  BY <1>1, <1>2, <1>3, <1>4, <1>5, <1>6, <1>7, <1>8, <1>9, <1>10, <1>11, <1>12, <1>13
     DEF Next, Operator, Broker, Monitor, Restore, Life

\* No order is mirrored to the broker on a disarmed engine, and an armed one mirrors them
\* all, whatever stops, restarts, boots without keys and early requests come between.
THEOREM BridgeFollows ==
  ASSUME ~BridgeEndpoint
  PROVE  Spec => []EffectorFollows
<1>1. Init => EffectorInv
  BY DEF Init, EffectorInv, EffectorFollows
<1>2. ~BridgeEndpoint /\ TypeOK /\ EffectorInv /\ [Next]_vars => EffectorInv'
  BY EffectorStep
<1>3. EffectorInv => EffectorFollows
  BY DEF EffectorInv
<1>4. ~BridgeEndpoint
  OBVIOUS
<1> QED BY <1>1, <1>2, <1>3, <1>4, TypeCorrect, PTL DEF Spec

-----------------------------------------------------------------------------
(* The daily stop measures from the baseline the engine crashed with.      *)

\* A baseline that was on disk at the crash and is still of today.
Owed == carried.onDisk /\ carried.day = day /\ carried.eq > 0

\* No baseline is of a day to come, so that midnight only ends what is owed.
Dated == base.day <= day /\ carried.day <= day

\* Until a human arms again, what is owed is in every state that could resume: in
\* the file, in the restore's copy of it, and in the memory of an armed engine; and
\* before the restore has ended nothing else has set a baseline.
HoldsOwed ==
  /\ mutex = "arm" => ~carried.onDisk
  /\ mutex = "restore" => restore = "apply"
  /\ Owed /\ file.armed => file.eq = carried.eq /\ file.day = day
  /\ Owed /\ restore = "apply" => saved.eq = carried.eq /\ saved.day = day
  /\ Owed /\ restore # "done" =>
       ~base.known /\ monitor = "idle" /\ (armed => mutex = "restore")
  /\ Owed /\ restore = "done" /\ armed => base.known /\ base.eq = carried.eq /\ base.day = day

BaselineInv == Dated /\ HoldsOwed

LEMMA PersistBase ==
  ASSUME NEW on \in BOOLEAN, NEW why \in BOOLEAN, NEW b \in Bases, Persist(on, why, b)
  PROVE  \/ file'.armed = on /\ file'.eq = b.eq /\ file'.day = b.day
         \/ file' = file
<1> DEFINE f == [armed |-> on, reason |-> why, eq |-> b.eq, day |-> b.day, fresh |-> TRUE]
<1>1. f.armed = on /\ f.eq = b.eq /\ f.day = b.day
  OBVIOUS
<1>2. file' = f \/ file' = file
  BY Zenon DEF Persist
<1> QED BY <1>1, <1>2, Zenon

\* A disarm owes nothing: what it saves is off.
LEMMA DisarmKeepsBaseline ==
  ASSUME TypeOK, BaselineInv, DisarmLocked,
         UNCHANGED <<mutex, restore, saved, base, carried, day>>,
         monitor' = monitor \/ monitor' = "idle" \/ armed, mutex = "free"
  PROVE  BaselineInv'
<1>1. file'.armed = FALSE \/ file' = file
  BY PersistBase DEF DisarmLocked, TypeOK
<1>2. ~armed'
  BY DEF DisarmLocked
<1>3. Owed' <=> Owed
  BY DEF Owed
<1> QED BY <1>1, <1>2, <1>3 DEF BaselineInv, HoldsOwed, Dated

LEMMA AutoDisarmKeepsBaseline ==
  ASSUME TypeOK, BaselineInv, AutoDisarm,
         UNCHANGED <<mutex, restore, saved, base, carried, day>>,
         monitor' = monitor \/ monitor' = "idle", mutex = "free"
  PROVE  BaselineInv'
<1>1. CASE armed /\ DisarmLocked
  BY <1>1, DisarmKeepsBaseline
<1>2. CASE UNCHANGED <<armed, reason, effector, file, stopped>>
  <2>1. Owed' <=> Owed
    BY DEF Owed
  <2> QED BY <1>2, <2>1 DEF BaselineInv, HoldsOwed, Dated
<1> QED BY <1>1, <1>2 DEF AutoDisarm

\* What RestoreFinish and ArmFinish may take as a baseline is not of a day to come.
LEMMA SnapshotDated ==
  ASSUME TypeOK, Dated, base' \in Snapshot(base)
  PROVE  base'.day <= day
<1>1. base' = base \/ base' = [eq |-> wallet, day |-> day, known |-> TRUE]
  BY Zenon DEF Snapshot
<1>2. day <= day
  BY DEF TypeOK
<1> QED BY <1>1, <1>2 DEF Dated

LEMMA BaselineStep ==
  ASSUME TypeOK, BaselineInv, [Next]_vars
  PROVE  BaselineInv'
<1> USE DEF BaselineInv
<1>1. CASE ArmBegin
  <2>1. carried'.onDisk = FALSE /\ carried'.day = 0 /\ mutex' = "arm"
    BY <1>1 DEF ArmBegin, NotCarried
  <2>2. base'.day = base.day /\ day' = day
    BY <1>1 DEF ArmBegin, TypeOK, Bases, world
  <2> QED BY <2>1, <2>2 DEF HoldsOwed, Dated, Owed, TypeOK
<1>2. CASE ArmFinish
  <2>1. mutex = "arm" /\ mutex' = "free" /\ base' \in Snapshot(base) /\ carried' = carried /\ day' = day
    BY <1>2 DEF ArmFinish, world, history
  <2>2. ~carried'.onDisk
    BY <2>1 DEF HoldsOwed
  <2> QED BY <2>1, <2>2, SnapshotDated DEF HoldsOwed, Dated, Owed
<1>3. CASE Disarm
  BY <1>3, DisarmKeepsBaseline DEF Disarm, Free, tasks, world
<1>4. CASE Heartbeat
  <2>1. armed /\ mutex = "free" /\ UNCHANGED <<base, mutex, armed, restore, saved, monitor, carried, day>>
    BY <1>4, Zenon DEF Heartbeat, Free, process, tasks, world, history
  <2>2. (file'.eq = base.eq /\ file'.day = base.day) \/ file' = file
    BY <1>4, PersistBase DEF Heartbeat, TypeOK
  <2>3. Owed' <=> Owed
    BY <2>1 DEF Owed
  <2>4. restore \in {"pending", "apply", "done"}
    BY DEF TypeOK
  <2>5. Owed => restore = "done"
    BY <2>1 DEF HoldsOwed
  <2>6. Owed => base.eq = carried.eq /\ base.day = day
    BY <2>1, <2>5 DEF HoldsOwed
  <2> QED BY <2>1, <2>2, <2>3, <2>5, <2>6 DEF HoldsOwed, Dated
<1>5. CASE RecordReject
  <2>1. CASE AutoDisarm
    BY <1>5, <2>1, AutoDisarmKeepsBaseline DEF RecordReject, Free, tasks, world
  <2>2. CASE UNCHANGED <<armed, reason, effector, file, stopped>>
    BY <1>5, <2>2 DEF RecordReject, tasks, world, HoldsOwed, Dated, Owed
  <2> QED BY <1>5, <2>1, <2>2 DEF RecordReject
<1>6. CASE HaltFinish
  BY <1>6, AutoDisarmKeepsBaseline DEF HaltFinish, Free, world
<1>7. CASE MonitorHalt
  BY <1>7, AutoDisarmKeepsBaseline DEF MonitorHalt, Free, world
<1>8. CASE MonitorPositions
  <2>1. CASE Free /\ AutoDisarm
    BY <1>8, <2>1, AutoDisarmKeepsBaseline DEF MonitorPositions, Free, world
  <2>2. CASE UNCHANGED <<armed, reason, effector, file, stopped>>
    BY <1>8, <2>2 DEF MonitorPositions, world, HoldsOwed, Dated, Owed
  <2> QED BY <1>8, <2>1, <2>2 DEF MonitorPositions
<1>9. CASE MonitorJudge
  <2>0. /\ mutex = "free" /\ monitor = "judge"
        /\ UNCHANGED <<mutex, restore, saved, carried, day>>
    BY <1>9 DEF MonitorJudge, Free, world
  <2>1. CASE Tripped /\ DisarmLocked /\ base' = base
    BY <2>0, <2>1, DisarmKeepsBaseline DEF Tripped
  <2>2. CASE base' = base /\ UNCHANGED <<armed, file>>
    BY <2>0, <2>2 DEF HoldsOwed, Dated, Owed
  <2>3. CASE /\ ~base.known \/ base.day # day
             /\ base' = [eq |-> sample, day |-> day, known |-> TRUE]
             /\ UNCHANGED <<armed, file>>
    <3>1. Owed => restore = "done" /\ ~armed
      BY <2>0, <2>3 DEF HoldsOwed
    <3>2. base'.day = day
      BY <2>3
    <3>3. Owed' <=> Owed
      BY <2>0 DEF Owed
    <3>4. day \in Nat
      BY DEF TypeOK
    <3> QED BY <2>0, <2>3, <3>1, <3>2, <3>3, <3>4 DEF HoldsOwed, Dated
  <2> QED BY <1>9, <2>1, <2>2, <2>3, Zenon DEF MonitorJudge
<1>10. CASE RestoreRead
  BY <1>10 DEF RestoreRead, process, world, history, HoldsOwed, Dated, Owed
<1>11. CASE RestoreRefused
  BY <1>11 DEF RestoreRefused, Free, process, world, history, HoldsOwed, Dated, Owed
<1>12. CASE RestoreResume
  BY <1>12 DEF RestoreResume, Free, tasks, world, history, HoldsOwed, Dated, Owed
<1>13. CASE RestoreFinish
  <2>1. /\ mutex = "restore" /\ mutex' = "free" /\ restore' = "done"
        /\ UNCHANGED <<carried, day>>
    BY <1>13, Zenon DEF RestoreFinish, world, history
  <2>2. restore = "apply"
    BY <2>1 DEF HoldsOwed
  <2>3. Owed' <=> Owed
    BY <2>1 DEF Owed
  <2>4. (base' = SavedBase /\ saved.day = day) \/ base' \in Snapshot(base)
    BY <1>13, Zenon DEF RestoreFinish
  <2>5. base' \in Bases
    <3>1. SavedBase \in Bases
      BY DEF SavedBase, Bases, Files, TypeOK
    <3>2. Snapshot(base) \subseteq Bases
      BY SnapshotType DEF TypeOK
    <3> QED BY <2>4, <3>1, <3>2
  <2>6. base'.day <= day
    <3>1. CASE base' = SavedBase /\ saved.day = day
      BY <3>1 DEF SavedBase, TypeOK
    <3>2. CASE base' \in Snapshot(base)
      BY <3>2, SnapshotDated
    <3> QED BY <2>4, <3>1, <3>2
  <2>7. Owed => base'.known /\ base'.eq = carried.eq /\ base'.day = day
    <3>1. SUFFICES ASSUME Owed
                   PROVE  base'.known /\ base'.eq = carried.eq /\ base'.day = day
      OBVIOUS
    <3>2. saved.eq = carried.eq /\ saved.day = day /\ saved.eq > 0
      BY <2>2, <3>1 DEF HoldsOwed, Owed
    <3>3. base' = SavedBase
      BY <1>13, <3>2, Zenon DEF RestoreFinish
    <3> QED BY <3>2, <3>3 DEF SavedBase
  <2>8. (file'.eq = base'.eq /\ file'.day = base'.day) \/ file' = file
    BY <1>13, <2>5, PersistBase DEF RestoreFinish, TypeOK
  <2> QED BY <2>1, <2>2, <2>3, <2>6, <2>7, <2>8 DEF HoldsOwed, Dated
<1>14. CASE Crash
  <2>1. /\ mutex' = "free" /\ armed' = FALSE /\ base' = NoBase /\ restore' = "pending"
        /\ monitor' = "idle" /\ file' = file /\ day' = day
    BY <1>14 DEF Crash, world
  <2>2. CASE armed /\ mutex = "free" /\ base.known
    <3>1. carried' = [eq |-> base.eq, day |-> base.day,
                      onDisk |-> file.armed /\ file.eq = base.eq /\ file.day = base.day]
      BY <1>14, <2>2 DEF Crash
    <3>2. carried'.day = base.day /\ carried'.eq = base.eq
          /\ (carried'.onDisk => file.eq = base.eq /\ file.day = base.day)
      BY <3>1
    <3> QED BY <2>1, <3>2 DEF HoldsOwed, Dated, Owed, NoBase, TypeOK
  <2>3. CASE ~(armed /\ mutex = "free" /\ base.known)
    <3>1. carried' = carried
      BY <1>14, <2>3, Zenon DEF Crash
    <3> QED BY <2>1, <3>1 DEF HoldsOwed, Dated, Owed, NoBase, TypeOK
  <2> QED BY <2>2, <2>3
<1>15. CASE Age
  <2>1. file'.armed = file.armed /\ file'.eq = file.eq /\ file'.day = file.day
    BY <1>15 DEF Age, TypeOK, Files
  <2> QED BY <1>15, <2>1 DEF Age, process, tasks, world, history, HoldsOwed, Dated, Owed
<1>16. CASE Midnight
  <2>1. UNCHANGED <<base, mutex, armed, file, restore, saved, monitor, carried>> /\ day' = day + 1
    BY <1>16 DEF Midnight, process, tasks, history
  <2>2. carried.day <= day /\ base.day <= day /\ day \in Nat /\ carried.day \in Nat /\ base.day \in Nat
    BY DEF Dated, TypeOK, Bases
  <2>3. ~Owed'
    BY <2>1, <2>2 DEF Owed
  <2>4. Dated'
    BY <2>1, <2>2 DEF Dated
  <2> QED BY <2>1, <2>3, <2>4 DEF HoldsOwed
<1>17. CASE \/ MonitorTick \/ MonitorCheck \/ MonitorReads \/ MonitorReadMarks
            \/ MonitorReadFails \/ MonitorFlatten
  <2>1. UNCHANGED <<base, mutex, armed, file, restore, saved, carried, day>>
    BY <1>17, Zenon DEF MonitorTick, MonitorCheck, MonitorReads, MonitorReadMarks,
       MonitorReadFails, MonitorFlatten, process, world, history
  <2>2. Owed' <=> Owed
    BY <2>1 DEF Owed
  <2>3. Owed => restore = "done"
    <3>1. CASE MonitorTick
      BY <3>1 DEF MonitorTick, Free, HoldsOwed
    <3>2. CASE monitor # "idle"
      BY <3>2 DEF HoldsOwed
    <3> QED BY <1>17, <3>1, <3>2 DEF MonitorCheck, MonitorReads, MonitorReadMarks,
               MonitorReadFails, MonitorFlatten
  <2> QED BY <2>1, <2>2, <2>3 DEF HoldsOwed, Dated
<1>18. CASE \/ CloseAll \/ HaltBegin \/ HaltElsewhere \/ Release \/ RecordFillOK \/ Market
            \/ Boot \/ UNCHANGED vars
  <2>1. UNCHANGED <<base, mutex, armed, file, restore, saved, monitor, carried, day>>
    BY <1>18, Zenon DEF CloseAll, HaltBegin, HaltElsewhere, Release, RecordFillOK, Market,
       Boot, vars, process, tasks, world, history
  <2> QED BY <2>1 DEF HoldsOwed, Dated, Owed
<1>19. CASE \E v \in BOOLEAN : BridgeToggle(v)
  <2>1. UNCHANGED <<base, mutex, armed, file, restore, saved, monitor, carried, day>>
    BY <1>19 DEF BridgeToggle, tasks, world, history
  <2> QED BY <2>1 DEF HoldsOwed, Dated, Owed
<1> QED
  BY <1>1, <1>2, <1>3, <1>4, <1>5, <1>6, <1>7, <1>8, <1>9, <1>10, <1>11, <1>12, <1>13,
     <1>14, <1>15, <1>16, <1>17, <1>18, <1>19 DEF Next, Operator, Broker, Monitor, Restore, Life

\* A restart leaves the daily stop measuring from the baseline it crashed with, through
\* early requests, failing saves and further crashes.
THEOREM BaselineIsCarried == Spec => []BaselineCarried
<1>1. Init => BaselineInv
  BY DEF Init, BaselineInv, HoldsOwed, Dated, Owed, NoBase, NotCarried
<1>2. TypeOK /\ BaselineInv /\ [Next]_vars => BaselineInv'
  BY BaselineStep
<1>3. TypeOK /\ BaselineInv => BaselineCarried
  BY DEF TypeOK, BaselineInv, HoldsOwed, Owed, BaselineCarried
<1> QED BY <1>1, <1>2, <1>3, TypeCorrect, PTL DEF Spec
-----------------------------------------------------------------------------
(* The controller implements the latch, under the conditions of OneWay.    *)

\* The file says ON whenever the engine is, and as long as the restore that read it
\* has not resumed or refused; a process that is down holds nothing.
LatchInv ==
  /\ armed /\ mutex # "arm" => file.armed
  /\ restore = "apply" => file.armed
  /\ ~up => ~armed /\ mutex = "free" /\ restore = "pending"

ControlInv == TypeOK /\ OneWayInv /\ HaltedEngineIsOff /\ LatchInv

\* With dependable saves an ON that is saved is in the file.
LEMMA PersistOn ==
  ASSUME Dependable, NEW why \in BOOLEAN, NEW b \in Bases, Persist(TRUE, why, b)
  PROVE  file'.armed = TRUE
<1> DEFINE f == [armed |-> TRUE, reason |-> why, eq |-> b.eq, day |-> b.day, fresh |-> TRUE]
<1>1. file' = f
  BY Zenon DEF Persist, Dependable
<1> QED BY <1>1

\* What RestoreFinish may save as the baseline.
LEMMA RestoredBase ==
  ASSUME TypeOK, RestoreFinish
  PROVE  base' \in Bases
<1>1. SavedBase \in Bases
  BY DEF SavedBase, Bases, Files, TypeOK
<1>2. Snapshot(base) \subseteq Bases
  BY SnapshotType DEF TypeOK
<1>3. base' = SavedBase \/ base' \in Snapshot(base)
  BY Zenon DEF RestoreFinish
<1> QED BY <1>1, <1>2, <1>3

LEMMA AutoDisarmLatch ==
  ASSUME Dependable, OneWayInv, LatchInv, Free, AutoDisarm,
         UNCHANGED <<up, mutex, restore>>
  PROVE  LatchInv'
<1> USE DEF LatchInv, Free
<1>1. CASE armed /\ DisarmLocked
  <2>1. ~armed'
    BY <1>1, PersistOff
  <2>2. restore = "done"
    BY <1>1 DEF OneWayInv, RestoreFirst
  <2> QED BY <2>1, <2>2
<1>2. CASE UNCHANGED <<armed, reason, effector, file, stopped>>
  BY <1>2
<1> QED BY <1>1, <1>2 DEF AutoDisarm

\* Every step of the program, sorted by what it does to the latch: the ones that
\* leave the armed flag, the mutex and the file alone, and the others.
LEMMA LatchStep ==
  ASSUME Dependable, TypeOK, OneWayInv, LatchInv, [Next]_vars
  PROVE  LatchInv'
<1> USE DEF LatchInv
<1>1. CASE ArmBegin
  BY <1>1 DEF Dependable, ArmBegin, Requests, Free, tasks
<1>2. CASE ArmFinish
  <2>1. base' \in Bases
    BY <1>2, SnapshotType DEF ArmFinish, TypeOK
  <2>2. file'.armed = TRUE
    BY <1>2, <2>1, PersistOn DEF ArmFinish
  <2>3. up /\ up' = up
    BY <1>2, Zenon DEF ArmFinish
  <2> QED BY <2>2, <2>3
<1>3. CASE Disarm
  <2>1. up /\ restore = "done" /\ UNCHANGED <<up, mutex, restore>>
    BY <1>3 DEF Dependable, Disarm, Requests, Free, tasks
  <2>2. ~armed'
    BY <1>3, PersistOff DEF Disarm
  <2> QED BY <2>1, <2>2
<1>4. CASE Heartbeat
  <2>1. up /\ UNCHANGED <<up, mutex, armed, restore>>
    BY <1>4, Zenon DEF Heartbeat, Free, process, tasks
  <2>2. file'.armed = TRUE
    BY <1>4, PersistOn DEF Heartbeat, TypeOK
  <2> QED BY <2>1, <2>2
<1>5. CASE RecordReject
  <2>1. CASE AutoDisarm
    BY <1>5, <2>1, AutoDisarmLatch DEF RecordReject, tasks
  <2>2. CASE UNCHANGED <<armed, reason, effector, file, stopped>>
    BY <1>5, <2>2 DEF RecordReject, tasks
  <2> QED BY <1>5, <2>1, <2>2 DEF RecordReject
<1>6. CASE HaltFinish
  BY <1>6, AutoDisarmLatch DEF HaltFinish
<1>7. CASE MonitorHalt
  BY <1>7, AutoDisarmLatch DEF MonitorHalt
<1>8. CASE MonitorPositions
  <2>1. CASE Free /\ AutoDisarm
    BY <1>8, <2>1, AutoDisarmLatch DEF MonitorPositions
  <2>2. CASE UNCHANGED <<armed, reason, effector, file, stopped>>
    BY <1>8, <2>2 DEF MonitorPositions
  <2> QED BY <1>8, <2>1, <2>2 DEF MonitorPositions
<1>9. CASE MonitorJudge
  <2>1. CASE Tripped /\ DisarmLocked
    <3>1. AutoDisarm
      BY <2>1 DEF Tripped, AutoDisarm
    <3> QED BY <1>9, <3>1, AutoDisarmLatch DEF MonitorJudge
  <2>2. CASE UNCHANGED <<armed, reason, effector, file, stopped>>
    BY <1>9, <2>2 DEF MonitorJudge
  <2> QED BY <1>9, <2>1, <2>2, Zenon DEF MonitorJudge
<1>10. CASE RestoreRead
  BY <1>10 DEF RestoreRead, process
<1>11. CASE RestoreRefused
  BY <1>11 DEF RestoreRefused, Free, process
<1>12. CASE RestoreResume
  BY <1>12 DEF RestoreResume, Free, tasks
<1>13. CASE RestoreFinish
  <2>1. file'.armed = TRUE
    BY <1>13, RestoredBase, PersistOn DEF RestoreFinish, TypeOK
  <2>2. up /\ up' = up
    BY <1>13, Zenon DEF RestoreFinish
  <2> QED BY <2>1, <2>2
<1>14. CASE Crash
  BY <1>14 DEF Crash
<1>15. CASE Boot
  BY <1>15 DEF Boot, process, tasks
<1>16. CASE Age
  BY <1>16 DEF Age, TypeOK, Files, process, tasks
<1>17. CASE \E v \in BOOLEAN : BridgeToggle(v)
  BY <1>17 DEF BridgeToggle, tasks
<1>18. CASE \/ CloseAll \/ HaltBegin \/ HaltElsewhere \/ Release \/ RecordFillOK \/ Market
            \/ MonitorTick \/ MonitorCheck \/ MonitorReads \/ MonitorReadMarks \/ MonitorReadFails
            \/ MonitorFlatten \/ Midnight \/ UNCHANGED vars
  <2>1. UNCHANGED <<up, mutex, armed, file, restore>>
    BY <1>18, Zenon DEF CloseAll, HaltBegin, HaltElsewhere, Release, RecordFillOK, Market,
       MonitorTick, MonitorCheck, MonitorReads, MonitorReadMarks, MonitorReadFails, MonitorFlatten,
       Midnight, vars, process, tasks
  <2> QED BY <2>1
<1> QED
  BY <1>1, <1>2, <1>3, <1>4, <1>5, <1>6, <1>7, <1>8, <1>9, <1>10, <1>11, <1>12, <1>13,
     <1>14, <1>15, <1>16, <1>17, <1>18 DEF Next, Operator, Broker, Monitor, Restore, Life
\* A disarm saved is a stop of the latch.
LEMMA DisarmIsStop ==
  ASSUME Dependable, mutex = "free", DisarmLocked, UNCHANGED <<halted, engineHalt>>
  PROVE  Latch!Stop
<1>1. ~file'.armed /\ ~armed'
  BY PersistOff
<1>2. file'.armed = FALSE /\ armed' = FALSE /\ stopped' = TRUE
  BY DEF DisarmLocked, Dependable, Persist
<1> QED BY <1>2 DEF Latch!Stop, Latch!TurnOff

LEMMA AutoDisarmIsStop ==
  ASSUME Dependable, Free, AutoDisarm, UNCHANGED <<mutex, halted, engineHalt>>
  PROVE  Latch!Stop \/ UNCHANGED Latch!vars
<1>1. CASE armed /\ DisarmLocked
  BY <1>1, DisarmIsStop DEF Free
<1>2. CASE UNCHANGED <<armed, reason, effector, file, stopped>>
  BY <1>2 DEF Latch!vars
<1> QED BY <1>1, <1>2 DEF AutoDisarm

\* Every step of the controller, its file, the restore and the monitor is a step of the
\* latch, or none.
LEMMA StepRefinesLatch ==
  ASSUME Dependable, ControlInv, [Next]_vars
  PROVE  [Latch!Next]_(Latch!vars)
<1> USE DEF ControlInv, LatchInv, OneWayInv, RestoreFirst
<1> SUFFICES Latch!Next \/ UNCHANGED Latch!vars
  OBVIOUS
<1>1. CASE ArmBegin
  <2>1. Latch!Arm
    BY <1>1 DEF ArmBegin, Free, tasks, world, Latch!Arm
  <2> QED BY <2>1 DEF Latch!Next
<1>2. CASE ArmFinish
  <2>1. base' \in Bases
    BY <1>2, SnapshotType DEF ArmFinish, TypeOK
  <2>2. file'.armed = TRUE
    BY <1>2, <2>1, PersistOn DEF ArmFinish
  <2>3. armed /\ mutex = "arm" /\ mutex' = "free"
        /\ UNCHANGED <<armed, halted, stopped, engineHalt>>
    BY <1>2 DEF ArmFinish, world, history
  <2>4. Latch!Armed
    BY <2>2, <2>3 DEF Latch!Armed
  <2> QED BY <2>4 DEF Latch!Next
<1>3. CASE Disarm
  <2>1. Latch!Stop
    BY <1>3, DisarmIsStop DEF Disarm, Free, world
  <2> QED BY <2>1 DEF Latch!Next
<1>4. CASE Heartbeat
  <2>1. armed /\ mutex = "free" /\ UNCHANGED <<armed, mutex, halted, stopped, engineHalt>>
    BY <1>4, Zenon DEF Heartbeat, Free, process, world, history
  <2>2. file'.armed = TRUE
    BY <1>4, PersistOn DEF Heartbeat, TypeOK
  <2>3. file.armed = TRUE
    BY <2>1 DEF TypeOK, Files
  <2> QED BY <2>1, <2>2, <2>3 DEF Latch!vars
<1>5. CASE RecordReject
  <2>1. CASE AutoDisarm
    BY <1>5, <2>1, AutoDisarmIsStop DEF RecordReject, world, Latch!Next
  <2>2. CASE UNCHANGED <<armed, reason, effector, file, stopped>>
    BY <1>5, <2>2 DEF RecordReject, world, Latch!vars
  <2> QED BY <1>5, <2>1, <2>2 DEF RecordReject
<1>6. CASE HaltFinish
  <2>0. mutex = "free" /\ mutex' = mutex /\ halted' = halted /\ engineHalt' = halted
    BY <1>6 DEF HaltFinish, Free, world
  <2>1. CASE armed /\ DisarmLocked
    <3>1. file'.armed = FALSE /\ armed' = FALSE /\ stopped' = TRUE
      BY <2>1 DEF DisarmLocked, Dependable, Persist
    <3> QED BY <2>0, <2>1, <3>1 DEF Latch!Next, Latch!Bar, Latch!TurnOff
  <2>2. CASE ~armed /\ UNCHANGED <<armed, reason, effector, file, stopped>>
    BY <2>0, <2>2 DEF Latch!Next, Latch!Bar
  <2> QED BY <1>6, <2>1, <2>2 DEF HaltFinish, AutoDisarm
<1>7. CASE MonitorHalt
  BY <1>7, AutoDisarmIsStop DEF MonitorHalt, world, Latch!Next
<1>8. CASE MonitorPositions
  <2>1. CASE Free /\ AutoDisarm
    BY <1>8, <2>1, AutoDisarmIsStop DEF MonitorPositions, world, Latch!Next
  <2>2. CASE UNCHANGED <<armed, reason, effector, file, stopped>>
    BY <1>8, <2>2 DEF MonitorPositions, world, Latch!vars
  <2> QED BY <1>8, <2>1, <2>2 DEF MonitorPositions
<1>9. CASE MonitorJudge
  <2>0. mutex = "free" /\ UNCHANGED <<mutex, halted, engineHalt>>
    BY <1>9, Zenon DEF MonitorJudge, Free, world
  <2>1. CASE DisarmLocked
    BY <2>0, <2>1, DisarmIsStop DEF Latch!Next
  <2>2. CASE UNCHANGED <<armed, reason, effector, file, stopped>>
    BY <2>0, <2>2 DEF Latch!vars
  <2> QED BY <1>9, <2>1, <2>2, Zenon DEF MonitorJudge
<1>10. CASE RestoreResume
  <2>1. Latch!Resume
    BY <1>10 DEF RestoreResume, MayResume, Free, tasks, world, history, TypeOK, Files, Latch!Resume
  <2> QED BY <2>1 DEF Latch!Next
<1>11. CASE RestoreFinish
  <2>1. /\ mutex = "restore" /\ mutex' = "free"
        /\ UNCHANGED <<armed, halted, stopped, engineHalt>>
    BY <1>11, Zenon DEF RestoreFinish, world, history
  <2>2. file'.armed = TRUE
    BY <1>11, RestoredBase, PersistOn DEF RestoreFinish, TypeOK
  <2>3. file.armed = TRUE
    BY <2>1 DEF TypeOK, Files
  <2> QED BY <2>1, <2>2, <2>3 DEF Latch!vars
<1>12. CASE Crash
  <2>1. Latch!Crash
    BY <1>12 DEF Crash, world, Latch!Crash
  <2> QED BY <2>1 DEF Latch!Next
<1>13. CASE Boot
  <2>1. halted' \in BOOLEAN
    BY <1>13, Zenon DEF Boot
  <2>2. Latch!Boot
    BY <1>13, <2>1 DEF Boot, process, tasks, Latch!Boot
  <2> QED BY <2>2 DEF Latch!Next
<1>14. CASE Age
  <2>1. file'.armed = file.armed
    BY <1>14 DEF Age, TypeOK, Files
  <2> QED BY <1>14, <2>1 DEF Age, process, world, history, Latch!vars
<1>15. CASE Release
  <2>1. Latch!Release
    BY <1>15 DEF Release, process, Latch!Release
  <2> QED BY <2>1 DEF Latch!Next
<1>16. CASE HaltElsewhere
  <2>1. Latch!Halt
    BY <1>16 DEF HaltElsewhere, process, history, Latch!Halt
  <2> QED BY <2>1 DEF Latch!Next
<1>17. CASE HaltBegin
  <2>1. UNCHANGED <<armed, mutex, file, stopped, engineHalt>>
    BY <1>17 DEF HaltBegin, process, history
  <2>2. halted' = halted \/ halted' = TRUE
    BY <1>17, Zenon DEF HaltBegin
  <2>3. CASE halted' = halted
    BY <2>1, <2>3 DEF Latch!vars
  <2>4. CASE halted' = TRUE
    BY <2>1, <2>4 DEF Latch!Next, Latch!Halt
  <2> QED BY <2>2, <2>3, <2>4
<1>18. CASE \E v \in BOOLEAN : BridgeToggle(v)
  BY <1>18 DEF BridgeToggle, world, history, Latch!vars
<1>19. CASE \/ CloseAll \/ RecordFillOK \/ Market \/ RestoreRead \/ RestoreRefused
            \/ MonitorTick \/ MonitorCheck \/ MonitorReads \/ MonitorReadMarks \/ MonitorReadFails
            \/ MonitorFlatten \/ Midnight \/ UNCHANGED vars
  <2>1. UNCHANGED <<armed, mutex, file, halted, stopped, engineHalt>>
    BY <1>19, Zenon DEF CloseAll, RecordFillOK, Market, RestoreRead, RestoreRefused,
       MonitorTick, MonitorCheck, MonitorReads, MonitorReadMarks, MonitorReadFails, MonitorFlatten,
       Midnight, vars, process, world, history
  <2> QED BY <2>1 DEF Latch!vars
<1> QED
  BY <1>1, <1>2, <1>3, <1>4, <1>5, <1>6, <1>7, <1>8, <1>9, <1>10, <1>11, <1>12, <1>13,
     <1>14, <1>15, <1>16, <1>17, <1>18, <1>19 DEF Next, Operator, Broker, Monitor, Restore, Life

LEMMA ControlInvariant ==
  ASSUME Dependable
  PROVE  Spec => []ControlInv
<1>1. Init => OneWayInv /\ LatchInv
  BY DEF Init, OneWayInv, StoppedEverywhere, RestoreFirst, LatchInv
<1>2. Dependable /\ TypeOK /\ OneWayInv /\ [Next]_vars => OneWayInv'
  BY OneWayStep
<1>3. Dependable /\ TypeOK /\ OneWayInv /\ LatchInv /\ [Next]_vars => LatchInv'
  BY LatchStep
<1>4. Dependable
  OBVIOUS
<1> QED BY <1>1, <1>2, <1>3, <1>4, TypeCorrect, HaltKeepsOff, PTL DEF Spec, ControlInv

\* arm_persistence.go:14-36 and controller.go:281-293: the file, the mutex held across a
\* wallet read, the restore that reads the file before it takes the mutex and the monitor
\* that decides without it are together a latch with one durable bit.
THEOREM ControllerIsLatch ==
  ASSUME Dependable
  PROVE  Spec => ActsAsLatch
<1>1. Init => Latch!Init
  BY DEF Init, Off, Latch!Init
<1>2. Dependable /\ ControlInv /\ [Next]_vars => [Latch!Next]_(Latch!vars)
  BY StepRefinesLatch
<1>3. Dependable
  OBVIOUS
<1> QED BY <1>1, <1>2, <1>3, ControlInvariant, PTL DEF Spec, ActsAsLatch, Latch!Spec

\* What the latch promises follows from its own steps, and so holds of the controller: an
\* engine that is ON would be resumed after a crash at any moment, a stopped one is off in
\* memory and in the file, and one that the kill switch of its page has barred is off.
THEOREM LatchKeepsWord ==
  ASSUME Dependable
  PROVE  Spec => []Latch!WordKept
<1>1. Latch!Init => Latch!WordKept
  BY DEF Latch!Init, Latch!WordKept
<1>2. Latch!WordKept /\ [Latch!Next]_(Latch!vars) => Latch!WordKept'
  <2> SUFFICES ASSUME Latch!WordKept, Latch!Next \/ UNCHANGED Latch!vars
               PROVE  Latch!WordKept'
    OBVIOUS
  <2> USE DEF Latch!WordKept
  <2>1. CASE Latch!Arm
    BY <2>1 DEF Latch!Arm
  <2>2. CASE Latch!Armed
    BY <2>2 DEF Latch!Armed
  <2>3. CASE Latch!Stop \/ Latch!Bar
    BY <2>3 DEF Latch!Stop, Latch!Bar, Latch!TurnOff
  <2>4. CASE Latch!Halt \/ Latch!Release
    BY <2>4 DEF Latch!Halt, Latch!Release
  <2>5. CASE Latch!Crash
    BY <2>5 DEF Latch!Crash
  <2>6. CASE Latch!Boot
    BY <2>6 DEF Latch!Boot
  <2>7. CASE Latch!Resume
    BY <2>7 DEF Latch!Resume
  <2>8. CASE UNCHANGED Latch!vars
    BY <2>8 DEF Latch!vars
  <2> QED BY <2>1, <2>2, <2>3, <2>4, <2>5, <2>6, <2>7, <2>8 DEF Latch!Next
<1>3. Spec => Latch!Spec
  BY ControllerIsLatch DEF ActsAsLatch
<1> QED BY <1>1, <1>2, <1>3, PTL DEF Latch!Spec
=============================================================================
