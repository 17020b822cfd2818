------------------------------ MODULE LiveEngine ------------------------------
(***************************************************************************)
(* The Live Engine control plane for real money:                           *)
(* engine/internal/liveengine (controller.go, arm_persistence.go) with the *)
(* goroutines cmd/antigravity/liveengine_wiring.go runs around it.         *)
(*                                                                         *)
(* Arm and RestoreArmState read the broker's wallet while they hold the    *)
(* controller's mutex, so each is two steps with the mutex held in between *)
(* (what does not need the mutex, the kill switch above all, moves         *)
(* meanwhile).  Every other handler holds it for one step.  The auto-disarm*)
(* monitor reads the armed flag, the kill switch and the broker without it *)
(* and acts on what it read.  The ON/OFF intention is saved to a file that *)
(* survives a crash of the process.                                        *)
(***************************************************************************)
EXTENDS Naturals

CONSTANTS MaxRejects,    \* defaultMaxConsecutiveRejects
          LossLimit,     \* maxDailyLossUSD
          MaxEquity,     \* bound: no account is worth more
          MaxDay,        \* bound: the last UTC day
          HaltSources,   \* who uses the kill switch besides releasing it
          SavesMayFail,  \* whether writing the arm-state file may fail
          EarlyRequests, \* whether requests are served before the restore ended
          BridgeEndpoint \* whether anybody posts to /api/delta-live/enable

ASSUME LiveEngineAssumption ==
  /\ MaxRejects \in Nat \ {0} /\ LossLimit \in Nat \ {0}
  /\ MaxEquity \in Nat /\ MaxDay \in Nat \ {0}
  /\ HaltSources \subseteq {"engine", "elsewhere"}
  /\ SavesMayFail \in BOOLEAN /\ EarlyRequests \in BOOLEAN
  /\ BridgeEndpoint \in BOOLEAN

VARIABLES
  up,          \* the process runs
  configured,  \* bridge.configured: this boot found broker keys
  mutex,       \* Controller.mu: free, or held across a wallet read
  armed,       \* Controller.state = ARMED
  reason,      \* Controller.lastDisarmReason # ""
  rejects,     \* Controller.consecutiveRejects
  base,        \* dayStartEquity, dayStartDate and dayStartKnown
  effector,    \* bridge.enabled
  file,        \* live_engine_arm_state.json; a missing file reads as OFF
  restore,     \* where the RestoreArmState goroutine is
  saved,       \* its copy of the file
  monitor,     \* where liveEngineAutoDisarmMonitor is in its tick
  sample,      \* the equity it read
  halting,     \* a SetKillSwitch(true) whose halt is made but not yet its disarm
  halted,      \* ks.IsActive()
  wallet,      \* GetWallet: the USDT balance at the broker
  marks,       \* the mark value of the open option positions
  day,         \* the UTC day
  stopped,     \* history: disarmed, and no human has armed since
  engineHalt,  \* history: a halt made through SetKillSwitch stands
  carried      \* history: the baseline an armed engine crashed with

process == <<mutex, armed, reason, rejects, base, effector>>
tasks == <<restore, saved, monitor, sample, halting>>
world == <<halted, wallet, marks, day>>
history == <<stopped, engineHalt, carried>>
vars == <<up, configured, process, file, tasks, world, history>>

Equity == wallet + marks

Off == [armed |-> FALSE, reason |-> FALSE, eq |-> 0, day |-> 0, fresh |-> FALSE]

\* Mutant of NoBase: a sentinel day before the first one.
BeforeDayOne == [eq |-> 0, day |-> 0 - 1, known |-> FALSE]

NoBase == [eq |-> 0, day |-> 0, known |-> FALSE]
NotCarried == [eq |-> 0, day |-> 0, onDisk |-> FALSE]

Bases == [eq : Nat, day : Nat, known : BOOLEAN]
Files == [armed : BOOLEAN, reason : BOOLEAN, eq : Nat, day : Nat, fresh : BOOLEAN]
MonitorSteps ==
  {"idle", "check", "halt", "read", "marks", "judge", "flatten", "positions"}

TypeOK ==
  /\ up \in BOOLEAN /\ configured \in BOOLEAN
  /\ mutex \in {"free", "arm", "restore"}
  /\ armed \in BOOLEAN /\ reason \in BOOLEAN /\ effector \in BOOLEAN
  /\ rejects \in 0..MaxRejects
  /\ base \in Bases
  /\ file \in Files /\ saved \in Files
  /\ restore \in {"pending", "apply", "done"}
  /\ monitor \in MonitorSteps /\ sample \in Nat
  /\ halting \in BOOLEAN /\ halted \in BOOLEAN
  /\ wallet \in Nat /\ marks \in Nat /\ day \in Nat
  /\ stopped \in BOOLEAN /\ engineHalt \in BOOLEAN
  /\ carried \in [eq : Nat, day : Nat, onDisk : BOOLEAN]

-----------------------------------------------------------------------------
\* bridge.SetEnabled: enabling without broker keys is refused.
Enabled(v) == v /\ configured

\* persistArmStateLocked: SavedAt is now.  A failed write is only logged; the
\* write goes to a temporary file first, so a failure leaves the old content.
Persist(on, why, b) ==
  file' \in {[armed |-> on, reason |-> why, eq |-> b.eq, day |-> b.day, fresh |-> TRUE]}
            \cup {f \in {file} : SavesMayFail}

\* Mutants of DisarmLocked: the save left out, or made before the state changes.
DisarmUnsaved ==
  /\ armed' = FALSE /\ reason' = TRUE /\ effector' = FALSE
  /\ file' = file
  /\ stopped' = TRUE
DisarmSavedTooEarly ==
  /\ armed' = FALSE /\ reason' = TRUE /\ effector' = FALSE
  /\ Persist(armed, TRUE, base)
  /\ stopped' = TRUE

\* Mutant of DisarmLocked: the bridge is left enabled.
DisarmBridgeOn ==
  /\ armed' = FALSE /\ reason' = TRUE /\ effector' = effector
  /\ Persist(FALSE, TRUE, base)
  /\ stopped' = TRUE

\* disarmLocked, for every reason but an empty one typed by the operator.
DisarmLocked ==
  /\ armed' = FALSE /\ reason' = TRUE /\ effector' = FALSE
  /\ Persist(FALSE, TRUE, base)
  /\ stopped' = TRUE

\* Mutant of AutoDisarm: its early return inverted.
AutoDisarmInverted ==
  \/ ~armed /\ DisarmLocked
  \/ armed /\ UNCHANGED <<armed, reason, effector, file, stopped>>

\* AutoDisarm is a no-op on a disarmed engine.
AutoDisarm ==
  \/ armed /\ DisarmLocked
  \/ ~armed /\ UNCHANGED <<armed, reason, effector, file, stopped>>

\* The baseline an AccountEquityUSD read leaves: a failed or empty read keeps b.
Snapshot(b) ==
  {b} \cup {x \in {[eq |-> wallet, day |-> day, known |-> TRUE]} : wallet > 0}

Requests == up /\ (EarlyRequests \/ restore = "done")

Free == up /\ mutex = "free"

-----------------------------------------------------------------------------
\* Arm, up to the wallet read: its refusals change nothing but the audit log.
ArmBegin ==
  /\ Requests /\ Free
  /\ configured /\ ~halted /\ ~armed
  /\ mutex' = "arm"
  /\ armed' = TRUE
  /\ rejects' = 0
  /\ base' = [base EXCEPT !.known = FALSE]
  /\ stopped' = FALSE
  /\ carried' = NotCarried
  /\ UNCHANGED <<up, configured, reason, effector, file, tasks, world, engineHalt>>

ArmFinish ==
  /\ up /\ mutex = "arm"
  /\ base' \in Snapshot(base)
  /\ effector' = Enabled(TRUE)
  /\ reason' = FALSE
  /\ Persist(TRUE, FALSE, base')
  /\ mutex' = "free"
  /\ UNCHANGED <<up, configured, armed, rejects, tasks, world, history>>

\* Disarm is always allowed, on a disarmed engine too.
Disarm ==
  /\ Requests /\ Free
  /\ DisarmLocked
  /\ UNCHANGED <<up, configured, mutex, rejects, base, tasks, world,
                 engineHalt, carried>>

\* SubmitOrder's result hook.  A fill turns balance into option value; a reject
\* at the threshold disarms.  Results of orders placed before a disarm, and of
\* the manual order endpoint, arrive on a disarmed engine too.
RecordFillOK ==
  /\ Free /\ configured /\ wallet > 0
  /\ wallet' = wallet - 1 /\ marks' = marks + 1
  /\ rejects' = 0
  /\ UNCHANGED <<up, configured, mutex, armed, reason, base, effector, file,
                 tasks, halted, day, history>>

\* Mutant of StreakReached: one reject too late.
StreakExceeded(n) == n > MaxRejects

StreakReached(n) == n >= MaxRejects

\* Bound: a disarmed engine counts no further than the threshold.
RecordReject ==
  /\ Free /\ configured /\ rejects < MaxRejects
  /\ rejects' = rejects + 1
  /\ \/ StreakReached(rejects') /\ AutoDisarm
     \/ ~StreakReached(rejects') /\ UNCHANGED <<armed, reason, effector, file, stopped>>
  /\ UNCHANGED <<up, configured, mutex, base, tasks, world, engineHalt, carried>>

\* bridge.CloseAll sells the open positions one by one; the ones whose order
\* fails stay open, and are only reported.  Every closing order passes the
\* pre-trade pipeline first, which blocks it while the kill switch is active.
Flatten ==
  /\ marks' \in IF halted THEN {marks} ELSE 0..marks
  /\ wallet' = Equity - marks'

CloseAll ==
  /\ Requests /\ marks > 0
  /\ Flatten
  /\ UNCHANGED <<up, configured, process, file, tasks, halted, day, history>>

\* POST /api/delta-live/enable drives the effector past the controller.
BridgeToggle(v) ==
  /\ Requests /\ BridgeEndpoint
  /\ effector' = Enabled(v)
  /\ UNCHANGED <<up, configured, mutex, armed, reason, rejects, base, file,
                 tasks, world, history>>

\* Mutant of Heartbeat: it saves an ON whatever the state.
HeartbeatAlways ==
  /\ Free
  /\ Persist(TRUE, reason, base)
  /\ UNCHANGED <<up, configured, process, tasks, world, history>>

\* StartArmStateHeartbeat re-saves an armed state, and only that.
Heartbeat ==
  /\ Free /\ armed
  /\ Persist(TRUE, reason, base)
  /\ UNCHANGED <<up, configured, process, tasks, world, history>>

-----------------------------------------------------------------------------
\* SetKillSwitch(true): ks.Trigger first, which a disabled switch answers without
\* halting; the disarm under the mutex comes later.
HaltBegin ==
  /\ Requests /\ "engine" \in HaltSources /\ ~halting
  /\ halted' \in {halted, TRUE} /\ halting' = TRUE
  /\ UNCHANGED <<up, configured, process, file, restore, saved, monitor, sample,
                 wallet, marks, day, history>>

HaltFinish ==
  /\ Free /\ halting
  /\ AutoDisarm
  /\ halting' = FALSE
  /\ engineHalt' = halted
  /\ UNCHANGED <<up, configured, mutex, rejects, base, restore, saved, monitor,
                 sample, world, carried>>

\* The reconciliation hook, the healer and the other operator endpoints halt
\* the same switch without telling the controller.
HaltElsewhere ==
  /\ up /\ "elsewhere" \in HaltSources
  /\ halted' = TRUE
  /\ UNCHANGED <<up, configured, process, file, tasks, wallet, marks, day, history>>

\* SetKillSwitch(false) and every other release.
Release ==
  /\ up /\ halted
  /\ halted' = FALSE
  /\ engineHalt' = FALSE
  /\ UNCHANGED <<up, configured, process, file, tasks, wallet, marks, day,
                 stopped, carried>>

-----------------------------------------------------------------------------
\* The monitor's tick starts on an engine it finds armed, with a broker client.
MonitorTick ==
  /\ Free /\ configured /\ monitor = "idle" /\ armed
  /\ monitor' = "check"
  /\ UNCHANGED <<up, configured, process, file, restore, saved, sample, halting,
                 world, history>>

MonitorCheck ==
  /\ up /\ monitor = "check"
  /\ monitor' = IF halted THEN "halt" ELSE "read"
  /\ UNCHANGED <<up, configured, process, file, restore, saved, sample, halting,
                 world, history>>

MonitorHalt ==
  /\ Free /\ monitor = "halt"
  /\ AutoDisarm
  /\ monitor' = "idle"
  /\ UNCHANGED <<up, configured, mutex, rejects, base, restore, saved, sample,
                 halting, world, engineHalt, carried>>

\* liveEngineTotalEquity: the wallet and the positions are two broker calls, and
\* orders may fill between them; without the positions, the balance alone counts.
MonitorReads ==
  /\ up /\ monitor = "read"
  /\ sample' = wallet
  /\ monitor' = "marks"
  /\ UNCHANGED <<up, configured, process, file, restore, saved, halting, world,
                 history>>

MonitorReadMarks ==
  /\ up /\ monitor = "marks"
  /\ sample' \in {sample, sample + marks}
  /\ monitor' = "judge"
  /\ UNCHANGED <<up, configured, process, file, restore, saved, halting, world,
                 history>>

\* Without a balance the breaker is skipped for this tick.
MonitorReadFails ==
  /\ up /\ monitor = "read"
  /\ monitor' = "positions"
  /\ UNCHANGED <<up, configured, process, file, restore, saved, sample, halting,
                 world, history>>

\* Mutant of Tripped: a loss of exactly the limit is let through.
TrippedAbove == armed /\ base.known /\ base.day = day /\ base.eq > sample + LossLimit

Tripped == armed /\ base.known /\ base.day = day /\ base.eq >= sample + LossLimit

\* CheckDailyLoss, on the sample read before the mutex was taken.
MonitorJudge ==
  /\ Free /\ monitor = "judge"
  /\ sample' = 0
  /\ \/ /\ ~base.known \/ base.day # day
        /\ base' = [eq |-> sample, day |-> day, known |-> TRUE]
        /\ monitor' = "positions"
        /\ UNCHANGED <<armed, reason, effector, file, stopped>>
     \/ /\ Tripped
        /\ DisarmLocked
        /\ monitor' = "flatten"
        /\ base' = base
     \/ /\ base.known /\ base.day = day /\ ~Tripped
        /\ monitor' = "positions"
        /\ UNCHANGED <<base, armed, reason, effector, file, stopped>>
  /\ UNCHANGED <<up, configured, mutex, rejects, restore, saved, halting, world,
                 engineHalt, carried>>

\* A failed close-all is logged, and the tick is over.
MonitorFlatten ==
  /\ up /\ monitor = "flatten"
  /\ Flatten
  /\ monitor' = "idle"
  /\ UNCHANGED <<up, configured, process, file, restore, saved, sample, halting,
                 halted, day, history>>

\* Unreachable positions are a lost feed; a mismatch of counts is only audited.
MonitorPositions ==
  /\ up /\ monitor = "positions"
  /\ monitor' = "idle"
  /\ \/ Free /\ AutoDisarm
     \/ UNCHANGED <<armed, reason, effector, file, stopped>>
  /\ UNCHANGED <<up, configured, mutex, rejects, base, restore, saved, sample,
                 halting, world, engineHalt, carried>>

-----------------------------------------------------------------------------
\* RestoreArmState reads the file before it takes the mutex; an OFF state, or
\* one with a reason, ends it.
RestoreRead ==
  /\ up /\ restore = "pending"
  /\ IF file.armed /\ ~file.reason
       THEN restore' = "apply" /\ saved' = file
       ELSE restore' = "done" /\ saved' = Off
  /\ UNCHANGED <<up, configured, process, file, monitor, sample, halting, world,
                 history>>

\* Mutant of MayResume: the kill switch is not asked.
MayResumeUnasked == saved.fresh /\ configured

MayResume == saved.fresh /\ configured /\ ~halted

RestoreRefused ==
  /\ Free /\ restore = "apply"
  /\ ~MayResume
  /\ restore' = "done" /\ saved' = Off
  /\ UNCHANGED <<up, configured, process, file, monitor, sample, halting, world,
                 history>>

\* The checks passed: armed, with the wallet read for a baseline still to come.
RestoreResume ==
  /\ Free /\ restore = "apply"
  /\ MayResume
  /\ mutex' = "restore"
  /\ armed' = TRUE
  /\ rejects' = 0
  /\ UNCHANGED <<up, configured, reason, base, effector, file, tasks, world,
                 history>>

\* Mutant of SavedBase: the restart starts the day from the present balance.
BaseFromWallet == [eq |-> wallet, day |-> saved.day, known |-> TRUE]

SavedBase == [eq |-> saved.eq, day |-> saved.day, known |-> TRUE]

\* The day's baseline is carried over when it is of the same day.
RestoreFinish ==
  /\ up /\ mutex = "restore"
  /\ base' \in IF saved.day = day /\ saved.eq > 0 THEN {SavedBase} ELSE Snapshot(base)
  /\ effector' = Enabled(TRUE)
  /\ Persist(TRUE, reason, base')
  /\ mutex' = "free"
  /\ restore' = "done" /\ saved' = Off
  /\ UNCHANGED <<up, configured, armed, reason, rejects, monitor, sample, halting,
                 world, history>>

-----------------------------------------------------------------------------
\* The process dies between any two steps; only the file and the world remain.
Crash ==
  /\ up
  /\ up' = FALSE
  /\ mutex' = "free" /\ armed' = FALSE /\ reason' = FALSE /\ effector' = FALSE
  /\ rejects' = 0 /\ base' = NoBase
  /\ restore' = "pending" /\ saved' = Off
  /\ monitor' = "idle" /\ sample' = 0 /\ halting' = FALSE
  /\ carried' = IF armed /\ mutex = "free" /\ base.known
                  THEN [eq |-> base.eq, day |-> base.day,
                        onDisk |-> file.armed /\ file.eq = base.eq /\ file.day = base.day]
                  ELSE carried
  /\ UNCHANGED <<configured, file, world, stopped, engineHalt>>

\* New starts disarmed, NewBridge disabled.  What the switch restores at boot is
\* module KillSwitch's business.
Boot ==
  /\ ~up
  /\ up' = TRUE
  /\ configured' \in BOOLEAN
  /\ halted' \in {FALSE} \cup {h \in {TRUE} : HaltSources # {}}
  /\ engineHalt' = (engineHalt /\ halted')
  /\ UNCHANGED <<process, file, tasks, wallet, marks, day, stopped, carried>>

\* Down for more than armStateMaxAge: the saved state is no longer fresh.
Age ==
  /\ ~up /\ file.fresh
  /\ file' = [file EXCEPT !.fresh = FALSE]
  /\ UNCHANGED <<up, configured, process, tasks, world, history>>

Midnight ==
  /\ day < MaxDay
  /\ day' = day + 1
  /\ UNCHANGED <<up, configured, process, file, tasks, halted, wallet, marks,
                 history>>

\* The value of open positions moves, within the bound on the account.
Market ==
  /\ marks > 0
  /\ marks' \in (0..(MaxEquity - wallet)) \ {marks}
  /\ UNCHANGED <<up, configured, process, file, tasks, halted, wallet, day,
                 history>>

-----------------------------------------------------------------------------
Init ==
  /\ up = FALSE /\ configured = FALSE
  /\ mutex = "free" /\ armed = FALSE /\ reason = FALSE /\ effector = FALSE
  /\ rejects = 0 /\ base = NoBase
  /\ file = Off
  /\ restore = "pending" /\ saved = Off
  /\ monitor = "idle" /\ sample = 0 /\ halting = FALSE
  /\ halted = FALSE /\ wallet = MaxEquity /\ marks = 0 /\ day = 1
  /\ stopped = FALSE /\ engineHalt = FALSE /\ carried = NotCarried

Operator == ArmBegin \/ Disarm \/ CloseAll \/ HaltBegin \/ Release
            \/ \E v \in BOOLEAN : BridgeToggle(v)
Broker == RecordFillOK \/ RecordReject \/ Market
Monitor == MonitorTick \/ MonitorCheck \/ MonitorHalt \/ MonitorReads
           \/ MonitorReadMarks \/ MonitorReadFails \/ MonitorJudge \/ MonitorFlatten
           \/ MonitorPositions
Restore == RestoreRead \/ RestoreRefused \/ RestoreResume \/ RestoreFinish
Life == Crash \/ Boot \/ Age \/ Midnight

Next == Operator \/ Broker \/ Monitor \/ Restore \/ Life
        \/ ArmFinish \/ HaltFinish \/ HaltElsewhere \/ Heartbeat

Spec == Init /\ [][Next]_vars

\* The handlers' and goroutines' own steps are taken: a running process runs,
\* Go's mutex does not starve a waiter and every broker call ends (its HTTP
\* client has a timeout).  Requests, crashes and markets owe nothing.
Fairness == WF_vars(Monitor) /\ WF_vars(Restore) /\ WF_vars(ArmFinish)
            /\ WF_vars(HaltFinish)

FairSpec == Spec /\ Fairness

\* A broker whose balance is not unreadable for ever.
ReadableSpec == FairSpec /\ SF_vars(MonitorReads)

\* An operator who keeps pressing CLOSE-ALL, at a broker that keeps filling.
PanicSpec == FairSpec /\ SF_vars(CloseAll /\ marks' = 0)

-----------------------------------------------------------------------------
(* Safety *)

\* A disarm, by a human or a safety trigger, is undone by a human only: neither
\* the restart, nor the heartbeat, nor a save or a task that was under way when
\* it came brings the engine back (arm_persistence.go: "keep auto-disarm is
\* one-way true").
StopIsOneWay == stopped => ~armed

\* Once SetKillSwitch(true) has returned, and until somebody releases the
\* switch, the engine is not armed: not by an Arm or a RestoreArmState that was
\* past its checks, and not by a restart.
HaltedEngineIsOff == engineHalt => halted /\ ~armed

\* An armed engine is below the reject threshold, whatever results of earlier
\* orders arrive around the arming.
RejectStreakStops == armed => rejects < MaxRejects

\* A restart leaves the daily stop measuring from the baseline the engine
\* crashed with, when the file held that baseline and the day is the same.
BaselineCarried ==
  armed /\ base.known /\ carried.onDisk /\ carried.day = day /\ carried.eq > 0
    => base.eq = carried.eq

\* The bridge mirrors orders to the broker when the engine is armed, an Arm or a restore
\* still reading its baseline aside, and only then: through every kind of stop, a
\* restart, and a boot without keys (controller.go:108: "arms/disarms the underlying
\* broker bridge"), as long as nobody drives it past the controller.
EffectorFollows == (effector => armed) /\ (armed /\ mutex = "free" => effector)

\* An ON state with a stop reason is never saved: RestoreArmState refuses one,
\* so a save of it would make a deliberate ON unable to resume.
OnStateCanResume == file.armed => ~file.reason

-----------------------------------------------------------------------------
(* Refinement *)

Latch == INSTANCE ArmLatch WITH
  state <- IF ~armed THEN "OFF" ELSE IF mutex = "arm" THEN "ARMING" ELSE "ARMED",
  kept <- file.armed, stopped <- stopped, halted <- halted, barred <- engineHalt

\* The controller, its file, the restore and the monitor together are the latch that
\* the comments promise: in particular an ON that has been answered is not lost by a
\* crash, and no restart turns on what the last word turned off.
ActsAsLatch == Latch!Spec

-----------------------------------------------------------------------------
(* Liveness *)

\* However the kill switch came to be active, an armed engine does not stay
\* armed behind it: the monitor disarms it unless the halt is lifted first.
HaltReachesEngine == (armed /\ halted /\ up) ~> (~armed \/ ~halted)

\* The engine does not stay armed for ever on a loss at the daily limit, once no
\* fill lands between the breaker's two broker calls and is counted by both.
Breached == armed /\ base.known /\ base.day = day /\ base.eq >= Equity + LossLimit
LossStops == <>[][~RecordFillOK]_vars => []<>~Breached

-----------------------------------------------------------------------------
\* A statement of the repository that the code does not keep: a run refutes it.
\* live_bridge.go:878: "Reduce-only closes are permitted while the kill switch is
\* active"; execution_guard.go:46-47: "an active kill switch must never trap an
\* open position".
HaltTrapsNothing == (halted /\ up /\ marks > 0) ~> (~halted \/ ~up \/ marks = 0)

=============================================================================
