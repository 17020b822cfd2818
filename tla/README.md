# TLA+ models of the trading engine

This directory specifies the parts of the engine that decide whether real
orders are sent, and the parts that must never lose track of what was sent:
the institutional kill switch, the Live Engine's ARM/DISARM control plane, the
trade cloner of the Pre-Live engine, the two bridges that trade options and
perpetuals on Delta, and the event ledger with the reconciliation that compares
the paper desk with it. TLC checks the models on small
instances; TLAPS proves the theorems listed below for every value of the
constants. `PROJECT.json` is the machine-readable index: components, runs,
mutants, the source lines behind every definition, findings, hazards, theorems.

Contents: 1 the system, 2 the modules, 3 the runs, 4 fairness, 5 the proofs,
6 where code and comments disagree, 7 what is left out, 8 the plan.

To run: `tlc -config ks_serial.cfg MCKillSwitch` (the prefix of a cfg names its
module: `ks` MCKillSwitch, `le` MCLiveEngine, `lm` MCLiveMirror, `db`
MCDeltaBridge, `pb` MCPerpBridge, `rc` MCPaperRecon) and
`tlapm KillSwitchProofs.tla`.

## 1. The system

Paths are below `src/engine/`. Most of the 6.8 million lines of the repository
are vendored modules and data; the program is the Go engine (three long-running
commands, `cmd/antigravity`, `cmd/pre_live` and `cmd/scalp_prelive`, and many
offline tools) and a
Next.js dashboard.

### How a trade flows

    strategies -> trading loop -> paper OMS / position manager -> (hooks)
                                                   |
       antigravity:  Delta live bridge -> institutional path -> gate -> Delta REST
       pre_live:     trade cloner ------------------------------------> Delta REST
       scalp_prelive: paper desk -> perpetual bridge -----------------> Delta REST

    kill switch   asked by the gate, the bridge's order guard, the Live Engine
                  and, in pre_live, before an entry
    Live Engine   decides whether the bridge is enabled
    event ledger  records orders, fills, kill-switch events; replayed at boot
    reconciliation compares ledger projections with the venue; halts on drift

### Components

**Institutional kill switch** (`internal/killswitch`, 390 lines).
State: `enabled`, `active`, `reason`, a wired reconciler; durable: its events
in the ledger. Operations: Trigger (append, activate, executor), Release
(append, clear), RestoreFromLedger and the startup healer, DisableAndRelease.
Called by HTTP handlers, the reconciliation hook and the Live Engine; read by
every order path. Hard: the append happens outside the lock, appends fail or
lose their answer, the process dies between any two steps. Correct when nothing
acts on an unrecorded halt, an acknowledged halt holds through restarts, and a
release always resumes.

**Live Engine controller** (`internal/liveengine`, controller and arm
persistence, 720 lines). State: ARMED/DISARMED, disarm reason, reject streak,
the day's baseline equity; durable: the arm-state file. Operations: Arm, Disarm,
AutoDisarm, RecordFill/Reject, CheckDailyLoss, SetKillSwitch, CloseAll,
RestoreArmState, heartbeat. Drives the bridge's enable flag through hooks. Hard:
broker calls under the mutex, the kill switch changing outside it, a restore
that races requests, saves that fail. Correct when auto-disarm is one-way,
a halt and an armed engine do not stay together, and the daily stop survives a
restart.

**Live Engine wiring and monitor** (`cmd/antigravity/liveengine_wiring.go`).
The 30-second auto-disarm monitor, the restore and heartbeat goroutines, the
equity computed of two broker calls. Hard: every value it judges is stale.

**HTTP, roster, inception** of the Live Engine: authorisation, request parsing,
a scoring of strategies and a date filter; no state that matters here.

**Trade cloner** (`internal/livemirror/mirror.go`, 710 lines). State: enabled,
a bounded channel of events, the recent trades and a map from paper position
to trade; at the venue, one net position. Operations: the OnOpen/OnClose hooks
(enqueue or drop), one worker (enter, exit), CloseAll (exit all OPEN trades,
then flatten the residual). Hard: two senders of orders, events dropped or out
of order, lost answers, orders accepted that fill nothing, records truncated while
OPEN, restarts that forget all. Correct when a clone is exited at most once, what is
OPEN can be closed, and CloseAll leaves nothing.

**Paper position manager** (`internal/positions`, 640 lines) and **trading loop**
(`internal/trading/loop.go`, 3400 lines). State: open positions, the next
identifier, a queue of close events; in the loop a map from position to order.
Operations: open, tick (stops, targets, trailing, time stops), close, restore, reset;
in the loop, mapping a new position, processing the close queue, and goroutines
that append the two events of a position to the ledger. Hard: limit check and
open are two locked sections; a blocking queue under the manager's lock; a
position may close before it is mapped, or be wiped by a reset with no close event; the
append is asynchronous and its error
is only logged. Correct when the ledger tells the positions of the manager.

**Delta live bridge** (`internal/delta/live_bridge.go`,
`live_position_custody.go`). State: enabled, allow-list, live trades, a map from
paper trade to live trade. Operations: OnOpen, OnClose (asynchronous orders
through injected handlers), CloseAll, the custody monitor, adoption of untracked
positions, ClearHistory, restore. Hard: hooks that overtake one another, flags
read before an asynchronous order, an error whose order was filled, a failed
close that is final, a monitor and a sweep on stale copies. Correct when no
contract at the venue is forgotten, no trade claims a contract that is not there,
and a strategy holds one trade.

**Perpetual live desk** (`internal/delta/perp_bridge.go`, its brackets,
persistence and switches, 1700 lines; run by `cmd/scalp_prelive/live.go`). State:
armed, the book (one trade a stream), the strategy switches, a state file; at the
venue, a net position and a bracket per product. Operations: OnPaperOpen, the
15-second exit monitor, CloseAll, Arm, Disarm, the switches, Restore with its
orphans. Hard: three goroutines with copies of the book, a venue that nets long
and short, answers lost, brackets shared by the trades of a product. Correct when
every contract has an owner, the caps hold, CLOSE-ALL leaves nothing and no
bracket is stripped from a trade.

**Institutional execution path** (`internal/trading`, `internal/risk/gate`).
Stateless pipeline in front of the broker: risk gate, kill switch, idempotency,
then order, fill and ledger events. Hard: one step of several failing.

**Event ledger** (`internal/ledger`, 2300 lines). Append-only events with
per-aggregate sequence numbers, unique indexes, idempotency keys; memory,
MongoDB and Postgres stores. Hard: the sequence and the insert are two calls;
replay order is wall-clock order. Snapshots and bootstrap are called by no command.
**Ledger reader** (`reconciliationv2/ledger_oms_reader.go`): an incremental cache
with a cursor and an overlap window. Correct when it answers what a full replay
would.

**Reconciliation v2** (`reconciliationv2`, 4800 lines): audits per domain,
scheduler, auto-repair, the kill-switch hook. Hard: the two sides of a comparison
are read at two times. Correct when it halts on drift, and only on drift.

**OMS v3 authority** (`internal/omsv3`, 3000 lines): its projection of positions
is what reconciliation reads; its cache with a TTL is used by `ha` only, which no
command constructs. **Paper OMS** (`internal/execution`, 2400 lines): a paper book
with fees, liquidation, reset and recovery. **Boot** (`cmd/antigravity/main.go`,
3200 lines): wires all of these; its order matters to the kill switch and to the
arming.

**Delta REST clients**: signing and I/O. **Options engines**, **pms/riskv3**,
**strategies, research, validation, backtests** (over 80 000 lines): numeric.
**ha** (3600 lines): constructed by no command. **Market data, telemetry,
persistence, fund operations**: support. **Web client**: presentation.

## 2. The modules

| module | code | what it adds |
|---|---|---|
| `KillSwitch` | `killswitch/service.go`, boot order of `main.go` | callers interleaving around ledger appends; crash, boot, healer |
| `LiveEngine` | `liveengine/controller.go`, `arm_persistence.go`, `liveengine_wiring.go` | control plane, its goroutines, the file, the broker and the market |
| `ArmLatch` | what the comments of `controller.go` and `arm_persistence.go` promise | the abstract latch with one durable bit, which `LiveEngine` implements |
| `LiveMirror` | `livemirror/mirror.go`, its wiring in `cmd/pre_live` | hooks, queue, worker, CloseAll, the venue's net position |
| `LedgerView` | what callers assume of `ledger_oms_reader.go` | the abstract ledger: a log that grows, answers that miss only what was late |
| `Ledger` | `ledger/mongo_store.go`, `ledger_oms_reader.go` | appends in three steps that may fail; the incremental reader; implements `LedgerView` |
| `PaperRecon` | `trading/loop.go`, `positions/manager.go`, `reconciliationv2` | extends `Ledger` with the desk that writes it and the cycle that compares the two and halts |
| `DeltaBridge` | `delta/live_bridge.go`, `live_position_custody.go`, the handlers of `institutional_request.go` | one goroutine a hook and an order, monitor, adoption sweep, CLOSE-ALL, restart, the venue's contracts |
| `PerpBridge` | `delta/perp_bridge.go`, `perp_bracket*.go`, persistence; `scalp_prelive/live.go` | entry, monitor and CLOSE-ALL on copies of the book, the file, Restore, a venue that nets |
| `MC*` | | the instances TLC checks |
| `*Proofs` | | the theorems |

**KillSwitch.** `memory` is the Service; `pc` and `call` are the goroutines
inside Trigger and Release, one step per stretch of code between which another
goroutine may run: the append, the assignment under the mutex, the executor. An
append stores, fails, or stores and reports an error. `phase` walks the boot
sequence (`restore`, `heal`, `release`, `gate`, `up`); calls exist only when it is
`up`, because `main.go` serves requests after it. A reason is one of four kinds,
exactly what the healer's text tests can tell apart; an escalation halt of
reconciliation, whose text carries no marker, is of kind `operator`. The initial
ledger may hold a halt on balance drift of an older version, which the hook no
longer raises. Stamps are distinct and increasing: a wall clock stepping back is not
in this module. The ledger is durable (MongoDB); with the in-memory fallback
nothing survives a restart, as the code logs.

**LiveEngine.** `mutex` is held across steps only where the code calls the broker
under it (`ArmFinish`, `RestoreFinish`); the other handlers are one step. The
monitor is a program counter with each unlocked read a step of its own: kill
switch, wallet, positions, judgement, flatten. `wallet` and `marks` are the two
broker quantities whose sum is the equity; `RecordFillOK` moves money between
them, `Market` revalues. `halted` is the kill switch as others see it, moved by
this module's `HaltBegin`, by anybody (`HaltElsewhere`), and chosen at boot.
`file` survives `Crash`. `halting` is a SetKillSwitch between its halt and its
disarm. `BridgeEndpoint` says whether the endpoint that drives the bridge past the
controller is used. Left out: the audit log, the read-only snapshots, the custody adoption
in the monitor's tick (it changes only the bridge), an operator's disarm with
no reason at all.

**ArmLatch.** `Arm` and `Armed` are the two ends of an Arm, `Bar` is the kill switch of
the engine's own page, `Resume` a restart that finds the kept bit set; `Boot` leaves the
switch as module KillSwitch decides. It has no file, mutex, monitor or copy: what those
add are the steps in which the latch does nothing.

**LiveMirror.** One contract per clone, one symbol. The worker's order is three
steps (`TakeOpen`, `EntryOrder` at the venue, `EntryAnswer`), so a lost answer
and a CloseAll in between are there; CloseAll is a second sender of orders with
its own program counter, one call at a time. `Conditions` says which of broker
errors, unfilled orders, crashes and CloseAll an instance has. An exit is checked by
the venue against the side it holds (`OnSide`), as reduce-only orders are. The client
reads neither the state nor the filled size of an order (`client.go:204-252`), so with
`"unfilled"` an order that is accepted fills any part of what it could (`Fills`) and
is answered as if it had filled: an entry is shown OPEN, an exit CLOSED, and CloseAll
counts its flattening order as done.

**LedgerView and Ledger.** The events are the opening and the closing of each
position, what the projection of positions tells apart. An append is stamped,
numbered and inserted, each a step; either call to the store may fail and the
event is lost. `Fresh` is the query of the incremental read, `Extended` the cache as
the projection sees it: events appended behind the cached ones, whatever their
stamp. The overflow of the cache answers with a full replay and forgets. The
mapping of the refinement is `log <- Stored`; `late` is the only freedom the
abstract reader has: events whose insert came more than an overlap after their
stamp.

**PaperRecon.** A position is opened in the manager, mapped by the loop, closed by
a tick that queues it, and processed by the loop; the events are emitted by
goroutines that `Ledger` interleaves. The loop leaves a position unmapped when its fill
has no client order id (`LeaveUnmapped`; `loop.go:1177`, though the paths of this
commit all set one). `Reset` is `Manager.Reset` under `POST /api/admin/reset`: it empties
the manager and emits nothing; its part in the database is one of the things that may
be lost by a restart, which brings back any part of the positions ever in the manager. A cycle is two steps: the ledger is read, then
the manager is read and compared by side, as `PositionDriftDetector` looks a
position up by symbol and side. Abstracted: one symbol; stored events with equal
stamps are `Tied`, since their numbers come in any order; other events of the
account may move the reader's cursor up to the present; a second closing of a
position changes nothing; a restart takes a unit of the clock; cycles within the
hook's grace period have no effect.

**DeltaBridge.** The paper engine is reduced to its two hooks, which may run in
any order, since each is a goroutine of its own. An entry is `sent`, `filled` at the
venue (or accepted and not filled), then recorded; any error makes its trade
FAILED, filled or not. An exit carries the copy of the trade it began with. The
monitor's copy and the sweep's sizes are state of their own, so either acts on what
is no longer so. A crash leaves the trades, and on the wire any part of the entries
sent. Long option buying, one contract an entry.

**PerpBridge.** `opener`, `monitor` and `closer` are the three goroutines, each
with its copies. A call is refused, filled, accepted and not filled, or filled
with its answer lost. The monitor reads any part of the products that are held with a
mark (`marked`), for an empty mark counts as zero (`client.go:420-425`) and a trade
without a mark is finished as one whose position is gone. `disk` is the file; `Restore` resumes the trades whose
product the venue holds and flattens the rest. `finish` deletes what its stream
holds, whichever trade that is, as the code does.

History variables (marked in the modules) are read by properties only:
`acted`, `owed`; `stopped`, `engineHalt`, `carried`; `exits`, `entered`, `short`; `late`,
`swapped`, `moved`, `strayed`; `lost`, `ghost`, `missed`; `stray`, `bare`, `sweep`.
In the last three modules they record the named cases in which the code
lets go of a contract or of a position: a property that mentions one says that there are no
other cases, and each of its cases is a defect of section 6.

## 3. The runs

| run | instance | shows |
|---|---|---|
| `ks_serial` | 2 callers, a Release alone, 3 stamps | `RecordedBeforeActing`, `AcknowledgedHaltHolds`, `HaltSurvivesRestart`, `ReleaseResumes`: with Triggers that overlap, any faults and crashes |
| `le_arm` | 2 rejects, 1 day, both halt sources, the bridge left to the controller | `ActsAsLatch` (the refinement), `StopIsOneWay`, `OnStateCanResume`, `HaltedEngineIsOff`, `RejectStreakStops`, `EffectorFollows`, `HaltReachesEngine` |
| `le_loss` | 2 days, equity 2, limit 1, failing saves, the enable endpoint | `BaselineCarried`, `LossStops` |
| `lm_all` | 3 clones, queue 2, 2 records, all conditions | `AtMostOneExit`, `OpenIsReachable`, `CloseAllFlattens` |
| `lm_rest` | 2 long clones and a short one, queue 1, no faults | `NetMatchesTrades`, `QueuedCloseRuns` |
| `rc_paper` | 2 positions, 2 sides, overlap 1, cache 2, clock 2 | `ReadsTheLog` (the refinement), `ReadInOrder`, `LedgerMatchesBook`, `HaltIsExplained`, `CalmCycleFindsDrift` |
| `db_live` | 2 papers of one strategy, 1 option, 2 exits at a time, 1 crash | `CustodyKept`, `ClaimsAreReal`, `OneTradePerStrategy`, `PaperExitReachesTrade`, `EndsForGood` |
| `pb_desk` | 2 trades to buy of one stream, 1 to sell of another, 1 product | `EveryContractOwned`, `LimitsHold`, `CloseAllLeavesOne`, `BracketKept`, `DiskIsBook` |
| `ks_race` | 2 callers, 2 stamps | refutes `HaltSurvivesRestart` |
| `le_race` | requests before the restore | refutes `StopIsOneWay` |
| `le_trapped` | an operator who keeps pressing CLOSE-ALL | refutes `HaltTrapsNothing` |
| `lm_early` | 1 clone | refutes `ClosedOnPaperIsFlat` |

`TypeOK` is checked by one run of each module.

Why the bounds are enough. Three stamps let a halt, its release and another
halt follow each other, or a halt, a release and the boot's own release; crashes
and boots are unbounded, so each may be cut anywhere. A limit of two rejects
has a streak that is begun, broken and completed; one would complete at once.
Two units of equity against a limit of one let the loss be reached by a fill
misread, by the market, and not reached. Two days have one midnight between a
baseline and its use; a second has the effect of the first. Three clones in two
records truncate one while two are live; a queue of two holds an open and its
close while an entry is under way, of one drops every second event. `le_loss`
has no halts and `le_arm` no second day, since the properties of each do
not read the other's state; both keep the crash, the file and the monitor.
In `rc_paper` four events exceed a cache of two, so it overflows and refills; a
clock of two has stamps inside and beyond an overlap of one; two positions are
the fewest that share or do not share a side. In `db_live` (3 million states) two
papers of one strategy compete for its place; two exits at a time are a paper
close against the monitor or CLOSE-ALL; one adopted trade beside two paper trades
is a contract claimed twice; one crash is what `lost` and `missed` speak of, and the
trades it leaves are also those of a second. In `pb_desk` (2.8 million states) a stream
with two trades lets a later one be finished in place of an earlier; the third sells
what the first bought; `MaxOpen = 2` is full with two of the three; one stream has a
switch that is moved (`Switchable`); crashes are unbounded.

Deadlock is checked in every run: a process that is down may boot, one that is up
may crash or be halted, a cloner's kill switch may always be toggled, a
reconciliation cycle may always begin or compare, the history of option trades may
always be cleared, and the perpetual desk may always crash or restore.

## 4. Fairness

*KillSwitch* (`FairAloneSpec`): `WF` on each caller's own steps. Go schedules a runnable goroutine
and every ledger call has a context with a deadline. Nothing is assumed of
callers, of crashes or of the boot; that a Release runs alone (`ReleasesAlone`) is a
hypothesis of the run, stated as such.

*LiveEngine*: `WF` on the monitor, the restore and the two handlers in progress.
Go's mutex hands over to starving waiters, and every broker call ends by the HTTP
client's timeout. Crashes, requests and the market owe nothing. `LossStops`
needs two more things. The balance must not be unreadable at every tick for
ever (`ReadableSpec`: strong fairness of `MonitorReads`), since the code skips
the breaker without it. And the fills must come to an end: a premium paid
between the wallet and the positions call is counted in both and hides a loss,
so the claim is for behaviours in which fills stop at some time
(`<>[][~RecordFillOK]_vars`). A single good tick then disarms.

*PanicSpec* (for the refutation `le_trapped`) adds the strongest help one could
give: an operator who never stops pressing, and a broker that fills whenever
it is asked. It still fails.

*LiveMirror*: `WF` on the worker loop and on a CloseAll in progress; each of
their orders has a timeout.

*Ledger, PaperRecon, DeltaBridge, PerpBridge*: safety only, without fairness. What
must happen in them at last does not always happen: a failed exit of the option
bridge is final, and that of the perpetual desk is tried again at the next tick of
a market that owes nothing.

## 5. The proofs

All theorems are about every value of the constants: any set of callers and
positions, any threshold, any queue and record size, any combination of
conditions. The assumptions on constants are those in the modules
(`MaxStampAssumption`, `LiveEngineAssumption`, `LiveMirrorAssumption`,
`LedgerAssumption`, `DeltaBridgeAssumption`, `PerpBridgeAssumption`).

**KillSwitchProofs.** `TypeCorrect`. `WriteAhead` (`RecordedBeforeActing`) holds
with any overlap of calls: `WriteAheadInv` adds that a call past its append
carries a TRIGGERED event the ledger has. `AcknowledgedHalt` and
`RestartKeepsHalt` are about `AloneSpec`: any number of triggers overlap, and
only a release runs alone, which `ks_race` shows to be needed for the second. Their
invariant `AloneInv` says that the replay ends with an event of the ledger
(`HasLatest`), that a trigger in progress is stamped after every release on record
(`SinceReleases`), that an owed halt is what the replay would restore, and that an
active one is too or a release is about to clear it. Of two triggers that append out of
order the later stamp decides, so no more can be said of the latest event than that it
is a trigger: the lemmas `TriggerOnRecordHalts` and `AppendLatest`.

**LiveEngineProofs.** `TypeCorrect`. `HaltKeepsOff` (`HaltedEngineIsOff`):
inductive as it stands, because `ArmBegin` and `RestoreResume` ask the switch in
the step in which they arm; the actions that touch `armed`, `halted` or
`engineHalt` are treated one by one and a lemma covers the rest.
`RejectStreak` (`RejectStreakStops`): arming resets the streak and the
threshold disarms. `OneWay` (`StopIsOneWay`) assumes `Dependable`: no failing
save and no request before the restore has ended. `OneWayInv` says that a
stopped engine is off in memory, in the file and in the restore's copy
(`StoppedEverywhere`) and that nobody arms ahead of the restore
(`RestoreFirst`): without the second the restore could hold a copy made before
a stop. `SavedStateResumes` (`OnStateCanResume`) assumes that no request precedes
the restore; its `ResumeInv` adds that an armed engine has a reason left over only
while an Arm is under way, and none before the restore has ended (`ReasonCleared`). `BaselineIsCarried` (`BaselineCarried`) needs no assumption:
`BaselineInv` says that no baseline is dated after today (`Dated`), and that while a
baseline that was on disk at the crash is still of today (`Owed`), every state that
could resume holds exactly that one: a file that says ON, the restore's copy, the
memory of an armed engine (`HoldsOwed`). `BridgeFollows` (`EffectorFollows`) assumes
only that nobody posts to the enable endpoint; its `EffectorInv` adds that the mutex is
held across a wallet read by an armed engine, and that no engine is armed without keys.

`ControllerIsLatch` is the refinement of `ArmLatch`, under `Dependable`. The states of
the latch are those of `armed`, but `ARMING` while an Arm reads the wallet: its ON is not
yet saved, and a crash there loses it with nobody having been told. The kept bit is that of
the file. The invariant `ControlInv` adds `LatchInv` to those above: the file says ON
whenever the engine is, and as long as a restore that read it has neither resumed nor
refused. So each save of an ON after the first (heartbeat, end of the restore) is a
stutter, each disarm is the `Stop` of the latch, and what the restore resumes is the kept
bit. `LatchKeepsWord` proves what the latch is for from the latch alone, and
carries it over to the controller.

**LiveMirrorProofs.** `TypeCorrect`. `ExitOnce` (`AtMostOneExit`) and
`NoLostMapping` (`OpenIsReachable`) from one invariant, `StageInv`: a position has
one open event, in the hook or in the queue but not in both (`OneOpenEvent`);
waiting, tracked, being exited and exited exclude one another (`OneStage`);
and a clone that is OPEN or being entered is mapped (`KeepsMapping`). Neither
property is inductive alone: that a clone is exited once rests on its being
entered once. `FlatMeansFlat` (`CloseAllFlattens`) from `FlatInv`: between CloseAll's
reading of the position and its flattening order, and with no entry since, the
position lies between zero and what was read, on the same side (`Within`), because an
exit is filled only against its side, in part or whole, and never through zero. So a
flattening order that fills leaves nothing; that it filled less though it was accepted is
what `short` records, and the only such order the property excepts: the exits of the
clones may fill nothing at all. `MirrorIsExact`
(`NetMatchesTrades`) assumes `Calm`: no faults, so that every accepted order fills, and
no record truncated. Its
`CountInv` says that the position is the balance of the clones that are open, just
filled, or FAILED because the venue rejected their exit (`Live`), that an exit fails only
against a clone of the other side (`FailsOpposed`: a set of clones on one side leans to
it, `BalanceLeans`), that a clone has at most one record and none before the worker took
its open event (`RecordInv`), and what that record says at each step of the worker
(`WorkerInv`); without the last two the position could not follow the trades shown.

**LedgerProofs.** `ReaderReadsTheLog` is the refinement: `LedgerSpec => Log!Spec`. Its
invariant `ViewInv` holds `Caught`: an event that is stored, was not late and is not
in the cache carries a stamp within the overlap of the cursor, so the next query
returns it. That answers are never forgotten rests on the last one
being in the cache, as long as there is one. `AnswersAreInOrder` (`ReadInOrder`) from `OrderInv`, which
follows the last applied event of a position through the cache. `LedgerTypes` is the type invariant.

**PaperReconProofs.** `DeskImplementsLedger`: every step of the desk and of a cycle is a
step of `Ledger` or a stutter, so that `DeskReadsTheLog` and `DeskReadsInOrder`
follow from the theorems of `LedgerProofs`. `DeskTypes`. `LedgerTellsTheBook`
(`LedgerMatchesBook`) from `DeskInv`, which says for each position how far its two
events may be at each stage of its life (`Course`), and, if it did not stray, that
each event was emitted once, when it was due (`Straight`). `HaltsAreExplained` and
`CalmCyclesFindDrift` are action properties; both rest on `ReadExact`: while nothing
moves under a cycle, what it read of a position is what a full replay tells, or the
position is one it may misread.

**PerpBridgeProofs.** `TypeCorrect`; `FileIsBook` (`DiskIsBook`) from `FileInv`;
`LimitsAlwaysHold` (`LimitsHold`) from `LimitInv`, which counts the entry under way
with the book and holds of the file too, so that a restore cannot exceed a cap;
`CloseAllFlattens` (`CloseAllLeavesOne`) from `SweepInv`: until CLOSE-ALL ends, what is
open is on its list, being finished, or was under way; `BracketsAreKept`
(`BracketKept`) from `BracketInv` and `FreshInv` (nobody holds a pointer to a trade
that has not begun). `ContractsAreOwned` (`EveryContractOwned`) from `OwnInv`, which
counts contracts against the trades of the product that are `Sure` to own one: a trade
whose exit was filled and is not yet finished no longer counts, and neither does one
that the monitor saw to be flat, because both are about to leave the book without a
further order. A trade that leaves the book for want of a mark had not been seen flat,
and its product is `stray` from then on. It holds of the file while the process is down and, while Restore runs, of
the products it has not listed as orphans. It needs `LimitInv` (booking an entry
replaces nobody) and `ApartInv` (an entry is on no list made before it).

**DeltaBridgeProofs.** `TypeCorrect` (inductive together with `SoldNamed`: an exit that
sold has a product); `CustodyIsKept`, `OneTradeEach`, `PaperExitsReachTrades` and
`TradesEndForGood` from `IInv`. Its part `CustodyInv` says that a paper that has not
opened has no trade (`Unopened`), that a trade has no product while its entry is
under way, and counts as lost unless it is open (`EntryOpen`), that only trades of
settled options expire (`EndsExpired`), and that a contract held is known, about to
be recorded, or lost (`Held`); `ExitInv` that a paper exit overtook its opening only
where `missed` says so. `ClaimsReal` (`ClaimsAreReal`) from `ClaimInv`, which counts a
contract for its trade from the fill on, before it is recorded (`Lots`), so that the
record changes no count, and says that an exit's copy of an open trade is as the trade
is now once it names a product (`CopyInv`), so that a sale takes off what its trade
claims. The claims are a set of numbered contracts: their number needs no sum.

Only model-checked: the liveness properties (`ReleaseResumes`,
`HaltReachesEngine`, `LossStops`, `QueuedCloseRuns`), which are out of the
prover's reach. Every other property of the passing runs is a theorem.

## 6. Where code and comments disagree

The four refuted statements are in `PROJECT.json` under findings:

1. *"kill switch ... state will survive restarts"* (`main.go:990, 1004`): not when
   a Release overlaps a Trigger (`ks_race`).
2. *"auto-disarm is one-way"* (`arm_persistence.go:21`): not when OFF is pressed
   between the restore's read of the file and its lock (`le_race`).
3. *"an active kill switch must never trap an open position"*
   (`execution_guard.go:46-47`, `live_bridge.go:878`): the gate blocks closes
   before the guard sees them (`le_trapped`).
4. *"Closes are enqueued even while disarmed so positions opened ... still get
   flattened"* (`mirror.go:260-261`): not before the worker took the open
   (`lm_early`).

More were met while modelling. Each fails in the model with the formula given,
which may be added to the module and to a cfg as an invariant or a property:

| statement | formula that fails |
|---|---|
| the healer lifts only OMS_DESYNC halts (`service.go:112-116`); an operator's text that quotes a mismatch is lifted too | `phase = "release" => IsOMSDesync(reason)` in KillSwitch |
| "the switch never self-releases" (`service.go:305`); the boot releases | `[][phase # "up" /\ active /\ phase' # "down" => active']_vars` in KillSwitch |
| "an armed engine must never sit behind an active halt" (`controller.go:410`); it does until the monitor's next tick | `~(armed /\ mutex = "free" /\ halted)` in LiveEngine |
| the daily stop "cannot be reset by restarting" (`arm_persistence.go:32-33`); a baseline set at midnight is in no file until the heartbeat, and a failed save is in none | `BaselineCarried` without `carried.onDisk` |
| "auto-disarm is one-way", again; a failed save leaves ON in the file | `StopIsOneWay` with `SavesMayFail = TRUE` |
| the controller alone enables the effector; `/api/delta-live/enable` (`main.go:2016`) does too | `EffectorFollows` with `BridgeEndpoint = TRUE` |
| "a restart cannot resurrect a stopped engine" (`controller.go:309`); a human's halt is no stop of an engine that is OFF: after a restore refused for a halt the file still says ON, and once the switch is pressed and released the next restart resumes | `~(engineHalt /\ file.armed)` in LiveEngine |
| "disarm + flatten" (`liveengine_wiring.go:777`); a flatten that failed is not tried again | `(monitor = "flatten") ~> (marks = 0 \/ ~up)` under FairSpec |
| the breaker uses "TRUE equity" (`liveengine_wiring.go:778`); the baseline of Arm is the bare balance | `[][mutex = "arm" /\ mutex' = "free" /\ base'.known => base'.eq = Equity]_vars` |
| with the kill check failing "no broker order is placed" (`mirror.go:199-200`); closes are | `[][halted => exits' = exits]_vars` in LiveMirror |
| "mirrored 1:1" (`pre_live/main.go:407`); a long and a short net out and their exits are rejected | `NetMatchesTrades` with `Held` the OPEN trades only |
| CloseAll covers every clone and "any residual" position (`mirror.go:469-470`); an order accepted and not filled counts as flattened | `CloseAllFlattens` without `~short` |
| a clone shown OPEN or CLOSED is so at the venue (`mirror.go:388-406, 448-466`); the order may have filled nothing | `NetMatchesTrades` with `"unfilled"` in `Conditions` |

The last three modules name the cases in which the code lets go of what it holds;
with a case struck out of its property, TLC gives the trace. Of the ledger and
reconciliation (`Ledger`, `PaperRecon`):

| statement | what the code does; the disjunct that is needed |
|---|---|
| "only" failures of integrity halt (`killswitch_hook.go:92-94`), critical ones | any mismatch of a position halts, whatever its severity (`killswitch_hook.go:62-88`); two positions on one side are a duplicate and halt (`Stacked(Open)`) |
| the same | the ledger is read before the manager, and the events are appended later: a position opened or closed in between halts (`moved`, `UnderWay`) |
| "authoritative history of every closed position" (`loop.go:2624`) | a lost append is only logged (`pc = "lost"`); a position that closes before it is mapped, across a crash or at a reset of the account, or whose fill had no client order id, stays wrong in the ledger (`strayed`); equal stamps are replayed in the order of numbers that goroutines drew (`Tied`) |
| events "never missed" (`ledger_oms_reader.go:25-27`) | an insert more than the overlap after its stamp is missed until the cache overflows or the process restarts (`late`) |
| a divergence is found | not while another position on its side stands for it (`Masked`) |

The projections that a repair rebuilds are discarded, and the order events of the
orchestrator (`loop.go:687-702`) carry no account, so that the account replay never
returns them; the Delta authority (`wiring.go:93-110`) compares a paper OMS with the
real account. These three are not in the model.

Of the option bridge (`DeltaBridge`):

| statement | what the code does; the disjunct that is needed |
|---|---|
| an open contract is never forgotten (`live_position_custody.go:15-27`) | adoption passes over a product that no trade on record names: a paper close during the entry fails the trade, and the late fill is not recorded; an entry whose answer is lost, or whose ledger append fails, is FAILED with no product; a crash falls between the fill and its record; ClearHistory drops FAILED trades with their products (`lost`) |
| a trade stands for its contract | an accepted order that fills nothing counts as a fill; two exits sell for one trade; a sweep adopts what it read before it changed, or an entry not yet recorded; an adopted trade has no expiry and stays OPEN after settlement (`ghost`) |
| a paper exit closes the live trade (`live_bridge.go:801-804`) | not when its goroutine overtakes that of the opening, nor across a crash (`missed`) |
| a CLOSED trade is closed (`live_bridge.go:291-295`) | a second exit under way turns it to FAILED (`Copied`) |
| one position a strategy (`live_bridge.go:737-745`) | true of trades, not of contracts: a FAILED exit leaves the contract and frees the place |

Of the perpetual desk (`PerpBridge`):

| statement | what the code does; the disjunct that is needed |
|---|---|
| a position is owned until it exits (`perp_bridge.go:602-605`) | the monitor reads the venue before it copies the book: a trade opened between is taken for vanished and dropped; so is a held one whose mark is empty or zero (`perp_bridge.go:678`); a trade finished twice, by monitor and CLOSE-ALL, deletes the newer trade of its stream; an entry whose answer is lost has no owner until a restart; an accepted exit that filled nothing is booked (`stray`) |
| no cancel strips another trade's protection (`perp_bracket_cleanup.go:84-86`) | it strips that of an entry not yet booked (`bare`) |
| CLOSE-ALL flattens (`perp_bridge.go:705-708`) | the entry under way survives it (`carried`), and its brackets are left at the venue |
| a restart finds its positions (`perp_persistence.go`) | it compares products, not sizes; a long and a short of two streams net, and the exit of either is refused as reduce-only |

`SetKillSwitch` of the perpetual desk (`perp_bridge.go:254`) is wired by no command.

Closing while halted, or self-release of a false positive, may well be what is
wanted: it is the wording that does not say so.

## 7. What is left out

Prices, sizes, fees and P&L; strategies and scoring; HTTP parsing and
authorisation; logs and audit trails; the web client. They are pure data or
presentation to the properties above. High availability has no caller; snapshots and
bootstrap of the ledger have none either. The other components of section 1
marked `not_modelled` or `partly` in `PROJECT.json` are in the plan below or are
numeric: strategies, research, backtests and option pricing are the greater part
of the lines, and hold no state that two actors share.

Within the modelled parts. *KillSwitch*: `SetEnabled` after boot and `ResetForTest`
(no caller); a clock that steps back. *LiveMirror*: several symbols and sizes; two
CloseAll calls at once; an order carried out by the venue after its answer was
given up. *Ledger*: the memory store, idempotency keys, events of
orders and fills. *PaperRecon*: several symbols, partial closes, the other domains
of reconciliation; identifiers that repeat (`genID` counts from one again after a reset,
so two positions of one second of the day may share one). *DeltaBridge*: the mode that sells options; the truncation to 500
trades; saves that fail; `LIVE_ADOPT_UNKNOWN`, off by default; the enable flag and the
kill switch, which only add refusals that the model has for other reasons.
*PerpBridge*: saves that fail, which are logged; the number of grid refusals in a
row; two CLOSE-ALL calls at once; the record of closed trades.

## 8. The plan

Written, in this order: `KillSwitch`, because every order path asks it;
`LiveEngine` with the `ArmLatch` it implements, because it arms real money; `LiveMirror`, because it sends real
orders from a queue; `Ledger` with its abstract `LedgerView` and `PaperRecon` on top,
because a wrong comparison halts trading and a missed one hides a loss; `PerpBridge`
and `DeltaBridge`, because they hold real contracts.

Next, in order of what can hurt most:

1. `PositionManager` with `CloseQueue`: the limit checked and taken in two locked
   sections (`manager.go:134`), an enqueue that blocks under the manager's lock
   (`close_queue.go:38`), identifiers after a restore (`manager.go:444`); then the
   paper books of `LiveMirror` and `PaperRecon` as its abstraction.
2. The option bridge in its selling mode, with the enable flag composed with
   `LiveEngine`'s effector: a disarm that races an order already submitted
   (`live_bridge.go:663-667`: the guard asks the kill switch only).
3. Several sizes in `LiveMirror` and `PerpBridge`: partial fills and exits.
4. `KillSwitch`'s ledger steps as a client of `LedgerView`; an unreadable ledger at
   boot (`service.go:214`); one unique index across the types of aggregates
   (`mongo_store.go:142`).
5. `PaperOMS` recovery and its reset of sequences (`paper_oms.go:606`).
