------------------------------ MODULE KillSwitch ------------------------------
(***************************************************************************)
(* The institutional kill switch: engine/internal/killswitch/service.go,   *)
(* with the boot sequence that main.go drives it through.                  *)
(*                                                                         *)
(* The switch is an in-memory flag (active, reason) backed by an event     *)
(* ledger.  Trigger and Release hold the mutex only for the final          *)
(* assignment: the ledger append happens before it, outside the lock, so   *)
(* calls made by different goroutines (HTTP handlers, the reconciliation   *)
(* hook) interleave between the two.  The process may crash between any    *)
(* two steps; the ledger survives and is replayed at the next boot.        *)
(*                                                                         *)
(* An append has three outcomes: stored, failed, or stored although the    *)
(* caller is told it failed (its context expired first).                   *)
(***************************************************************************)
EXTENDS Naturals

CONSTANTS Callers,   \* goroutines that call Trigger and Release
          MaxStamp   \* bound: no call begins once the clock has reached it

ASSUME MaxStampAssumption == MaxStamp \in Nat

\* What the halt is about, which is all that the text of a reason decides:
\* a halt that quotes no reconciliation mismatch, a reconciliation halt naming a
\* position mismatch, a reconciliation halt naming only balance drift, and an
\* operator halt whose free text quotes a reconciliation position mismatch.
Kinds == {"operator", "position_drift", "balance_drift", "operator_quote"}

\* The reconciliation hook no longer halts on balance drift; ledgers hold such
\* halts from the days when it did.
RaisedKinds == Kinds \ {"balance_drift"}

NoKind == "none"

\* Trigger.OMS_DESYNC is the trigger code of the reconciliation halts only.
IsOMSDesync(kind) == kind \in {"position_drift", "balance_drift"}

\* shouldAutoReleaseReconFalsePositive reads only the reason text, never the
\* trigger code.
ShouldAutoRelease(kind) == kind \in Kinds \ {"operator"}

IsBalanceDriftOnly(kind) == kind = "balance_drift"

VARIABLES
  enabled,     \* Service.enabled, read from the environment at boot
  active,      \* Service.active
  reason,      \* the kind behind Service.reason
  reconciler,  \* whether main.go wired Service.reconciler in this boot
  phase,       \* where the process is in its life
  pc,          \* where each caller is inside Trigger or Release
  call,        \* the ledger event each caller is working on
  ledger,      \* the durable events
  clock,       \* the last CreatedAt handed out
  acted,       \* history: activations whose executor actions have run
  owed         \* history: a halt was acknowledged and nobody asked to lift it

memory == <<enabled, active, reason, reconciler>>
vars == <<memory, phase, pc, call, ledger, clock, acted, owed>>

Phases == {"down", "restore", "heal", "release", "gate", "up"}
Steps == {"idle", "append", "activate", "execute", "relAppend", "relClear"}
Event == [type : {"TRIGGERED", "RELEASED"}, kind : Kinds \cup {NoKind}, at : Nat]

NoEvent == [type |-> "RELEASED", kind |-> NoKind, at |-> 0]
OldHalt == [type |-> "TRIGGERED", kind |-> "balance_drift", at |-> 0]

TypeOK ==
  /\ enabled \in BOOLEAN /\ active \in BOOLEAN /\ reconciler \in BOOLEAN
  /\ reason \in Kinds \cup {NoKind}
  /\ phase \in Phases
  /\ pc \in [Callers -> Steps]
  /\ call \in [Callers -> Event]
  /\ ledger \in SUBSET Event
  /\ clock \in Nat
  /\ acted \in SUBSET Event
  /\ owed \in BOOLEAN

-----------------------------------------------------------------------------
\* NewEvent stamps CreatedAt when the event is built, before it is appended.
NewEvent(type, kind) == [type |-> type, kind |-> kind, at |-> clock + 1]

\* Mutant of IsLatest: the oldest event decides.
IsOldest(e) == e \in ledger /\ \A f \in ledger : e.at <= f.at

\* ReplayAccount returns the events in CreatedAt order, and the replay loop
\* overwrites its state on each one: only the latest event decides.
IsLatest(e) == e \in ledger /\ \A f \in ledger : f.at <= e.at

HaltedBy(kind) == \E e \in ledger : IsLatest(e) /\ e.type = "TRIGGERED" /\ e.kind = kind

RestoredHalt == \E kind \in Kinds : HaltedBy(kind)

\* The ledger after an append of e that may fail or lose its acknowledgement.
MayStore(e) == ledger' \in {ledger, ledger \cup {e}}

Goto(c, step) == pc' = [pc EXCEPT ![c] = step] /\ call' = call

Return(c) == pc' = [pc EXCEPT ![c] = "idle"] /\ call' = [call EXCEPT ![c] = NoEvent]

Start(c, step, e) == pc' = [pc EXCEPT ![c] = step] /\ call' = [call EXCEPT ![c] = e]

\* Mutant of Clear: the reason is left behind as a word of its own.
ClearWithWord == active' = FALSE /\ reason' = "released"

Clear == active' = FALSE /\ reason' = NoKind

-----------------------------------------------------------------------------
\* Trigger: an enabled switch builds the activation and its event.  (A
\* disabled one ignores the call, which changes nothing.)
TriggerBegin(c, kind) ==
  /\ phase = "up" /\ pc[c] = "idle" /\ clock < MaxStamp
  /\ enabled
  /\ Start(c, "append", NewEvent("TRIGGERED", kind))
  /\ clock' = clock + 1
  /\ UNCHANGED <<memory, phase, ledger, acted, owed>>

\* Mutant of TriggerAppend: a failed append is logged and the trigger goes on.
TriggerAppendIgnoringErrors(c) ==
  /\ pc[c] = "append"
  /\ MayStore(call[c])
  /\ Goto(c, "activate")
  /\ UNCHANGED <<memory, phase, clock, acted, owed>>

\* persist: on an error, even one reported for a stored event, Trigger returns
\* without activating anything.
TriggerAppend(c) ==
  /\ pc[c] = "append"
  /\ \/ ledger' = ledger \cup {call[c]} /\ Goto(c, "activate")
     \/ MayStore(call[c]) /\ Return(c)
  /\ UNCHANGED <<memory, phase, clock, acted, owed>>

Activate(c) ==
  /\ pc[c] = "activate"
  /\ active' = TRUE
  /\ reason' = call[c].kind
  /\ owed' = TRUE
  /\ Goto(c, "execute")
  /\ UNCHANGED <<enabled, reconciler, phase, ledger, clock, acted>>

\* The executor's cancel, flatten and alert actions run outside the lock; an
\* error from one of them skips the rest and leaves the switch active.
Execute(c) ==
  /\ pc[c] = "execute"
  /\ acted' = acted \cup {call[c]}
  /\ Return(c)
  /\ UNCHANGED <<memory, phase, ledger, clock, owed>>

\* Release: callable at any time, on an active switch or not.
ReleaseBegin(c) ==
  /\ phase = "up" /\ pc[c] = "idle" /\ clock < MaxStamp
  /\ Start(c, "relAppend", NewEvent("RELEASED", NoKind))
  /\ clock' = clock + 1
  /\ owed' = FALSE
  /\ UNCHANGED <<memory, phase, ledger, acted>>

\* Mutant of ReleaseAppend: a failed append ends the release.
ReleaseAppendStopping(c) ==
  /\ pc[c] = "relAppend"
  /\ \/ ledger' = ledger \cup {call[c]} /\ Goto(c, "relClear")
     \/ MayStore(call[c]) /\ Return(c)
  /\ UNCHANGED <<memory, phase, clock, acted, owed>>

\* A failed append is logged and the release goes on.
ReleaseAppend(c) ==
  /\ pc[c] = "relAppend"
  /\ MayStore(call[c])
  /\ Goto(c, "relClear")
  /\ UNCHANGED <<memory, phase, clock, acted, owed>>

ReleaseClear(c) ==
  /\ pc[c] = "relClear"
  /\ Clear
  /\ Return(c)
  /\ UNCHANGED <<enabled, reconciler, phase, ledger, clock, acted, owed>>

-----------------------------------------------------------------------------
\* The process dies: memory and every call in progress are gone.
Crash ==
  /\ phase # "down"
  /\ phase' = "down"
  /\ pc' = [c \in Callers |-> "idle"] /\ call' = [c \in Callers |-> NoEvent]
  /\ Clear
  /\ UNCHANGED <<enabled, reconciler, ledger, clock, acted, owed>>

\* main.go constructs the service and wires the reconciler if MongoDB is up.
Boot ==
  /\ phase = "down"
  /\ phase' = "restore"
  /\ enabled' \in BOOLEAN
  /\ reconciler' \in BOOLEAN
  /\ UNCHANGED <<active, reason, pc, call, ledger, clock, acted, owed>>

\* RestoreStateOnStartup when the ledger cannot be read: start normally.
RestoreUnreadable ==
  /\ phase = "restore"
  /\ phase' = "gate"
  /\ owed' = FALSE
  /\ UNCHANGED <<memory, pc, call, ledger, clock, acted>>

\* RestoreFromLedger: take over the replayed state; a halt that reads like a
\* reconciliation false positive goes to the startup healer.
RestoreFromLedger ==
  /\ phase = "restore"
  /\ \/ \E kind \in Kinds :
          /\ HaltedBy(kind)
          /\ active' = TRUE
          /\ reason' = kind
          /\ phase' = IF ShouldAutoRelease(kind) THEN "heal" ELSE "gate"
     \/ /\ ~RestoredHalt
        /\ Clear
        /\ phase' = "gate"
  /\ UNCHANGED <<enabled, reconciler, pc, call, ledger, clock, acted, owed>>

\* The healer's reconciliation check: an error or a mismatch keeps the halt.
\* It is skipped for other trigger codes, for balance drift, and when no
\* reconciler is wired.
HealerCheck(clean) ==
  /\ phase = "heal"
  /\ LET mustCheck == IsOMSDesync(reason) /\ reconciler /\ ~IsBalanceDriftOnly(reason)
     IN phase' = IF mustCheck /\ ~clean THEN "gate" ELSE "release"
  /\ UNCHANGED <<memory, pc, call, ledger, clock, acted, owed>>

\* Release by the boot sequence itself, which runs before any caller exists:
\* append (or fail to), then clear.
BootRelease(next) ==
  /\ \/ ledger' = ledger /\ clock' = clock
     \/ ledger' = ledger \cup {NewEvent("RELEASED", NoKind)} /\ clock' = clock + 1
  /\ Clear
  /\ owed' = FALSE
  /\ phase' = next
  /\ UNCHANGED <<enabled, reconciler, pc, call, acted>>

HealerRelease == phase = "release" /\ BootRelease("gate")

\* A switch disabled by the environment releases whatever was restored
\* (DisableAndRelease); then the engine starts taking calls.
OpenGate ==
  /\ phase = "gate"
  /\ \/ ~enabled /\ active /\ BootRelease("up")
     \/ (enabled \/ ~active) /\ phase' = "up"
        /\ UNCHANGED <<memory, pc, call, ledger, clock, acted, owed>>

-----------------------------------------------------------------------------
Init ==
  /\ enabled = FALSE /\ active = FALSE /\ reason = NoKind /\ reconciler = FALSE
  /\ phase = "down"
  /\ pc = [c \in Callers |-> "idle"]
  /\ call = [c \in Callers |-> NoEvent]
  /\ ledger \in {{}, {OldHalt}}
  /\ clock = 0
  /\ acted = {}
  /\ owed = FALSE

CallStep(c) ==
  \/ TriggerAppend(c) \/ Activate(c) \/ Execute(c)
  \/ ReleaseAppend(c) \/ ReleaseClear(c)

CallBegin(c) == (\E kind \in RaisedKinds : TriggerBegin(c, kind)) \/ ReleaseBegin(c)

BootStep ==
  \/ RestoreUnreadable \/ RestoreFromLedger
  \/ \E clean \in BOOLEAN : HealerCheck(clean)
  \/ HealerRelease \/ OpenGate

Next ==
  \/ \E c \in Callers : CallBegin(c) \/ CallStep(c)
  \/ Crash \/ Boot \/ BootStep

Spec == Init /\ [][Next]_vars

\* No other call is in progress beside a Release; Triggers may overlap.
ReleasesAlone ==
  \A c, d \in Callers :
    pc[c] \in {"relAppend", "relClear"} /\ pc[d] # "idle" => c = d

AloneSpec == Init /\ [][Next /\ ReleasesAlone']_vars

\* A goroutine inside Trigger or Release is scheduled until it returns: every
\* ledger call it makes is bounded by a context.
FairAloneSpec == AloneSpec /\ \A c \in Callers : WF_vars(CallStep(c))

-----------------------------------------------------------------------------
(* Properties.                                                             *)

\* The write-ahead rule of Trigger (service.go:268-301): the switch is never
\* active for a reason, and no emergency action has run for an activation,
\* that the ledger does not hold.
RecordedBeforeActing ==
  /\ acted \subseteq ledger
  /\ active => \E e \in ledger : e.type = "TRIGGERED" /\ e.kind = reason

\* A halt that Trigger acknowledged holds on a running engine, through failed
\* appends, lost acknowledgements and any number of crashes and restarts,
\* until somebody asks for its release, the startup healer lifts it, the
\* switch is disabled, or the ledger cannot be read at a boot.  It fails when a Release
\* is in progress beside a Trigger, which may then be cleared by it.
AcknowledgedHaltHolds == phase = "up" /\ owed => active

\* What main.go:990 and 1004 say of a durable ledger: the kill switch state
\* survives a restart.  A halt in force while no call is in progress is one the
\* replay of the ledger would restore.  It fails when a Trigger and a Release overlap.
HaltSurvivesRestart ==
  phase = "up" /\ active /\ (\A c \in Callers : pc[c] = "idle") => RestoredHalt

\* A release that has begun clears the halt even when the ledger write fails
\* (service.go:308-310), unless the process dies first.
ReleaseResumes == \A c \in Callers : pc[c] = "relAppend" ~> (~active \/ phase = "down")

=============================================================================
