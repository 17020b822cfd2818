------------------------------ MODULE LiveMirror ------------------------------
(***************************************************************************)
(* The trade cloner of the Pre-Live engine: internal/livemirror/mirror.go, *)
(* as cmd/pre_live/main.go wires it to the paper position manager.         *)
(*                                                                         *)
(* The hooks of the position manager only enqueue events in a bounded      *)
(* channel, or drop them when it is full.  One worker goroutine takes them *)
(* and sends the orders; CloseAll, in an HTTP handler, sends orders of its *)
(* own beside it.  The venue keeps one net position for the symbol, and a  *)
(* reduce-only order is rejected when there is nothing on its side.  An    *)
(* order may be accepted and fill nothing: the client reads neither its    *)
(* state nor its filled size, and the mirror takes the answer for a fill.  *)
(* Every clone is one contract.  A crash loses everything but the venue's  *)
(* position: cmd/pre_live never restores its paper book either.            *)
(***************************************************************************)
EXTENDS Integers, Sequences, FiniteSets

CONSTANTS Ids,         \* paper positions; each opens once
          Shorts,      \* the ones that sell
          QueueSize,   \* capacity of the event channel
          MaxRecords,  \* trades the mirror remembers
          Conditions   \* what happens in this environment

ASSUME LiveMirrorAssumption ==
  /\ IsFiniteSet(Ids) /\ Shorts \subseteq Ids
  /\ QueueSize \in Nat /\ MaxRecords \in Nat \ {0}
  /\ Conditions \subseteq {"broker_error", "unfilled", "crash", "close_all"}

VARIABLES
  paper,    \* the paper book
  hook,     \* opens whose OnOpen hook has not run yet
  enabled,  \* Mirror.enabled
  halted,   \* what killCheck answers
  queue,    \* Mirror.events
  records,  \* Mirror.trades, newest first, by the paper position cloned
  status,   \* their status; "none" when there is no record
  tracked,  \* the keys of Mirror.byPaperID
  worker,   \* where the worker goroutine is, and on which event
  closer,   \* where a CloseAll call is
  todo,     \* the open trades CloseAll still has to visit
  seen,     \* the residual position CloseAll read
  net,      \* the venue's position
  exits,    \* history: exit orders sent for each clone
  entered,  \* history: an entry has filled since the last CloseAll began
  short     \* history: its flattening order was accepted and filled in part, or not at all

memory == <<queue, records, status, tracked, worker, closer, todo, seen>>
vars == <<paper, hook, enabled, halted, memory, net, exits, entered, short>>

Event == {"open", "close"} \X Ids
Nobody == [pc |-> "idle", id |-> "none"]

TypeOK ==
  /\ paper \in [Ids -> {"none", "open", "closed"}]
  /\ hook \subseteq Ids /\ tracked \subseteq Ids /\ todo \subseteq Ids
  /\ enabled \in BOOLEAN /\ halted \in BOOLEAN /\ entered \in BOOLEAN /\ short \in BOOLEAN
  /\ queue \in Seq(Event) /\ Len(queue) <= QueueSize
  /\ records \in Seq(Ids) /\ Len(records) <= MaxRecords
  /\ status \in [Ids -> {"none", "PENDING", "OPEN", "CLOSED", "FAILED"}]
  /\ worker \in [pc : {"idle", "entry", "filled", "failed", "exit"}, id : Ids \cup {"none"}]
  /\ closer \in [pc : {"idle", "list", "exit", "flatten", "flat"}, id : Ids \cup {"none"}]
  /\ net \in Int /\ seen \in Int
  /\ exits \in [Ids -> Nat]

-----------------------------------------------------------------------------
Sign(id) == IF id \in Shorts THEN -1 ELSE 1

\* Mutant of Kept: one trade too many.
KeptOneMore(id) == <<id>> \o (IF Len(records) <= MaxRecords THEN records
                              ELSE SubSeq(records, 1, MaxRecords))

\* prependTrade drops the oldest trades beyond maxRecords, whatever their status.
Kept(id) == <<id>> \o (IF Len(records) < MaxRecords THEN records
                       ELSE SubSeq(records, 1, MaxRecords - 1))

Record(id, st) ==
  /\ records' = Kept(id)
  /\ status' = [i \in Ids |-> IF i = id THEN st
                              ELSE IF \E k \in DOMAIN Kept(id) : Kept(id)[k] = i
                              THEN status[i] ELSE "none"]

\* Mutant of Update: only a trade that waits for its first answer is updated.
UpdateOnce(id, st) == status' = [status EXCEPT ![id] = IF @ = "PENDING" THEN st ELSE @]

\* updateTrade: no effect on a trade that is no longer recorded.
Update(id, st) == status' = [status EXCEPT ![id] = IF @ = "none" THEN @ ELSE st]

\* Mutant of Enqueue: the oldest event makes room for the new one.
EnqueueOverwriting(e) ==
  queue' = Append(IF Len(queue) < QueueSize THEN queue ELSE Tail(queue), e)

\* A full channel drops the event.
Enqueue(e) == queue' = IF Len(queue) < QueueSize THEN Append(queue, e) ELSE queue

\* Mutant of Untrack: the mapping is left for the end of the close.
UntrackLater(id) == tracked' = tracked

\* handleClose deletes the mapping under the lock before it does anything else:
\* of two calls for one trade, one finds it.
Untrack(id) == tracked' = tracked \ {id}

Exits(id) == id \in tracked /\ status[id] = "OPEN"

\* Every order may fail, and an answer may be lost after the order was executed.
MayFail == "broker_error" \in Conditions

\* An order may be accepted and cancelled for want of a fill.
MayStayUnfilled == "unfilled" \in Conditions

\* A reduce-only order with no position on its side is rejected.
OnSide(sign) == sign * net > 0

\* One of n contracts is filled as far as the position goes, or less.
Whole(sign, n) == IF n <= sign * net THEN n ELSE sign * net

Fills(sign, n) == IF MayStayUnfilled THEN 0..Whole(sign, n) ELSE {Whole(sign, n)}

-----------------------------------------------------------------------------
\* The paper manager opens a position; it calls the hook once it let go of its lock.
PaperOpen(id) ==
  /\ paper[id] = "none"
  /\ paper' = [paper EXCEPT ![id] = "open"]
  /\ hook' = hook \cup {id}
  /\ UNCHANGED <<enabled, halted, memory, net, exits, entered, short>>

OnPaperOpen(id) ==
  /\ id \in hook
  /\ hook' = hook \ {id}
  /\ IF enabled THEN Enqueue(<<"open", id>>) ELSE queue' = queue
  /\ UNCHANGED <<paper, enabled, halted, records, status, tracked, worker, closer,
                 todo, seen, net, exits, entered, short>>

\* A close calls its hook under the manager's lock.  A position that is not
\* tracked has nothing to close.
OnPaperClose(id) ==
  /\ paper[id] = "open"
  /\ paper' = [paper EXCEPT ![id] = "closed"]
  /\ IF id \in tracked THEN Enqueue(<<"close", id>>) ELSE queue' = queue
  /\ UNCHANGED <<hook, enabled, halted, records, status, tracked, worker, closer,
                 todo, seen, net, exits, entered, short>>

SetEnabled(v) ==
  /\ enabled # v
  /\ enabled' = v
  /\ UNCHANGED <<paper, hook, halted, memory, net, exits, entered, short>>

\* The kill switch is triggered or released.
KillSwitch ==
  /\ halted' = ~halted
  /\ UNCHANGED <<paper, hook, enabled, memory, net, exits, entered, short>>

-----------------------------------------------------------------------------
Take(kind, id) ==
  /\ worker.pc = "idle" /\ queue # <<>> /\ Head(queue) = <<kind, id>>
  /\ queue' = Tail(queue)

\* handleOpen up to the order: refused while disarmed or halted, recorded as
\* FAILED when the product cannot be resolved.
TakeOpen(id) ==
  /\ Take("open", id)
  /\ \/ /\ ~enabled \/ halted
        /\ UNCHANGED <<records, status, tracked, worker>>
     \/ /\ enabled /\ ~halted /\ MayFail
        /\ Record(id, "FAILED")
        /\ UNCHANGED <<tracked, worker>>
     \/ /\ enabled /\ ~halted
        /\ Record(id, "PENDING")
        /\ tracked' = tracked \cup {id}
        /\ worker' = [pc |-> "entry", id |-> id]
  /\ UNCHANGED <<paper, hook, enabled, halted, closer, todo, seen, net, exits, entered, short>>

\* The entry at the venue: filled, filled with the answer lost, accepted with nothing
\* filled, which is answered as a fill is, or refused.
EntryOrder ==
  /\ worker.pc = "entry"
  /\ \/ /\ net' = net + Sign(worker.id) /\ entered' = TRUE
        /\ \E pc \in {"filled"} \cup {p \in {"failed"} : MayFail} :
             worker' = [worker EXCEPT !.pc = pc]
     \/ /\ \E pc \in {p \in {"filled"} : MayStayUnfilled} \cup {p \in {"failed"} : MayFail} :
             worker' = [worker EXCEPT !.pc = pc]
        /\ UNCHANGED <<net, entered>>
  /\ UNCHANGED <<paper, hook, enabled, halted, queue, records, status, tracked,
                 closer, todo, seen, exits, short>>

\* Mutant of EntryAnswer: the mapping goes whatever the answer.
EntryAnswerUntracks ==
  /\ worker.pc \in {"filled", "failed"}
  /\ Update(worker.id, IF worker.pc = "filled" THEN "OPEN" ELSE "FAILED")
  /\ Untrack(worker.id)
  /\ worker' = Nobody
  /\ UNCHANGED <<paper, hook, enabled, halted, queue, records, closer, todo, seen,
                 net, exits, entered, short>>

EntryAnswer ==
  /\ \/ /\ worker.pc = "filled"
        /\ Update(worker.id, "OPEN")
        /\ UNCHANGED tracked
     \/ /\ worker.pc = "failed"
        /\ Update(worker.id, "FAILED")
        /\ Untrack(worker.id)
  /\ worker' = Nobody
  /\ UNCHANGED <<paper, hook, enabled, halted, queue, records, closer, todo, seen,
                 net, exits, entered, short>>

\* handleClose up to the order; no kill check, no check of the arming.
TakeClose(id) ==
  /\ Take("close", id)
  /\ Untrack(id)
  /\ worker' = IF Exits(id) THEN [pc |-> "exit", id |-> id] ELSE Nobody
  /\ UNCHANGED <<paper, hook, enabled, halted, records, status, closer, todo, seen,
                 net, exits, entered, short>>

\* The exit order and its answer: one that is accepted is booked as CLOSED, filled or
\* not; a failed one is final.
ExitOrder(id) ==
  /\ exits' = [exits EXCEPT ![id] = @ + 1]
  /\ \/ /\ OnSide(Sign(id))
        /\ \E n \in Fills(Sign(id), 1) : net' = net - Sign(id) * n
        /\ \E st \in {"CLOSED"} \cup {s \in {"FAILED"} : MayFail} : Update(id, st)
     \/ /\ MayFail \/ ~OnSide(Sign(id))
        /\ Update(id, "FAILED")
        /\ net' = net

WorkerExit ==
  /\ worker.pc = "exit"
  /\ ExitOrder(worker.id)
  /\ worker' = Nobody
  /\ UNCHANGED <<paper, hook, enabled, halted, queue, records, tracked, closer,
                 todo, seen, entered, short>>

-----------------------------------------------------------------------------
\* CloseAll visits the trades it finds OPEN, each through handleClose.
CloseAllBegin ==
  /\ "close_all" \in Conditions
  /\ closer.pc \in {"idle", "flat"}
  /\ todo' = {id \in Ids : status[id] = "OPEN"}
  /\ closer' = [Nobody EXCEPT !.pc = "list"]
  /\ entered' = FALSE /\ short' = FALSE
  /\ UNCHANGED <<paper, hook, enabled, halted, queue, records, status, tracked,
                 worker, seen, net, exits>>

CloseAllTake(id) ==
  /\ closer.pc = "list" /\ id \in todo
  /\ todo' = todo \ {id}
  /\ Untrack(id)
  /\ closer' = IF Exits(id) THEN [pc |-> "exit", id |-> id] ELSE closer
  /\ UNCHANGED <<paper, hook, enabled, halted, queue, records, status, worker,
                 seen, net, exits, entered, short>>

CloseAllExit ==
  /\ closer.pc = "exit"
  /\ ExitOrder(closer.id)
  /\ closer' = [Nobody EXCEPT !.pc = "list"]
  /\ UNCHANGED <<paper, hook, enabled, halted, queue, records, tracked, worker,
                 todo, seen, entered, short>>

\* GetPositions, after the list is done; an error ends the call.
CloseAllRead ==
  /\ closer.pc = "list" /\ todo = {}
  /\ \/ closer' = [closer EXCEPT !.pc = "flatten"] /\ seen' = net
     \/ MayFail /\ closer' = Nobody /\ seen' = 0
  /\ UNCHANGED <<paper, hook, enabled, halted, queue, records, status, tracked,
                 worker, todo, net, exits, entered, short>>

\* Mutant of Residual: the opens the mirror knows of are taken for the position.
ResidualKnown(position) == Cardinality({id \in Ids : status[id] = "OPEN"})

\* The size of the flattening order: the whole position that was read.
Residual(position) == IF position < 0 THEN -position ELSE position

\* The call ends without an error when there was nothing to flatten, or when the order
\* that flattens was accepted, whatever it filled.  An error, rejection or lost answer
\* is reported.
CloseAllFlatten ==
  /\ closer.pc = "flatten"
  /\ LET sign == IF seen < 0 THEN -1 ELSE 1 IN
     \/ /\ seen = 0
        /\ closer' = [Nobody EXCEPT !.pc = "flat"]
        /\ UNCHANGED <<net, short>>
     \/ /\ seen # 0 /\ OnSide(sign)
        /\ \E n \in Fills(sign, Residual(seen)) :
             net' = net - sign * n /\ short' = (n < Whole(sign, Residual(seen)))
        /\ \E pc \in {"flat"} \cup {p \in {"idle"} : MayFail} :
             closer' = [Nobody EXCEPT !.pc = pc]
     \/ /\ seen # 0 /\ (MayFail \/ ~OnSide(sign))
        /\ closer' = Nobody
        /\ UNCHANGED <<net, short>>
  /\ seen' = 0
  /\ UNCHANGED <<paper, hook, enabled, halted, queue, records, status, tracked,
                 worker, todo, exits, entered>>

-----------------------------------------------------------------------------
\* The process restarts with an empty paper book and mirror, armed or not.
Crash ==
  /\ "crash" \in Conditions
  /\ paper' = [id \in Ids |-> IF paper[id] = "open" THEN "closed" ELSE paper[id]]
  /\ hook' = {} /\ enabled' \in BOOLEAN
  /\ queue' = <<>> /\ records' = <<>> /\ status' = [id \in Ids |-> "none"]
  /\ tracked' = {} /\ worker' = Nobody /\ closer' = Nobody /\ todo' = {} /\ seen' = 0
  /\ UNCHANGED <<halted, net, exits, entered, short>>

Init ==
  /\ paper = [id \in Ids |-> "none"]
  /\ hook = {} /\ enabled = FALSE /\ halted = FALSE
  /\ queue = <<>> /\ records = <<>> /\ status = [id \in Ids |-> "none"]
  /\ tracked = {} /\ worker = Nobody /\ closer = Nobody /\ todo = {} /\ seen = 0
  /\ net = 0 /\ exits = [id \in Ids |-> 0] /\ entered = FALSE /\ short = FALSE

PaperBook == \E id \in Ids : PaperOpen(id) \/ OnPaperOpen(id) \/ OnPaperClose(id)
Worker == (\E id \in Ids : TakeOpen(id) \/ TakeClose(id))
          \/ EntryOrder \/ EntryAnswer \/ WorkerExit
CloseAll == CloseAllExit \/ CloseAllRead \/ CloseAllFlatten
            \/ \E id \in Ids : CloseAllTake(id)

Next == PaperBook \/ (\E v \in BOOLEAN : SetEnabled(v)) \/ KillSwitch
        \/ Worker \/ CloseAllBegin \/ CloseAll \/ Crash

Spec == Init /\ [][Next]_vars

\* The worker loops for ever and every order ends by its timeout.
FairSpec == Spec /\ WF_vars(Worker) /\ WF_vars(CloseAll)

-----------------------------------------------------------------------------
(* Safety *)

\* The worker and CloseAll between them send at most one exit order for a clone,
\* whatever close events are queued while CloseAll runs: a second one would eat
\* into another clone's contracts.
AtMostOneExit == \A id \in Ids : exits[id] <= 1

Closing(id) == \/ worker.pc = "exit" /\ worker.id = id
               \/ closer.pc = "exit" /\ closer.id = id

\* A clone that is OPEN can still be closed: its paper position is mapped to it,
\* or its exit is under way.
OpenIsReachable ==
  \A id \in Ids : status[id] = "OPEN" => id \in tracked \/ Closing(id)

\* mirror.go:469-470: CloseAll covers every clone and what a restart orphaned.  One that
\* reports no error leaves nothing at the venue but what was entered after it began, and
\* what its own flattening order, accepted, did not fill: orphans of a restart, lost
\* answers, exits booked that filled nothing and the worker's own exits included.
CloseAllFlattens == closer.pc = "flat" /\ ~entered /\ ~short => net = 0

Quiet == queue = <<>> /\ worker.pc = "idle" /\ closer.pc \in {"idle", "flat"} /\ hook = {}
Held == {id \in Ids : status[id] \in {"OPEN", "FAILED"}}
Balance(S) == Cardinality(S \ Shorts) - Cardinality(S \cap Shorts)

\* An exit fails only against the clone of another paper position, of the other side.
FailsOpposed ==
  \A id \in Ids : status[id] = "FAILED" =>
    \E other \in Ids : status[other] # "none" /\ Sign(other) # Sign(id)

\* At rest the trades shown as OPEN, and those whose exit the venue has rejected because
\* long and short clones net, are what it holds: no other trade is off, and with clones
\* on one side none is FAILED.
NetMatchesTrades == FailsOpposed /\ (Quiet => net = Balance(Held))

-----------------------------------------------------------------------------
(* Liveness *)

\* A close that made it into the queue reaches the clone: it does not stay OPEN.
QueuedCloseRuns ==
  \A id \in Ids :
    (\E k \in DOMAIN queue : queue[k] = <<"close", id>>) ~> status[id] # "OPEN"

-----------------------------------------------------------------------------
\* A statement of the repository that the code does not keep: a run refutes it.
\* mirror.go:260-261: closes are enqueued "so positions opened during an armed
\* period still get flattened".
ClosedOnPaperIsFlat ==
  Quiet /\ (\A id \in Ids : paper[id] # "open") => net = 0

=============================================================================
