--------------------------- MODULE LiveMirrorProofs ---------------------------
(***************************************************************************)
(* Theorems about LiveMirror, for any number of positions on either side,  *)
(* any queue, any number of records and every combination of Conditions.   *)
(***************************************************************************)
EXTENDS LiveMirror, SequenceTheorems, FiniteSetTheorems, TLAPS

-----------------------------------------------------------------------------
(* The inductive invariant.  Neither property is inductive: that a clone is  *)
(* exited once rests on its being entered once, which rests on one open      *)
(* event per position in the hook and the queue together.                    *)

OpenAt(k, id) == queue[k] = <<"open", id>>
Queued(id) == \E k \in DOMAIN queue : OpenAt(k, id)

Unique(id) == \A k, l \in DOMAIN queue : OpenAt(k, id) /\ OpenAt(l, id) => k = l

\* The clone of id may still be entered.
Waiting(id) == paper[id] = "none" \/ id \in hook \/ Queued(id)

Entering(id) == worker.pc \in {"entry", "filled"} /\ worker.id = id

\* A position has at most one open event, in one place.
OneOpenEvent(id) ==
  /\ paper[id] = "none" => id \notin hook /\ ~Queued(id)
  /\ id \in hook => ~Queued(id)
  /\ Unique(id)

\* Waiting, tracked, being exited by one actor, exited: each excludes the others.
OneStage(id) ==
  /\ Waiting(id) => id \notin tracked /\ ~Closing(id) /\ exits[id] = 0
  /\ id \in tracked => ~Closing(id) /\ exits[id] = 0
  /\ Closing(id) => exits[id] = 0
  /\ ~(worker.pc = "exit" /\ worker.id = id /\ closer.pc = "exit" /\ closer.id = id)
  /\ exits[id] <= 1

\* A clone that is OPEN, or about to be, keeps its mapping until it is exited.
KeepsMapping(id) ==
  /\ status[id] = "OPEN" => id \in tracked \/ Closing(id)
  /\ Entering(id) => id \in tracked /\ id \notin todo /\ status[id] # "OPEN"
  /\ Waiting(id) => id \notin todo /\ status[id] # "OPEN"

StageInv == \A id \in Ids : OneOpenEvent(id) /\ OneStage(id) /\ KeepsMapping(id)

-----------------------------------------------------------------------------
(* Type correctness.                                                         *)

\* What the two ends of the queue do to its type.
LEMMA QueueType ==
  ASSUME TypeOK, NEW e \in Event
  PROVE  /\ Enqueue(e) => queue' \in Seq(Event) /\ Len(queue') <= QueueSize
         /\ queue # <<>> /\ queue' = Tail(queue)
              => queue' \in Seq(Event) /\ Len(queue') <= QueueSize
<1>1. queue \in Seq(Event) /\ Len(queue) <= QueueSize /\ QueueSize \in Nat
  BY LiveMirrorAssumption DEF TypeOK, LiveMirrorAssumption
<1>2. ASSUME Enqueue(e) PROVE queue' \in Seq(Event) /\ Len(queue') <= QueueSize
  BY <1>1, <1>2 DEF Enqueue
<1>3. ASSUME queue # <<>>, queue' = Tail(queue)
      PROVE  queue' \in Seq(Event) /\ Len(queue') <= QueueSize
  BY <1>1, <1>3
<1> QED BY <1>2, <1>3

Statuses == {"none", "PENDING", "OPEN", "CLOSED", "FAILED"}

\* A new record leaves at most MaxRecords of them.
LEMMA RecordType ==
  ASSUME TypeOK, NEW id \in Ids, NEW st \in Statuses, Record(id, st)
  PROVE  /\ records' \in Seq(Ids) /\ Len(records') <= MaxRecords
         /\ status' \in [Ids -> Statuses]
<1>1. records \in Seq(Ids) /\ Len(records) <= MaxRecords /\ MaxRecords \in Nat \ {0}
  BY LiveMirrorAssumption DEF TypeOK, LiveMirrorAssumption
<1> DEFINE rest == IF Len(records) < MaxRecords THEN records
                   ELSE SubSeq(records, 1, MaxRecords - 1)
<1>2. rest \in Seq(Ids) /\ Len(rest) < MaxRecords
  <2>1. CASE Len(records) < MaxRecords
    BY <1>1, <2>1
  <2>2. CASE ~(Len(records) < MaxRecords)
    BY <1>1, <2>2
  <2> QED BY <2>1, <2>2
<1>3. records' = <<id>> \o rest
  BY DEF Record, Kept
<1>4. records' \in Seq(Ids) /\ Len(records') <= MaxRecords
  <2> HIDE DEF rest
  <2>1. <<id>> \in Seq(Ids) /\ Len(<<id>>) = 1
    OBVIOUS
  <2> QED BY <1>1, <1>2, <1>3, <2>1
<1>5. status' \in [Ids -> Statuses]
  BY DEF Record, TypeOK, Statuses
<1> QED BY <1>4, <1>5

\* What an accepted reduce-only order fills lies between nothing and the position.
LEMMA FillsBounded ==
  ASSUME TypeOK, NEW sign \in {-1, 1}, OnSide(sign), NEW m \in Nat, NEW n \in Fills(sign, m)
  PROVE  /\ n \in Nat /\ Whole(sign, m) \in Nat
         /\ n <= Whole(sign, m) /\ Whole(sign, m) <= m /\ Whole(sign, m) <= sign * net
<1>1. net \in Int /\ sign * net \in Nat
  BY DEF TypeOK, OnSide
<1>2. Whole(sign, m) \in Nat /\ Whole(sign, m) <= m /\ Whole(sign, m) <= sign * net
  BY <1>1 DEF Whole
<1> HIDE DEF Whole
<1> QED BY <1>2 DEF Fills

LEMMA ExitOrderType ==
  ASSUME TypeOK, NEW id, ExitOrder(id)
  PROVE  exits' \in [Ids -> Nat] /\ net' \in Int /\ status' \in [Ids -> Statuses]
<1>1. exits' \in [Ids -> Nat]
  <2>1. exits \in [Ids -> Nat] /\ exits' = [exits EXCEPT ![id] = exits[id] + 1]
    BY DEF ExitOrder, TypeOK
  <2>2. CASE id \in Ids
    BY <2>1, <2>2
  <2>3. CASE id \notin Ids
    BY <2>1, <2>3
  <2> QED BY <2>2, <2>3
<1>2. net' \in Int
  <2>1. net \in Int /\ Sign(id) \in {-1, 1}
    BY DEF TypeOK, Sign
  <2>2. CASE net' = net
    BY <2>1, <2>2
  <2>3. CASE OnSide(Sign(id)) /\ \E n \in Fills(Sign(id), 1) : net' = net - Sign(id) * n
    <3>1. PICK n \in Fills(Sign(id), 1) : net' = net - Sign(id) * n
      BY <2>3
    <3>2. n \in Int
      BY <2>1, <2>3, <3>1, FillsBounded
    <3> QED BY <2>1, <3>1, <3>2
  <2> QED BY <2>2, <2>3 DEF ExitOrder
<1>3. status' \in [Ids -> Statuses]
  BY DEF ExitOrder, Update, TypeOK, Statuses
<1> QED BY <1>1, <1>2, <1>3

\* The flattening order: what it does to the position that was read.
LEMMA FlattenEffect ==
  ASSUME TypeOK, CloseAllFlatten
  PROVE  /\ net' \in Int /\ short' \in BOOLEAN
         /\ \/ net' = net
            \/ LET sign == IF seen < 0 THEN -1 ELSE 1 IN
               /\ seen # 0 /\ OnSide(sign)
               /\ net' = net - sign * Whole(sign, Residual(seen)) \/ short'
         /\ closer'.pc = "flat" /\ net' = net => seen = 0 \/ short'
<1> DEFINE sign == IF seen < 0 THEN -1 ELSE 1
           m == Residual(seen)
<1>1. seen \in Int /\ net \in Int /\ short \in BOOLEAN /\ sign \in {-1, 1}
  BY DEF TypeOK
<1>2. m \in Nat /\ (seen # 0 => m > 0)
  BY <1>1 DEF Residual
<1>3. CASE UNCHANGED <<net, short>> /\ (seen = 0 \/ closer' = Nobody)
  BY <1>1, <1>3 DEF Nobody
<1>4. CASE /\ seen # 0 /\ OnSide(sign)
           /\ \E n \in Fills(sign, m) : net' = net - sign * n /\ short' = (n < Whole(sign, m))
  <2>1. PICK n \in Fills(sign, m) : net' = net - sign * n /\ short' = (n < Whole(sign, m))
    BY <1>4
  <2>2. n \in Nat /\ Whole(sign, m) \in Nat /\ n <= Whole(sign, m)
    <3> HIDE DEF sign, m
    <3> QED BY <1>1, <1>2, <1>4, <2>1, FillsBounded
  <2>3. Whole(sign, m) > 0
    BY <1>1, <1>2, <1>4 DEF Whole, OnSide
  <2>4. short' \in BOOLEAN /\ (n = Whole(sign, m) \/ short')
    <3> HIDE DEF m, sign
    <3>1. CASE n < Whole(sign, m)
      BY <2>1, <3>1
    <3>2. CASE ~(n < Whole(sign, m))
      <4>1. n = Whole(sign, m)
        BY <2>2, <3>2
      <4> QED BY <2>1, <3>2, <4>1
    <3> QED BY <3>1, <3>2
  <2>5. net' \in Int /\ (net' = net => n = 0)
    <3> HIDE DEF m, sign
    <3>1. CASE sign = 1
      BY <1>1, <2>1, <2>2, <3>1
    <3>2. CASE sign = -1
      BY <1>1, <2>1, <2>2, <3>2
    <3> QED BY <1>1, <3>1, <3>2
  <2> HIDE DEF m, sign
  <2>6. net' = net => short'
    BY <2>2, <2>3, <2>4, <2>5
  <2>7. net' = net - sign * Whole(sign, m) \/ short'
    BY <2>1, <2>4
  <2> QED BY <1>4, <2>4, <2>5, <2>6, <2>7 DEF m, sign
<1> QED BY <1>3, <1>4 DEF CloseAllFlatten

LEMMA TypeStep ==
  ASSUME TypeOK, [Next]_vars
  PROVE  TypeOK'
<1> USE DEF TypeOK, Statuses, Event, Nobody
<1>1. CASE \E id \in Ids : PaperOpen(id)
  BY <1>1 DEF PaperOpen, memory
<1>2. ASSUME NEW id \in Ids, OnPaperOpen(id) PROVE TypeOK'
  <2>1. queue' \in Seq(Event) /\ Len(queue') <= QueueSize
    BY <1>2, QueueType DEF OnPaperOpen
  <2> QED BY <1>2, <2>1 DEF OnPaperOpen
<1>3. ASSUME NEW id \in Ids, OnPaperClose(id) PROVE TypeOK'
  <2>1. queue' \in Seq(Event) /\ Len(queue') <= QueueSize
    BY <1>3, QueueType DEF OnPaperClose
  <2> QED BY <1>3, <2>1 DEF OnPaperClose
<1>4. CASE \E v \in BOOLEAN : SetEnabled(v)
  BY <1>4 DEF SetEnabled, memory
<1>5. CASE KillSwitch
  BY <1>5 DEF KillSwitch, memory
<1>6. ASSUME NEW id \in Ids, TakeOpen(id) PROVE TypeOK'
  <2>1. queue' \in Seq(Event) /\ Len(queue') <= QueueSize
    BY <1>6, QueueType DEF TakeOpen, Take
  <2>2. /\ records' \in Seq(Ids) /\ Len(records') <= MaxRecords
        /\ status' \in [Ids -> Statuses]
    BY <1>6, RecordType DEF TakeOpen
  <2> QED BY <1>6, <2>1, <2>2 DEF TakeOpen
<1>7. ASSUME NEW id \in Ids, TakeClose(id) PROVE TypeOK'
  <2>1. queue' \in Seq(Event) /\ Len(queue') <= QueueSize
    BY <1>7, QueueType DEF TakeClose, Take
  <2> QED BY <1>7, <2>1 DEF TakeClose, Untrack
<1>8. CASE EntryOrder
  <2>1. PICK pc \in {"filled", "failed"} : worker' = [worker EXCEPT !.pc = pc]
    BY <1>8 DEF EntryOrder
  <2>2. worker' \in [pc : {"idle", "entry", "filled", "failed", "exit"},
                     id : Ids \cup {"none"}]
    BY <2>1
  <2>3. net' \in Int
    BY <1>8 DEF EntryOrder, Sign
  <2>4. entered' = TRUE \/ entered' = entered
    BY <1>8 DEF EntryOrder
  <2> QED BY <1>8, <2>2, <2>3, <2>4 DEF EntryOrder
<1>9. CASE EntryAnswer
  BY <1>9 DEF EntryAnswer, Update, Untrack
<1>10. CASE WorkerExit
  BY <1>10, ExitOrderType DEF WorkerExit
<1>11. CASE CloseAllBegin
  BY <1>11 DEF CloseAllBegin
<1>12. CASE \E id \in Ids : CloseAllTake(id)
  BY <1>12 DEF CloseAllTake, Untrack
<1>13. CASE CloseAllExit
  BY <1>13, ExitOrderType DEF CloseAllExit
<1>14. CASE CloseAllRead
  <2>1. closer' \in [pc : {"idle", "list", "exit", "flatten", "flat"},
                     id : Ids \cup {"none"}]
    <3>1. CASE closer' = [closer EXCEPT !.pc = "flatten"]
      BY <3>1
    <3>2. CASE closer' = Nobody
      BY <3>2
    <3> QED BY <1>14, <3>1, <3>2 DEF CloseAllRead
  <2>2. seen' \in Int
    BY <1>14 DEF CloseAllRead
  <2> QED BY <1>14, <2>1, <2>2 DEF CloseAllRead
<1>15. CASE CloseAllFlatten
  <2>1. closer' = Nobody \/ closer' = [Nobody EXCEPT !.pc = "flat"] \/ closer' = [Nobody EXCEPT !.pc = "idle"]
    BY <1>15 DEF CloseAllFlatten
  <2>2. net' \in Int /\ short' \in BOOLEAN
    BY <1>15, FlattenEffect
  <2> QED BY <1>15, <2>1, <2>2 DEF CloseAllFlatten
<1>16. CASE Crash
  <2>1. queue' \in Seq(Event) /\ Len(queue') <= QueueSize
        /\ records' \in Seq(Ids) /\ Len(records') <= MaxRecords
    BY <1>16, LiveMirrorAssumption DEF Crash, LiveMirrorAssumption
  <2> QED BY <1>16, <2>1 DEF Crash
<1>17. CASE UNCHANGED vars
  BY <1>17 DEF vars, memory
<1> QED
  BY <1>1, <1>2, <1>3, <1>4, <1>5, <1>6, <1>7, <1>8, <1>9, <1>10, <1>11, <1>12,
     <1>13, <1>14, <1>15, <1>16, <1>17
     DEF Next, PaperBook, Worker, CloseAll

\* Every variable keeps its type: the queue and the list of trades stay within
\* their capacity on every interleaving of hooks, worker and CloseAll.
THEOREM TypeCorrect == Spec => []TypeOK
<1>1. Init => TypeOK
  <2> SUFFICES ASSUME Init PROVE TypeOK
    OBVIOUS
  <2>1. /\ queue \in Seq(Event) /\ Len(queue) <= QueueSize
        /\ records \in Seq(Ids) /\ Len(records) <= MaxRecords
    BY LiveMirrorAssumption DEF Init, LiveMirrorAssumption
  <2>2. /\ hook \subseteq Ids /\ tracked \subseteq Ids /\ todo \subseteq Ids
        /\ exits \in [Ids -> Nat] /\ net \in Int /\ seen \in Int
    BY DEF Init
  <2>3. /\ worker \in [pc : {"idle", "entry", "filled", "failed", "exit"},
                        id : Ids \cup {"none"}]
        /\ closer \in [pc : {"idle", "list", "exit", "flatten", "flat"},
                        id : Ids \cup {"none"}]
    BY DEF Init, Nobody
  <2> QED BY <2>1, <2>2, <2>3 DEF Init, TypeOK
<1>2. TypeOK /\ [Next]_vars => TypeOK'
  BY TypeStep
<1> QED BY <1>1, <1>2, PTL DEF Spec

-----------------------------------------------------------------------------
(* The invariant is inductive.                                               *)

\* An event enters the queue at its end, and only an open event adds an open.
LEMMA EnqueueOpens ==
  ASSUME TypeOK, NEW e \in Event, Enqueue(e), NEW id \in Ids
  PROVE  /\ Queued(id)' => Queued(id) \/ e = <<"open", id>>
         /\ Unique(id) /\ (e = <<"open", id>> => ~Queued(id)) => Unique(id)'
<1>1. queue \in Seq(Event)
  BY DEF TypeOK
<1>2. CASE queue' = queue
  BY <1>2 DEF Queued, Unique, OpenAt
<1>3. CASE queue' = Append(queue, e)
  <2>1. /\ DOMAIN queue' = 1..Len(queue) + 1 /\ DOMAIN queue = 1..Len(queue)
        /\ Len(queue) \in Nat
        /\ queue'[Len(queue) + 1] = e
        /\ \A k \in 1..Len(queue) : queue'[k] = queue[k]
    BY <1>1, <1>3
  <2>2. \A k \in DOMAIN queue' : k \in DOMAIN queue \/ k = Len(queue) + 1
    BY <2>1
  <2> QED BY <2>1, <2>2 DEF Queued, Unique, OpenAt
<1> QED BY <1>2, <1>3 DEF Enqueue

\* The worker takes an event from the front; an open event it takes is the last
\* of its position.
LEMMA TakeOpens ==
  ASSUME TypeOK, queue # <<>>, queue' = Tail(queue), NEW id \in Ids
  PROVE  /\ Queued(id)' => Queued(id)
         /\ Unique(id) => Unique(id)'
         /\ Head(queue) = <<"open", id>> => Queued(id)
         /\ Head(queue) = <<"open", id>> /\ Unique(id) => ~Queued(id)'
<1>1. queue \in Seq(Event) /\ queue # <<>>
  BY DEF TypeOK
<1>2. /\ Len(queue) \in Nat \ {0}
      /\ DOMAIN queue = 1..Len(queue) /\ DOMAIN queue' = 1..Len(queue) - 1
      /\ Head(queue) = queue[1]
      /\ \A k \in 1..Len(queue) - 1 : queue'[k] = queue[k + 1]
  BY <1>1
<1>3. \A k \in DOMAIN queue' : k + 1 \in DOMAIN queue /\ k + 1 # 1
  BY <1>2
<1>4. 1 \in DOMAIN queue
  BY <1>2
<1>5. \A k, l \in DOMAIN queue' : k + 1 = l + 1 => k = l
  BY <1>2
<1>6. Queued(id)' => Queued(id)
  BY <1>2, <1>3 DEF Queued, OpenAt
<1>7. Unique(id) => Unique(id)'
  BY <1>2, <1>3, <1>5 DEF Unique, OpenAt
<1>8. Head(queue) = <<"open", id>> => Queued(id)
  BY <1>2, <1>4 DEF Queued, OpenAt
<1>9. Head(queue) = <<"open", id>> /\ Unique(id) => ~Queued(id)'
  BY <1>2, <1>3, <1>4 DEF Queued, Unique, OpenAt
<1> QED BY <1>6, <1>7, <1>8, <1>9

LEMMA SameQueue ==
  ASSUME queue' = queue, NEW id
  PROVE  (Queued(id)' <=> Queued(id)) /\ (Unique(id)' <=> Unique(id))
BY DEF Queued, Unique, OpenAt

\* An exit order leaves its clone exited once and not OPEN, and touches no other.
LEMMA ExitOrderEffect ==
  ASSUME TypeOK, NEW x \in Ids, ExitOrder(x), exits[x] = 0
  PROVE  /\ exits'[x] = 1 /\ status'[x] # "OPEN"
         /\ \A id \in Ids \ {x} : exits'[id] = exits[id] /\ status'[id] = status[id]
<1>1. exits' = [exits EXCEPT ![x] = exits[x] + 1] /\ exits \in [Ids -> Nat]
  BY DEF ExitOrder, TypeOK
<1>2. /\ status \in [Ids -> Statuses]
      /\ Update(x, "CLOSED") \/ Update(x, "FAILED")
  BY DEF ExitOrder, TypeOK, Statuses
<1>3. exits'[x] = 1 /\ \A id \in Ids \ {x} : exits'[id] = exits[id]
  BY <1>1
<1>4. status'[x] # "OPEN" /\ \A id \in Ids \ {x} : status'[id] = status[id]
  BY <1>2 DEF Update
<1> QED BY <1>3, <1>4

LEMMA StageStep ==
  ASSUME TypeOK, StageInv, [Next]_vars
  PROVE  StageInv'
<1> SUFFICES ASSUME NEW i \in Ids
             PROVE  (OneOpenEvent(i) /\ OneStage(i) /\ KeepsMapping(i))'
  BY DEF StageInv
<1> DEFINE Goal == OneOpenEvent(i) /\ OneStage(i) /\ KeepsMapping(i)
<1>a. OneOpenEvent(i) /\ OneStage(i) /\ KeepsMapping(i)
  BY DEF StageInv
<1> USE DEF OneOpenEvent, OneStage, KeepsMapping, Waiting, Entering, Closing
<1>1. ASSUME NEW id \in Ids, PaperOpen(id) PROVE Goal'
  BY <1>a, <1>1, SameQueue DEF PaperOpen, memory, TypeOK
<1>2. ASSUME NEW id \in Ids, OnPaperOpen(id) PROVE Goal'
  <2>1. CASE queue' = queue
    BY <1>a, <1>2, <2>1, SameQueue DEF OnPaperOpen
  <2>2. CASE Enqueue(<<"open", id>>)
    <3>1. /\ Queued(i)' => Queued(i) \/ i = id
          /\ Unique(i) /\ (i = id => ~Queued(i)) => Unique(i)'
      BY <2>2, EnqueueOpens DEF Event
    <3> QED BY <1>a, <1>2, <3>1 DEF OnPaperOpen
  <2> QED BY <1>2, <2>1, <2>2 DEF OnPaperOpen
<1>3. ASSUME NEW id \in Ids, OnPaperClose(id) PROVE Goal'
  <2>1. (Queued(i)' => Queued(i)) /\ (Unique(i) => Unique(i)')
    <3>1. CASE queue' = queue
      BY <3>1, SameQueue
    <3>2. CASE Enqueue(<<"close", id>>)
      BY <3>2, EnqueueOpens DEF Event
    <3> QED BY <1>3, <3>1, <3>2 DEF OnPaperClose
  <2> QED BY <1>a, <1>3, <2>1 DEF OnPaperClose, TypeOK
<1>4. ASSUME NEW v \in BOOLEAN, SetEnabled(v) PROVE Goal'
  BY <1>a, <1>4, SameQueue DEF SetEnabled, memory
<1>5. CASE KillSwitch
  BY <1>a, <1>5, SameQueue DEF KillSwitch, memory
<1>6. ASSUME NEW id \in Ids, TakeOpen(id) PROVE Goal'
  <2>1. /\ Queued(i)' => Queued(i)
        /\ Unique(i) => Unique(i)'
        /\ i = id => Queued(i)
        /\ i = id /\ Unique(i) => ~Queued(i)'
    BY <1>6, TakeOpens DEF TakeOpen, Take
  <2>2. CASE UNCHANGED <<records, status, tracked, worker>>
    BY <1>a, <1>6, <2>1, <2>2 DEF TakeOpen
  <2>3. CASE Record(id, "FAILED") /\ UNCHANGED <<tracked, worker>>
    <3>1. status'[i] = "OPEN" => status[i] = "OPEN"
      BY <2>3 DEF Record
    <3> QED BY <1>a, <1>6, <2>1, <2>3, <3>1 DEF TakeOpen
  <2>4. CASE /\ Record(id, "PENDING")
             /\ tracked' = tracked \cup {id}
             /\ worker' = [pc |-> "entry", id |-> id]
    <3>1. /\ status'[i] = "OPEN" => status[i] = "OPEN"
          /\ i = id => status'[i] = "PENDING"
      BY <2>4 DEF Record
    <3>2. worker.pc = "idle" /\ worker'.pc = "entry" /\ worker'.id = id
      BY <1>6, <2>4 DEF TakeOpen, Take
    <3> QED BY <1>a, <1>6, <2>1, <2>4, <3>1, <3>2 DEF TakeOpen
  <2> QED BY <1>6, <2>2, <2>3, <2>4 DEF TakeOpen
<1>7. ASSUME NEW id \in Ids, TakeClose(id) PROVE Goal'
  <2>1. (Queued(i)' => Queued(i)) /\ (Unique(i) => Unique(i)')
    BY <1>7, TakeOpens DEF TakeClose, Take
  <2>2. worker.pc = "idle"
    BY <1>7 DEF TakeClose, Take
  <2>3. CASE Exits(id)
    BY <1>a, <1>7, <2>1, <2>2, <2>3 DEF TakeClose, Untrack, Exits
  <2>4. CASE ~Exits(id)
    BY <1>a, <1>7, <2>1, <2>2, <2>4 DEF TakeClose, Untrack, Exits, Nobody
  <2> QED BY <2>3, <2>4
<1>8. CASE EntryOrder
  <2>1. worker.pc = "entry" /\ worker'.pc \in {"filled", "failed"} /\ worker'.id = worker.id
    <3>1. PICK pc \in {"filled", "failed"} : worker' = [worker EXCEPT !.pc = pc]
      BY <1>8 DEF EntryOrder
    <3> QED BY <1>8, <3>1 DEF EntryOrder, TypeOK
  <2> QED BY <1>a, <1>8, <2>1, SameQueue DEF EntryOrder
<1>9. CASE EntryAnswer
  <2>1. worker'.pc = "idle" /\ worker.pc \in {"filled", "failed"}
    BY <1>9 DEF EntryAnswer, Nobody
  <2>2. CASE worker.pc = "filled"
    <3>1. tracked' = tracked /\ (status'[i] = "OPEN" => status[i] = "OPEN" \/ i = worker.id)
      BY <1>9, <2>2 DEF EntryAnswer, Update, TypeOK
    <3> QED BY <1>a, <1>9, <2>1, <2>2, <3>1, SameQueue DEF EntryAnswer
  <2>3. CASE worker.pc = "failed"
    <3>1. /\ tracked' = tracked \ {worker.id}
          /\ status'[i] = "OPEN" => status[i] = "OPEN" /\ i # worker.id
      BY <1>9, <2>3 DEF EntryAnswer, Update, Untrack, TypeOK
    <3> QED BY <1>a, <1>9, <2>1, <2>3, <3>1, SameQueue DEF EntryAnswer
  <2> QED BY <2>1, <2>2, <2>3
<1>10. CASE WorkerExit
  <2>1. worker.pc = "exit" /\ worker'.pc = "idle"
    BY <1>10 DEF WorkerExit, Nobody
  <2>2. CASE i = worker.id
    <3>1. exits'[i] = 1 /\ status'[i] # "OPEN"
      BY <1>a, <1>10, <2>1, <2>2, ExitOrderEffect DEF WorkerExit
    <3> QED BY <1>a, <1>10, <2>1, <2>2, <3>1, SameQueue DEF WorkerExit
  <2>3. CASE i # worker.id
    <3>1. exits'[i] = exits[i] /\ status'[i] = status[i]
      BY <1>10, <2>3 DEF WorkerExit, ExitOrder, Update, TypeOK
    <3> QED BY <1>a, <1>10, <2>1, <2>3, <3>1, SameQueue DEF WorkerExit
  <2> QED BY <2>2, <2>3
<1>11. CASE CloseAllBegin
  <2>1. closer.pc # "exit" /\ closer'.pc = "list"
    BY <1>11 DEF CloseAllBegin, Nobody
  <2> QED BY <1>a, <1>11, <2>1, SameQueue DEF CloseAllBegin
<1>12. ASSUME NEW id \in Ids, CloseAllTake(id) PROVE Goal'
  <2>1. CASE Exits(id)
    BY <1>a, <1>12, <2>1, SameQueue DEF CloseAllTake, Untrack, Exits
  <2>2. CASE ~Exits(id)
    BY <1>a, <1>12, <2>2, SameQueue DEF CloseAllTake, Untrack, Exits
  <2> QED BY <2>1, <2>2
<1>13. CASE CloseAllExit
  <2>1. closer.pc = "exit" /\ closer'.pc = "list"
    BY <1>13 DEF CloseAllExit, Nobody
  <2>2. CASE i = closer.id
    <3>1. exits'[i] = 1 /\ status'[i] # "OPEN"
      BY <1>a, <1>13, <2>1, <2>2, ExitOrderEffect DEF CloseAllExit
    <3> QED BY <1>a, <1>13, <2>1, <2>2, <3>1, SameQueue DEF CloseAllExit
  <2>3. CASE i # closer.id
    <3>1. exits'[i] = exits[i] /\ status'[i] = status[i]
      BY <1>13, <2>3 DEF CloseAllExit, ExitOrder, Update, TypeOK
    <3> QED BY <1>a, <1>13, <2>1, <2>3, <3>1, SameQueue DEF CloseAllExit
  <2> QED BY <2>2, <2>3
<1>14. CASE CloseAllRead
  <2>1. closer.pc # "exit" /\ closer'.pc # "exit"
    BY <1>14 DEF CloseAllRead, Nobody, TypeOK
  <2> QED BY <1>a, <1>14, <2>1, SameQueue DEF CloseAllRead
<1>15. CASE CloseAllFlatten
  <2>1. closer.pc # "exit" /\ closer'.pc # "exit"
    BY <1>15 DEF CloseAllFlatten, Nobody
  <2> QED BY <1>a, <1>15, <2>1, SameQueue DEF CloseAllFlatten
<1>16. CASE Crash
  <2>1. ~Queued(i)' /\ Unique(i)'
    BY <1>16 DEF Crash, Queued, Unique, OpenAt
  <2> QED BY <1>a, <1>16, <2>1 DEF Crash, Nobody
<1>17. CASE UNCHANGED vars
  BY <1>a, <1>17, SameQueue DEF vars, memory
<1> QED
  BY <1>1, <1>2, <1>3, <1>4, <1>5, <1>6, <1>7, <1>8, <1>9, <1>10, <1>11, <1>12,
     <1>13, <1>14, <1>15, <1>16, <1>17
     DEF Next, PaperBook, Worker, CloseAll

LEMMA StageHolds == Spec => [](TypeOK /\ StageInv)
<1>1. Init => StageInv
  BY DEF Init, StageInv, OneOpenEvent, Unique, OneStage, KeepsMapping, Waiting,
         Entering, Closing, Queued, OpenAt, Nobody
<1>2. TypeOK /\ StageInv /\ [Next]_vars => StageInv'
  BY StageStep
<1> QED BY <1>1, <1>2, TypeCorrect, PTL DEF Spec

\* One clone is never exited twice, however the worker, CloseAll calls, failed
\* orders and restarts interleave.
THEOREM ExitOnce == Spec => []AtMostOneExit
<1>1. StageInv => AtMostOneExit
  BY DEF StageInv, OneStage, AtMostOneExit
<1> QED BY <1>1, StageHolds, PTL

\* A clone shown as OPEN is never out of reach of its close event: it is mapped
\* from its paper position until the moment its exit begins.
THEOREM NoLostMapping == Spec => []OpenIsReachable
<1>1. StageInv => OpenIsReachable
  BY DEF StageInv, KeepsMapping, OpenIsReachable
<1> QED BY <1>1, StageHolds, PTL

-----------------------------------------------------------------------------
(* CloseAll.  What it reports is true because the position it flattens can   *)
(* only have come nearer to zero since it was read: reduce-only exits take   *)
(* from it, and an entry sets `entered`.                                     *)

\* The position is no larger than what was read, and on the same side.
Within(n) == (n >= 0 => 0 <= net /\ net <= n) /\ (n <= 0 => n <= net /\ net <= 0)

FlatInv ==
  /\ closer.pc = "flatten" /\ ~entered => Within(seen)
  /\ closer.pc = "flat" /\ ~entered /\ ~short => net = 0

\* An exit order never takes the position through zero or away from it.
LEMMA ExitShrinks ==
  ASSUME TypeOK, NEW id, ExitOrder(id), NEW n \in Int, Within(n)
  PROVE  Within(n)'
<1>1. net \in Int /\ Sign(id) \in {-1, 1}
  BY DEF TypeOK, Sign
<1>2. \/ net' = net
      \/ \E k \in Nat : net' = net - Sign(id) * k /\ k <= Sign(id) * net
  <2>1. CASE net' = net
    BY <2>1
  <2>2. CASE OnSide(Sign(id)) /\ \E k \in Fills(Sign(id), 1) : net' = net - Sign(id) * k
    <3>1. PICK k \in Fills(Sign(id), 1) : net' = net - Sign(id) * k
      BY <2>2
    <3>2. k \in Nat /\ Whole(Sign(id), 1) \in Nat /\ k <= Whole(Sign(id), 1)
          /\ Whole(Sign(id), 1) <= Sign(id) * net
      BY <1>1, <2>2, FillsBounded
    <3>3. k <= Sign(id) * net
      <4> HIDE DEF Whole, Sign
      <4> QED BY <1>1, <3>2
    <3> QED BY <3>1, <3>2, <3>3
  <2> QED BY <2>1, <2>2 DEF ExitOrder
<1>3. CASE Sign(id) = 1
  BY <1>1, <1>2, <1>3 DEF Within
<1>4. CASE Sign(id) = -1
  BY <1>1, <1>2, <1>4 DEF Within
<1> QED BY <1>1, <1>3, <1>4

LEMMA FlatStep ==
  ASSUME TypeOK, FlatInv, [Next]_vars
  PROVE  FlatInv'
<1>1. ASSUME UNCHANGED <<closer, seen, net, entered, short>> PROVE FlatInv'
  BY <1>1 DEF FlatInv, Within
<1>2. CASE EntryOrder
  <2>1. entered' = TRUE \/ UNCHANGED <<net, entered>>
    BY <1>2 DEF EntryOrder
  <2>2. UNCHANGED <<closer, seen, short>>
    BY <1>2 DEF EntryOrder
  <2> QED BY <2>1, <2>2 DEF FlatInv, Within
<1>3. CASE WorkerExit
  <2>1. ExitOrder(worker.id) /\ UNCHANGED <<closer, seen, entered, short>>
    BY <1>3 DEF WorkerExit
  <2>2. seen \in Int /\ net \in Int
    BY DEF TypeOK
  <2>3. Within(seen) => Within(seen)'
    <3>1. SUFFICES ASSUME Within(seen) PROVE Within(seen)'
      OBVIOUS
    <3> QED BY <2>1, <2>2, <3>1, ExitShrinks DEF Within
  <2>4. net = 0 => net' = 0
    <3>1. CASE net = 0
      <4>1. ~OnSide(Sign(worker.id))
        BY <3>1 DEF OnSide, Sign
      <4> QED BY <2>1, <3>1, <4>1 DEF ExitOrder
    <3> QED BY <3>1
  <2> QED BY <2>1, <2>3, <2>4 DEF FlatInv
<1>4. CASE CloseAllBegin \/ CloseAllExit \/ \E id \in Ids : CloseAllTake(id)
  <2>1. closer'.pc \notin {"flatten", "flat"}
    BY <1>4 DEF CloseAllBegin, CloseAllExit, CloseAllTake, Nobody
  <2> QED BY <2>1 DEF FlatInv
<1>5. CASE CloseAllRead
  <2>1. \/ closer'.pc = "flatten" /\ seen' = net
        \/ closer'.pc = "idle"
    BY <1>5 DEF CloseAllRead, Nobody, TypeOK
  <2>2. net \in Int /\ net' = net
    BY <1>5 DEF CloseAllRead, TypeOK
  <2> QED BY <2>1, <2>2 DEF FlatInv, Within
<1>6. CASE CloseAllFlatten
  <2>1. seen \in Int /\ net \in Int /\ closer.pc = "flatten" /\ entered' = entered
    BY <1>6 DEF CloseAllFlatten, TypeOK
  <2>2. SUFFICES ASSUME closer'.pc = "flat", ~entered, ~short' PROVE net' = 0
    <3>1. closer'.pc # "flatten"
      BY <1>6 DEF CloseAllFlatten, Nobody
    <3> QED BY <2>1, <2>2, <3>1 DEF FlatInv
  <2>3. Within(seen)
    BY <2>1, <2>2 DEF FlatInv
  <2>4. CASE net' = net
    <3>1. seen = 0
      BY <1>6, <2>2, <2>4, FlattenEffect
    <3> QED BY <2>1, <2>3, <2>4, <3>1 DEF Within
  <2>5. CASE LET sign == IF seen < 0 THEN -1 ELSE 1 IN
             OnSide(sign) /\ net' = net - sign * Whole(sign, Residual(seen))
    <3>1. CASE seen < 0
      BY <2>1, <2>3, <2>5, <3>1 DEF Within, Whole, Residual
    <3>2. CASE ~(seen < 0)
      BY <2>1, <2>3, <2>5, <3>2 DEF Within, Whole, Residual
    <3> QED BY <3>1, <3>2
  <2> QED BY <1>6, <2>2, <2>4, <2>5, FlattenEffect
<1>7. CASE Crash
  BY <1>7 DEF Crash, Nobody, FlatInv
<1>8. CASE PaperBook
  BY <1>1, <1>8 DEF PaperBook, PaperOpen, OnPaperOpen, OnPaperClose, memory
<1>9. CASE (\E v \in BOOLEAN : SetEnabled(v)) \/ KillSwitch
  BY <1>1, <1>9 DEF SetEnabled, KillSwitch, memory
<1>10. CASE (\E id \in Ids : TakeOpen(id) \/ TakeClose(id)) \/ EntryAnswer
  BY <1>1, <1>10 DEF TakeOpen, TakeClose, EntryAnswer
<1>11. CASE UNCHANGED vars
  BY <1>1, <1>11 DEF vars, memory
<1> QED
  BY <1>2, <1>3, <1>4, <1>5, <1>6, <1>7, <1>8, <1>9, <1>10, <1>11
     DEF Next, Worker, CloseAll

\* A CloseAll that reports no error has left nothing at the venue but what was
\* entered after it began, and what its own accepted flattening order did not fill:
\* whatever the worker's exits did between its reading of the position and that order,
\* and whichever of the exits booked before it had filled nothing.
THEOREM FlatMeansFlat == Spec => []CloseAllFlattens
<1>1. Init => FlatInv
  BY DEF Init, FlatInv, Nobody
<1>2. TypeOK /\ FlatInv /\ [Next]_vars => FlatInv'
  BY FlatStep
<1>3. FlatInv => CloseAllFlattens
  BY DEF FlatInv, CloseAllFlattens
<1> QED BY <1>1, <1>2, <1>3, TypeCorrect, PTL DEF Spec

-----------------------------------------------------------------------------
(* Counting.  Without faults and with a list long enough to truncate no      *)
(* clone, the venue holds the balance of the clones that are OPEN, or filled *)
(* and about to be recorded OPEN, or whose exit it has rejected.             *)

Calm == Conditions = {} /\ Cardinality(Ids) <= MaxRecords

Live == Held \cup (IF worker.pc = "filled" THEN {worker.id} ELSE {})

Recorded == {id \in Ids : status[id] # "none"}

\* Each clone has at most one record, and none before the worker took its open event.
RecordInv ==
  /\ Len(records) = Cardinality(Recorded)
  /\ \A id \in Recorded : \E k \in DOMAIN records : records[k] = id
  /\ \A id \in Ids : Waiting(id) => status[id] = "none"

\* What the record of the clone says that the worker is at.
WorkerInv ==
  /\ closer.pc = "idle" /\ worker.pc # "failed"
  /\ worker.pc \in {"entry", "filled"} => worker.id \in Ids /\ status[worker.id] = "PENDING"
  /\ worker.pc = "exit" => worker.id \in Ids /\ status[worker.id] = "OPEN"

CountInv == RecordInv /\ WorkerInv /\ FailsOpposed /\ net = Balance(Live)

LEMMA LiveType ==
  ASSUME TypeOK, WorkerInv
  PROVE  Live \in SUBSET Ids
BY DEF Live, Held, WorkerInv

\* The balance of a set of clones: an integer, which one more clone moves to its side,
\* and which leans to the side of a set that is on one side only.
LEMMA BalanceType ==
  ASSUME NEW S \in SUBSET Ids
  PROVE  /\ IsFiniteSet(S \ Shorts) /\ IsFiniteSet(S \cap Shorts)
         /\ Cardinality(S \ Shorts) \in Nat /\ Cardinality(S \cap Shorts) \in Nat
         /\ Balance(S) \in Int
<1>1. IsFiniteSet(Ids) /\ S \ Shorts \in SUBSET Ids /\ S \cap Shorts \in SUBSET Ids
  BY LiveMirrorAssumption DEF LiveMirrorAssumption
<1>2. IsFiniteSet(S \ Shorts) /\ IsFiniteSet(S \cap Shorts)
  BY <1>1, FS_Subset
<1>3. Cardinality(S \ Shorts) \in Nat /\ Cardinality(S \cap Shorts) \in Nat
  BY <1>2, FS_CardinalityType
<1> QED BY <1>2, <1>3 DEF Balance

LEMMA BalanceAdd ==
  ASSUME NEW S \in SUBSET Ids, NEW id \in Ids \ S
  PROVE  Balance(S \cup {id}) = Balance(S) + Sign(id)
<1> DEFINE L == S \ Shorts
           H == S \cap Shorts
<1>1. IsFiniteSet(L) /\ IsFiniteSet(H) /\ Cardinality(L) \in Nat /\ Cardinality(H) \in Nat
  BY BalanceType
<1>2. Balance(S \cup {id}) = Cardinality((S \cup {id}) \ Shorts) - Cardinality((S \cup {id}) \cap Shorts)
      /\ Balance(S) = Cardinality(L) - Cardinality(H)
  BY DEF Balance
<1>3. CASE id \in Shorts
  <2>1. (S \cup {id}) \ Shorts = L /\ (S \cup {id}) \cap Shorts = H \cup {id} /\ id \notin H
    BY <1>3
  <2>2. Cardinality(H \cup {id}) = Cardinality(H) + 1
    BY <1>1, <2>1, FS_AddElement
  <2> QED BY <1>1, <1>2, <1>3, <2>1, <2>2 DEF Sign
<1>4. CASE id \notin Shorts
  <2>1. (S \cup {id}) \ Shorts = L \cup {id} /\ (S \cup {id}) \cap Shorts = H /\ id \notin L
    BY <1>4
  <2>2. Cardinality(L \cup {id}) = Cardinality(L) + 1
    BY <1>1, <2>1, FS_AddElement
  <2> QED BY <1>1, <1>2, <1>4, <2>1, <2>2 DEF Sign
<1> QED BY <1>3, <1>4

LEMMA BalanceRemove ==
  ASSUME NEW S \in SUBSET Ids, NEW id \in S
  PROVE  Balance(S \ {id}) = Balance(S) - Sign(id)
<1>1. S \ {id} \in SUBSET Ids /\ id \in Ids \ (S \ {id}) /\ (S \ {id}) \cup {id} = S
  OBVIOUS
<1>2. Balance(S) = Balance(S \ {id}) + Sign(id)
  BY <1>1, BalanceAdd
<1>3. Balance(S \ {id}) \in Int /\ Sign(id) \in Int
  <2>1. Balance(S \ {id}) \in Int
    BY <1>1, BalanceType
  <2> QED BY <2>1 DEF Sign
<1>4. \A a, b, c \in Int : a = b + c => b = a - c
  OBVIOUS
<1>5. Balance(S) \in Int
  BY BalanceType
<1> QED BY <1>2, <1>3, <1>4, <1>5

LEMMA BalanceLeans ==
  ASSUME NEW S \in SUBSET Ids, NEW id \in S, \A other \in S : Sign(other) = Sign(id)
  PROVE  Sign(id) * Balance(S) >= 1
<1>1. /\ IsFiniteSet(S \ Shorts) /\ IsFiniteSet(S \cap Shorts)
      /\ Cardinality(S \ Shorts) \in Nat /\ Cardinality(S \cap Shorts) \in Nat
  BY BalanceType
<1>2. Cardinality({}) = 0
  BY FS_EmptySet
<1>3. Balance(S) = Cardinality(S \ Shorts) - Cardinality(S \cap Shorts)
  BY DEF Balance
<1>4. CASE id \in Shorts
  <2>1. S \ Shorts = {} /\ S \cap Shorts # {} /\ Sign(id) = -1
    BY <1>4 DEF Sign
  <2>2. Cardinality(S \cap Shorts) # 0 /\ Cardinality(S \ Shorts) = 0
    BY <1>1, <1>2, <2>1, FS_EmptySet
  <2>3. \A n \in Nat : n # 0 => (-1) * (0 - n) >= 1
    OBVIOUS
  <2> QED BY <1>1, <1>3, <2>1, <2>2, <2>3
<1>5. CASE id \notin Shorts
  <2>1. S \cap Shorts = {} /\ S \ Shorts # {} /\ Sign(id) = 1
    BY <1>5 DEF Sign
  <2>2. Cardinality(S \ Shorts) # 0 /\ Cardinality(S \cap Shorts) = 0
    BY <1>1, <1>2, <2>1, FS_EmptySet
  <2>3. \A n \in Nat : n # 0 => 1 * (n - 0) >= 1
    OBVIOUS
  <2> QED BY <1>1, <1>3, <2>1, <2>2, <2>3
<1> QED BY <1>4, <1>5

\* A new record truncates nothing.
LEMMA RecordKeeps ==
  ASSUME TypeOK, Calm, RecordInv, NEW id \in Ids, status[id] = "none", Record(id, "PENDING")
  PROVE  /\ status' = [status EXCEPT ![id] = "PENDING"]
         /\ Len(records') = Cardinality(Recorded')
         /\ \A i \in Recorded' : \E k \in DOMAIN records' : records'[k] = i
<1>1. /\ records \in Seq(Ids) /\ Len(records) \in Nat /\ MaxRecords \in Nat
      /\ status \in [Ids -> Statuses] /\ IsFiniteSet(Ids)
  BY LiveMirrorAssumption DEF TypeOK, LiveMirrorAssumption, Statuses
<1>2. Recorded \in SUBSET Ids /\ id \notin Recorded
  BY DEF Recorded
<1>3. IsFiniteSet(Recorded) /\ Cardinality(Recorded) \in Nat /\ Cardinality(Ids) \in Nat
  BY <1>1, <1>2, FS_Subset, FS_CardinalityType
<1>4. Cardinality(Recorded \cup {id}) = Cardinality(Recorded) + 1
  BY <1>2, <1>3, FS_AddElement
<1>5. Cardinality(Recorded) < MaxRecords
  <2>1. Recorded \cup {id} \in SUBSET Ids
    BY <1>2
  <2>2. Cardinality(Recorded \cup {id}) <= Cardinality(Ids)
    BY <1>1, <2>1, FS_Subset
  <2>3. Cardinality(Ids) <= MaxRecords
    BY DEF Calm
  <2> QED BY <1>1, <1>3, <1>4, <2>2, <2>3
<1>6. Len(records) = Cardinality(Recorded)
  BY DEF RecordInv
<1>7. Kept(id) = <<id>> \o records
  BY <1>5, <1>6 DEF Kept
<1>8. /\ DOMAIN Kept(id) = 1..Len(records) + 1 /\ DOMAIN records = 1..Len(records)
      /\ Len(Kept(id)) = Len(records) + 1
      /\ Kept(id)[1] = id /\ \A k \in 1..Len(records) : Kept(id)[k + 1] = records[k]
  BY <1>1, <1>7
<1>9. \A i \in Recorded \cup {id} : \E k \in DOMAIN Kept(id) : Kept(id)[k] = i
  <2> SUFFICES ASSUME NEW i \in Recorded \cup {id}
               PROVE  \E k \in DOMAIN Kept(id) : Kept(id)[k] = i
    OBVIOUS
  <2>1. CASE i = id
    BY <1>1, <1>8, <2>1
  <2>2. CASE i \in Recorded
    <3>1. PICK k \in DOMAIN records : records[k] = i
      BY <2>2 DEF RecordInv
    <3>2. k + 1 \in DOMAIN Kept(id) /\ Kept(id)[k + 1] = i
      BY <1>1, <1>8, <3>1
    <3> QED BY <3>2
  <2> QED BY <2>1, <2>2
<1>10. \A i \in Ids : status'[i] = IF i = id THEN "PENDING" ELSE status[i]
  <2> SUFFICES ASSUME NEW i \in Ids
               PROVE  status'[i] = IF i = id THEN "PENDING" ELSE status[i]
    OBVIOUS
  <2>1. status'[i] = IF i = id THEN "PENDING"
                     ELSE IF \E k \in DOMAIN Kept(id) : Kept(id)[k] = i
                     THEN status[i] ELSE "none"
    BY DEF Record
  <2>2. CASE status[i] = "none"
    BY <2>1, <2>2
  <2>3. CASE status[i] # "none"
    BY <1>9, <2>1, <2>3 DEF Recorded
  <2> QED BY <2>2, <2>3
<1>11. status' = [status EXCEPT ![id] = "PENDING"]
  <2>1. status' \in [Ids -> Statuses]
    BY RecordType DEF Statuses
  <2> QED BY <1>1, <1>10, <2>1
<1>12. Recorded' = Recorded \cup {id}
  BY <1>10 DEF Recorded
<1>13. records' = Kept(id)
  BY DEF Record
<1> QED BY <1>4, <1>6, <1>8, <1>9, <1>11, <1>12, <1>13

LEMMA CountStep ==
  ASSUME Calm, TypeOK, StageInv, CountInv, [Next]_vars
  PROVE  CountInv'
<1>a. RecordInv /\ WorkerInv /\ FailsOpposed /\ net = Balance(Live)
  BY DEF CountInv
<1>b. ~MayFail /\ ~MayStayUnfilled /\ "crash" \notin Conditions /\ "close_all" \notin Conditions
  BY DEF Calm, MayFail, MayStayUnfilled
<1>c. \A id \in Ids : OneOpenEvent(id)
  BY DEF StageInv
<1>0. ASSUME UNCHANGED <<records, status, worker, closer, net>>,
             \A id \in Ids : Waiting(id)' => Waiting(id)
      PROVE  CountInv'
  <2>1. RecordInv' /\ WorkerInv'
    BY <1>a, <1>0 DEF RecordInv, WorkerInv, Recorded
  <2>2. FailsOpposed' /\ Live' = Live
    BY <1>a, <1>0 DEF FailsOpposed, Live, Held
  <2> QED BY <1>a, <1>0, <2>1, <2>2 DEF CountInv, Balance
<1>1. ASSUME NEW id \in Ids, PaperOpen(id) PROVE CountInv'
  <2>1. \A i \in Ids : Waiting(i)' => Waiting(i)
    BY <1>1, SameQueue DEF PaperOpen, memory, Waiting, TypeOK
  <2> QED BY <1>0, <1>1, <2>1 DEF PaperOpen, memory
<1>2. ASSUME NEW id \in Ids, OnPaperOpen(id) PROVE CountInv'
  <2>1. ASSUME NEW i \in Ids, Waiting(i)' PROVE Waiting(i)
    <3>1. CASE queue' = queue
      BY <1>2, <2>1, <3>1, SameQueue DEF OnPaperOpen, Waiting
    <3>2. CASE Enqueue(<<"open", id>>)
      <4>1. Queued(i)' => Queued(i) \/ i = id
        BY <3>2, EnqueueOpens DEF Event
      <4> QED BY <1>2, <2>1, <4>1 DEF OnPaperOpen, Waiting
    <3> QED BY <1>2, <3>1, <3>2 DEF OnPaperOpen
  <2> QED BY <1>0, <1>2, <2>1 DEF OnPaperOpen
<1>3. ASSUME NEW id \in Ids, OnPaperClose(id) PROVE CountInv'
  <2>1. ASSUME NEW i \in Ids, Waiting(i)' PROVE Waiting(i)
    <3>1. Queued(i)' => Queued(i)
      <4>1. CASE queue' = queue
        BY <4>1, SameQueue
      <4>2. CASE Enqueue(<<"close", id>>)
        BY <4>2, EnqueueOpens DEF Event
      <4> QED BY <1>3, <4>1, <4>2 DEF OnPaperClose
    <3> QED BY <1>3, <2>1, <3>1 DEF OnPaperClose, Waiting, TypeOK
  <2> QED BY <1>0, <1>3, <2>1 DEF OnPaperClose
<1>4. CASE (\E v \in BOOLEAN : SetEnabled(v)) \/ KillSwitch \/ UNCHANGED vars
  <2>1. UNCHANGED <<paper, hook, memory, net>>
    BY <1>4 DEF SetEnabled, KillSwitch, vars
  <2>2. \A i \in Ids : Waiting(i)' => Waiting(i)
    BY <2>1, SameQueue DEF memory, Waiting
  <2> QED BY <1>0, <2>1, <2>2 DEF memory
<1>5. ASSUME NEW id \in Ids, TakeOpen(id) PROVE CountInv'
  <2>1. \A i \in Ids : /\ Waiting(i)' => Waiting(i)
                       /\ i = id => Waiting(i) /\ ~Waiting(i)'
    <3> SUFFICES ASSUME NEW i \in Ids
                 PROVE  /\ Waiting(i)' => Waiting(i)
                        /\ i = id => Waiting(i) /\ ~Waiting(i)'
      OBVIOUS
    <3>1. /\ Queued(i)' => Queued(i)
          /\ i = id => Queued(i)
          /\ i = id /\ Unique(i) => ~Queued(i)'
      BY <1>5, TakeOpens DEF TakeOpen, Take
    <3> QED BY <1>c, <1>5, <3>1 DEF TakeOpen, Waiting, OneOpenEvent
  <2>2. CASE UNCHANGED <<records, status, tracked, worker>>
    BY <1>0, <1>5, <2>1, <2>2 DEF TakeOpen
  <2>3. CASE Record(id, "PENDING") /\ worker' = [pc |-> "entry", id |-> id]
    <3>1. status[id] = "none" /\ worker.pc = "idle"
      BY <1>a, <1>5, <2>1 DEF RecordInv, TakeOpen, Take
    <3>2. /\ status' = [status EXCEPT ![id] = "PENDING"]
          /\ Len(records') = Cardinality(Recorded')
          /\ \A i \in Recorded' : \E k \in DOMAIN records' : records'[k] = i
      BY <1>a, <2>3, <3>1, RecordKeeps
    <3>3. status'[id] = "PENDING" /\ \A i \in Ids \ {id} : status'[i] = status[i]
      BY <3>2 DEF TypeOK
    <3>4. RecordInv'
      BY <1>a, <2>1, <3>2, <3>3 DEF RecordInv
    <3>5. WorkerInv'
      BY <1>a, <1>5, <2>3, <3>3 DEF WorkerInv, TakeOpen
    <3>6. Live' = Live
      BY <2>3, <3>1, <3>3 DEF Live, Held
    <3>7. FailsOpposed'
      BY <1>a, <3>1, <3>3 DEF FailsOpposed
    <3> QED BY <1>a, <1>5, <3>4, <3>5, <3>6, <3>7 DEF CountInv, TakeOpen, Balance
  <2> QED BY <1>b, <1>5, <2>2, <2>3 DEF TakeOpen
<1>6. ASSUME NEW id \in Ids, TakeClose(id) PROVE CountInv'
  <2>1. worker.pc = "idle"
    BY <1>6 DEF TakeClose, Take
  <2>2. \A i \in Ids : Waiting(i)' => Waiting(i)
    <3> SUFFICES ASSUME NEW i \in Ids PROVE Waiting(i)' => Waiting(i)
      OBVIOUS
    <3>1. Queued(i)' => Queued(i)
      BY <1>6, TakeOpens DEF TakeClose, Take
    <3> QED BY <1>6, <3>1 DEF TakeClose, Waiting
  <2>3. UNCHANGED <<records, status, closer, net>>
    BY <1>6 DEF TakeClose
  <2>4. RecordInv'
    BY <1>a, <2>2, <2>3 DEF RecordInv, Recorded
  <2>5. \/ worker' = [pc |-> "exit", id |-> id] /\ status[id] = "OPEN"
        \/ worker' = Nobody
    BY <1>6 DEF TakeClose, Exits
  <2>6. WorkerInv'
    BY <1>a, <2>3, <2>5 DEF WorkerInv, Nobody
  <2>7. Live' = Live
    BY <2>1, <2>3, <2>5 DEF Live, Held, Nobody
  <2>8. FailsOpposed'
    BY <1>a, <2>3 DEF FailsOpposed
  <2> QED BY <1>a, <2>3, <2>4, <2>6, <2>7, <2>8 DEF CountInv, Balance
<1>7. CASE EntryOrder
  <2>1. /\ worker.pc = "entry" /\ net' = net + Sign(worker.id)
        /\ worker' = [worker EXCEPT !.pc = "filled"]
        /\ UNCHANGED <<paper, hook, queue, records, status, closer>>
    BY <1>b, <1>7 DEF EntryOrder
  <2>2. worker.id \in Ids /\ status[worker.id] = "PENDING"
    BY <1>a, <2>1 DEF WorkerInv
  <2>3. worker'.pc = "filled" /\ worker'.id = worker.id
    BY <2>1 DEF TypeOK
  <2>4. RecordInv'
    BY <1>a, <2>1, SameQueue DEF RecordInv, Recorded, Waiting
  <2>5. WorkerInv'
    BY <1>a, <2>1, <2>2, <2>3 DEF WorkerInv
  <2>6. Live' = Live \cup {worker.id} /\ worker.id \notin Live
    BY <2>1, <2>2, <2>3 DEF Live, Held
  <2>7. net' = Balance(Live')
    BY <1>a, <2>1, <2>2, <2>6, LiveType, BalanceAdd
  <2>8. FailsOpposed'
    BY <1>a, <2>1 DEF FailsOpposed
  <2> QED BY <2>4, <2>5, <2>7, <2>8 DEF CountInv, Balance
<1>8. CASE EntryAnswer
  <2>1. /\ worker.pc = "filled" /\ worker.id \in Ids /\ status[worker.id] = "PENDING"
        /\ worker' = Nobody /\ UNCHANGED <<paper, hook, queue, records, closer, net>>
    BY <1>a, <1>8 DEF EntryAnswer, WorkerInv
  <2>2. status' = [status EXCEPT ![worker.id] = "OPEN"]
    BY <1>8, <2>1 DEF EntryAnswer, Update
  <2>3. status'[worker.id] = "OPEN" /\ \A i \in Ids \ {worker.id} : status'[i] = status[i]
    BY <2>1, <2>2 DEF TypeOK
  <2>4. Recorded' = Recorded
    BY <2>1, <2>3 DEF Recorded
  <2>5. RecordInv'
    <3>1. \A i \in Ids : Waiting(i)' => Waiting(i)
      BY <2>1, SameQueue DEF Waiting
    <3> QED BY <1>a, <2>1, <2>3, <2>4, <3>1 DEF RecordInv
  <2>6. WorkerInv'
    BY <1>a, <2>1 DEF WorkerInv, Nobody
  <2>7. Live' = Live
    BY <2>1, <2>3 DEF Live, Held, Nobody
  <2>8. FailsOpposed'
    BY <1>a, <2>1, <2>3 DEF FailsOpposed
  <2> QED BY <1>a, <2>1, <2>5, <2>6, <2>7, <2>8 DEF CountInv, Balance
<1>9. CASE WorkerExit
  <2>1. /\ worker.pc = "exit" /\ ExitOrder(worker.id) /\ worker' = Nobody
        /\ UNCHANGED <<paper, hook, queue, records, closer>>
    BY <1>9 DEF WorkerExit
  <2>2. worker.id \in Ids /\ status[worker.id] = "OPEN"
    BY <1>a, <2>1 DEF WorkerInv
  <2>3. Live \in SUBSET Ids /\ worker.id \in Live /\ Balance(Live) \in Int
    BY <1>a, <2>2, LiveType, BalanceType DEF Live, Held
  <2>4. ASSUME NEW st \in {"CLOSED", "FAILED"}, Update(worker.id, st)
        PROVE  /\ status'[worker.id] = st /\ \A i \in Ids \ {worker.id} : status'[i] = status[i]
               /\ RecordInv' /\ WorkerInv'
    <3>1. status'[worker.id] = st /\ \A i \in Ids \ {worker.id} : status'[i] = status[i]
      BY <2>2, <2>4 DEF Update, TypeOK
    <3>2. Recorded' = Recorded
      BY <2>2, <3>1 DEF Recorded
    <3>3. \A i \in Ids : Waiting(i)' => Waiting(i)
      BY <2>1, SameQueue DEF Waiting
    <3>4. RecordInv'
      BY <1>a, <2>1, <2>2, <3>1, <3>2, <3>3 DEF RecordInv
    <3>5. WorkerInv'
      BY <1>a, <2>1 DEF WorkerInv, Nobody
    <3> QED BY <3>1, <3>4, <3>5
  <2>5. CASE /\ OnSide(Sign(worker.id))
             /\ \E n \in Fills(Sign(worker.id), 1) : net' = net - Sign(worker.id) * n
             /\ Update(worker.id, "CLOSED")
    <3>0. \A n \in Fills(Sign(worker.id), 1) : n = 1
      BY <1>a, <1>b, <2>3, <2>5 DEF OnSide, Fills, Whole, Sign
    <3>1. net' = net - Sign(worker.id)
      BY <1>a, <2>3, <2>5, <3>0 DEF Sign
    <3>2. Live' = Live \ {worker.id}
      BY <2>1, <2>2, <2>4, <2>5 DEF Live, Held, Nobody
    <3>3. net' = Balance(Live')
      BY <1>a, <2>3, <3>1, <3>2, BalanceRemove
    <3>4. FailsOpposed'
      BY <1>a, <2>2, <2>4, <2>5 DEF FailsOpposed
    <3> QED BY <2>4, <2>5, <3>3, <3>4 DEF CountInv, Balance
  <2>6. CASE ~OnSide(Sign(worker.id)) /\ net' = net /\ Update(worker.id, "FAILED")
    <3>1. Live' = Live
      BY <2>1, <2>2, <2>4, <2>6 DEF Live, Held, Nobody
    <3>2. Sign(worker.id) * Balance(Live) < 1
      BY <1>a, <2>3, <2>6 DEF OnSide, Sign
    <3>3. PICK other \in Live : Sign(other) # Sign(worker.id)
      BY <2>3, <3>2, BalanceLeans DEF Sign
    <3>4. other \in Ids /\ status[other] # "none"
      BY <2>1, <2>3, <3>3 DEF Live, Held
    <3>5. status'[other] # "none"
      BY <2>4, <2>6, <3>4
    <3>6. FailsOpposed'
      BY <1>a, <2>2, <2>4, <2>6, <3>3, <3>4, <3>5 DEF FailsOpposed
    <3> QED BY <1>a, <2>4, <2>6, <3>1, <3>6 DEF CountInv, Balance
  <2> QED BY <1>b, <2>1, <2>5, <2>6 DEF ExitOrder
<1>10. CASE Crash \/ CloseAllBegin
  BY <1>b, <1>10 DEF Crash, CloseAllBegin
<1>11. CASE CloseAll
  BY <1>a, <1>11 DEF CloseAll, CloseAllExit, CloseAllRead, CloseAllFlatten, CloseAllTake, WorkerInv
<1> QED
  BY <1>1, <1>2, <1>3, <1>4, <1>5, <1>6, <1>7, <1>8, <1>9, <1>10, <1>11
     DEF Next, PaperBook, Worker

\* Without faults and with no record truncated, the trades shown as OPEN, and those whose
\* exit was rejected against the other side, are what the venue holds, however many events
\* the queue dropped.
THEOREM MirrorIsExact ==
  ASSUME Calm PROVE Spec => []NetMatchesTrades
<1>1. Init => CountInv
  <2> SUFFICES ASSUME Init PROVE CountInv
    OBVIOUS
  <2>1. Recorded = {} /\ Live = {} /\ Len(records) = 0 /\ FailsOpposed
    BY DEF Init, Recorded, Live, Held, Nobody, FailsOpposed
  <2>2. Cardinality({}) = 0 /\ Live \ Shorts = {} /\ Live \cap Shorts = {}
    BY <2>1, FS_EmptySet
  <2>3. Balance(Live) = 0
    BY <2>2 DEF Balance
  <2> QED BY <2>1, <2>2, <2>3 DEF Init, CountInv, RecordInv, WorkerInv, Nobody
<1>2. Calm /\ TypeOK /\ StageInv /\ CountInv /\ [Next]_vars => CountInv'
  BY CountStep
<1>3. CountInv => NetMatchesTrades
  <2>1. CountInv /\ Quiet => Live = Held
    BY DEF CountInv, Quiet, Live
  <2> QED BY <2>1 DEF CountInv, NetMatchesTrades, Balance
<1>4. Calm
  OBVIOUS
<1> QED BY <1>1, <1>2, <1>3, <1>4, StageHolds, PTL DEF Spec

=============================================================================
