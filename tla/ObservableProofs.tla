-------------------------- MODULE ObservableProofs --------------------------
(***************************************************************************)
(* Proofs about Observable, for any number of subscriptions, any limit of  *)
(* the events queues, any number of values and faults, and whichever calls *)
(* the owners make.                                                        *)
(***************************************************************************)
EXTENDS Observable, SequenceTheorems, TLAPS

Events == {"next", "error", "completed"}

Queue == [exists: BOOLEAN, pending: Seq({"next", "error", "completed"}),
          executing: {"none", "next", "error", "completed"},
          pc: {"none", "scheduled", "callback", "done", "failed"},
          cancelled: BOOLEAN, ready: Nat]

Subscription ==
    [status: {"none", "subscribed", "removed", "disposed"}, queue: Queue,
     completedScheduled: BOOLEAN, disposing: BOOLEAN, completedCalled: BOOLEAN]

Observer == [next: BOOLEAN, error: BOOLEAN, completed: BOOLEAN, threw: BOOLEAN,
             collected: BOOLEAN]

-----------------------------------------------------------------------------
(* Queues                                                                  *)

\* An events queue executes what was pushed first, and one task at a time.
QueueShape(q) ==
    /\ q.executing = "none" <=> q.pc = "none"
    /\ q.executing = "none" => q.pending = <<>> /\ ~q.cancelled
    /\ ~q.exists => q.pending = <<>> /\ q.executing = "none" /\ q.ready = 0

\* The event is queued.
Waits(q, event) == \E i \in DOMAIN q.pending : q.pending[i] = event

\* The event is queued or executing.
Has(q, event) == q.executing = event \/ Waits(q, event)

\* What may be queued before what.
Before(a, b) == a = "next" \/ (a = "error" /\ b = "completed")

Ordered(q) ==
    /\ \A i, j \in DOMAIN q.pending : i < j => Before(q.pending[i], q.pending[j])
    /\ q.executing # "none" => \A i \in DOMAIN q.pending : Before(q.executing, q.pending[i])

\* Two queues that differ in the place of the event that executes only.
SameEvents(q, r) ==
    /\ r.exists = q.exists /\ r.pending = q.pending /\ r.executing = q.executing
    /\ r.cancelled = q.cancelled /\ r.ready = q.ready

(***************************************************************************)
(* Events that wait make the list of pending events nonempty, and an empty *)
(* queue has none.                                                         *)
(***************************************************************************)
LEMMA WaitsInQueue ==
  ASSUME NEW q \in Queue
  PROVE  /\ \A e : Waits(q, e) => e \in Events /\ q.pending # <<>>
         /\ (\A e \in Events : ~Waits(q, e)) => q.pending = <<>>
         /\ q.pending = <<>> => \A e : ~Waits(q, e)
<1>1. q.pending \in Seq(Events)
  BY DEF Queue, Events
<1>2. ASSUME NEW e, Waits(q, e) PROVE e \in Events /\ q.pending # <<>>
  <2>1. PICK i \in DOMAIN q.pending : q.pending[i] = e
    BY <1>2 DEF Waits
  <2>2. q.pending[i] \in Events /\ Len(q.pending) > 0
    BY <1>1, <2>1
  <2> QED BY <1>1, <2>1, <2>2
<1>3. ASSUME q.pending # <<>> PROVE \E e \in Events : Waits(q, e)
  <2>1. Len(q.pending) > 0 /\ 1 \in DOMAIN q.pending
    BY <1>1, <1>3
  <2>2. q.pending[1] \in Events
    BY <1>1, <2>1
  <2> QED BY <2>1, <2>2 DEF Waits
<1> QED BY <1>2, <1>3

(***************************************************************************)
(* A queue that does not exist, or was reset.                              *)
(***************************************************************************)
LEMMA NoQueueFacts ==
  /\ NoQueue \in Queue /\ QueueShape(NoQueue) /\ Ordered(NoQueue)
  /\ ~NoQueue.exists /\ NoQueue.pending = <<>> /\ NoQueue.executing = "none"
  /\ NoQueue.pc = "none" /\ ~NoQueue.cancelled /\ NoQueue.ready = 0
  /\ \A e \in Events : ~Has(NoQueue, e)
<1>1. <<>> \in Seq({"next", "error", "completed"}) /\ DOMAIN <<>> = {}
  BY SMT
<1>2. /\ NoQueue.exists = FALSE /\ NoQueue.pending = <<>> /\ NoQueue.executing = "none"
      /\ NoQueue.pc = "none" /\ NoQueue.cancelled = FALSE /\ NoQueue.ready = 0
  BY DEF NoQueue
<1>3. NoQueue \in Queue
  BY <1>1 DEF NoQueue, Queue
<1>4. QueueShape(NoQueue) /\ Ordered(NoQueue)
  BY <1>1, <1>2, Zenon DEF QueueShape, Ordered
<1>5. ASSUME NEW e \in Events PROVE ~Has(NoQueue, e)
  <2>1. e # "none"
    BY DEF Events
  <2> QED BY <1>1, <1>2, <2>1, Zenon DEF Has, Waits
<1> QED BY <1>2, <1>3, <1>4, <1>5

(***************************************************************************)
(* A flush leaves nothing but the event that executes, which it cancels.   *)
(***************************************************************************)
LEMMA FlushFacts ==
  ASSUME NEW q \in Queue, QueueShape(q)
  PROVE  /\ Flush(q) \in Queue /\ QueueShape(Flush(q)) /\ Ordered(Flush(q))
         /\ Flush(q).exists = q.exists /\ Flush(q).executing = q.executing
         /\ Flush(q).pc = q.pc /\ Flush(q).ready = 0 /\ Flush(q).pending = <<>>
         /\ Flush(q).cancelled <=> q.executing # "none"
         /\ \A e \in Events : ~Waits(Flush(q), e)
<1>1. PICK c \in BOOLEAN : c = (q.cancelled \/ q.executing # "none")
  OBVIOUS
<1>2. PICK z \in Seq({"next", "error", "completed"}) : z = <<>>
  BY NoQueueFacts DEF Queue
<1>3. Flush(q) = [q EXCEPT !.pending = z, !.ready = 0, !.cancelled = c]
  BY <1>1, <1>2, Zenon DEF Flush
<1> DEFINE f == [q EXCEPT !.pending = z, !.ready = 0, !.cancelled = c]
<1>4. /\ f \in Queue
      /\ f.exists = q.exists /\ f.executing = q.executing
      /\ f.pc = q.pc /\ f.ready = 0 /\ f.pending = z
      /\ f.cancelled = c
  BY DEF Queue
<1> HIDE DEF f
<1>5. Flush(q) = f
  BY <1>3 DEF f
<1>6. DOMAIN <<>> = {}
  OBVIOUS
<1>7. (Flush(q).cancelled <=> q.executing # "none") /\ QueueShape(Flush(q))
  BY <1>1, <1>2, <1>4, <1>5 DEF QueueShape
<1>8. Ordered(Flush(q))
  BY <1>2, <1>4, <1>5, <1>6, Zenon DEF Ordered
<1>9. \A e \in Events : ~Waits(Flush(q), e)
  BY <1>2, <1>4, <1>5, <1>6, Zenon DEF Waits
<1> QED BY <1>1, <1>2, <1>4, <1>5, <1>7, <1>8, <1>9

(***************************************************************************)
(* An event that is pushed executes at once, or is queued behind the       *)
(* others.                                                                 *)
(***************************************************************************)
LEMMA PushFacts ==
  ASSUME NEW q \in Queue, QueueShape(q), NEW event \in Events
  PROVE  /\ Push(q, event) \in Queue /\ QueueShape(Push(q, event))
         /\ Push(q, event).exists /\ Push(q, event).ready = q.ready
         /\ Push(q, event).cancelled = q.cancelled
         /\ IF q.executing = "none"
            THEN /\ Push(q, event).executing = event /\ Push(q, event).pc = "scheduled"
                 /\ \A e \in Events : ~Waits(Push(q, event), e)
            ELSE /\ Push(q, event).executing = q.executing /\ Push(q, event).pc = q.pc
                 /\ \A e \in Events : Waits(Push(q, event), e) <=> Waits(q, e) \/ e = event
         /\ Ordered(q) /\ (\A e \in Events : Has(q, e) => Before(e, event))
               => Ordered(Push(q, event))
<1> DEFINE r == [q EXCEPT !.exists = TRUE]
           p == Push(q, event)
<1>1. /\ r \in Queue /\ r.exists = TRUE /\ r.pending = q.pending /\ r.executing = q.executing
      /\ r.pc = q.pc /\ r.cancelled = q.cancelled /\ r.ready = q.ready
  BY DEF Queue
<1>2. p = IF r.executing = "none" THEN Started(r, event)
          ELSE [r EXCEPT !.pending = Append(@, event)]
  BY Zenon DEF Push
<1> HIDE DEF r, p
<1>3. q.pending \in Seq(Events) /\ q.cancelled \in BOOLEAN
  BY DEF Queue, Events
<1>4. CASE q.executing = "none"
  <2>1. p = [r EXCEPT !.executing = event, !.pc = "scheduled", !.cancelled = FALSE]
    BY <1>1, <1>2, <1>4, Zenon DEF Started
  <2>2. /\ p \in Queue /\ p.exists = TRUE /\ p.pending = q.pending /\ p.executing = event
        /\ p.pc = "scheduled" /\ p.cancelled = FALSE /\ p.ready = q.ready
    BY <1>1, <2>1 DEF Queue, Events
  <2>3. q.pending = <<>> /\ q.cancelled = FALSE /\ DOMAIN q.pending = {}
    BY <1>3, <1>4 DEF QueueShape
  <2>4. event # "none"
    BY DEF Events
  <2>5. QueueShape(p)
    BY <2>2, <2>3, <2>4 DEF QueueShape
  <2>6. Ordered(p) /\ \A e \in Events : ~Waits(p, e)
    BY <2>2, <2>3, Zenon DEF Ordered, Waits
  <2> QED BY <1>4, <2>2, <2>3, <2>5, <2>6 DEF p
<1>5. CASE q.executing # "none"
  <2> DEFINE z == Append(q.pending, event)
  <2>1. /\ z \in Seq(Events) /\ Len(z) = Len(q.pending) + 1
        /\ \A i \in 1..Len(q.pending) : z[i] = q.pending[i]
        /\ z[Len(q.pending) + 1] = event
    BY <1>3
  <2>2. DOMAIN z = 1..(Len(q.pending) + 1) /\ DOMAIN q.pending = 1..Len(q.pending)
    BY <1>3, <2>1
  <2>3. p = [r EXCEPT !.pending = z]
    BY <1>1, <1>2, <1>5, Zenon
  <2> HIDE DEF z
  <2>4. /\ p \in Queue /\ p.exists = TRUE /\ p.pending = z /\ p.executing = q.executing
        /\ p.pc = q.pc /\ p.cancelled = q.cancelled /\ p.ready = q.ready
    BY <1>1, <2>1, <2>3 DEF Queue, Events
  <2>5. QueueShape(p)
    BY <1>5, <2>4 DEF QueueShape
  <2>6. Len(q.pending) \in Nat
    BY <1>3
  <2>7. ASSUME NEW e \in Events PROVE Waits(p, e) <=> Waits(q, e) \/ e = event
    <3>1. ASSUME Waits(p, e), e # event PROVE Waits(q, e)
      <4>1. PICK i \in DOMAIN z : z[i] = e
        BY <2>4, <3>1, Zenon DEF Waits
      <4>2. i \in DOMAIN q.pending /\ q.pending[i] = e
        BY <2>1, <2>2, <2>6, <3>1, <4>1
      <4> QED BY <4>2, Zenon DEF Waits
    <3>2. ASSUME Waits(q, e) PROVE Waits(p, e)
      <4>1. PICK i \in DOMAIN q.pending : q.pending[i] = e
        BY <3>2, Zenon DEF Waits
      <4>2. i \in DOMAIN z /\ z[i] = e
        BY <2>1, <2>2, <2>6, <4>1
      <4> QED BY <2>4, <4>2, Zenon DEF Waits
    <3>3. Waits(p, event)
      <4>1. Len(q.pending) + 1 \in DOMAIN z /\ z[Len(q.pending) + 1] = event
        BY <2>1, <2>2, <2>6
      <4> QED BY <2>4, <4>1, Zenon DEF Waits
    <3> QED BY <3>1, <3>2, <3>3
  <2>8. ASSUME Ordered(q), \A e \in Events : Has(q, e) => Before(e, event)
        PROVE  Ordered(p)
    <3>1. ASSUME NEW i \in DOMAIN q.pending PROVE Before(q.pending[i], event)
      <4>1. q.pending[i] \in Events /\ Waits(q, q.pending[i])
        BY <1>3, <3>1 DEF Waits
      <4> QED BY <2>8, <4>1, Zenon DEF Has
    <3>2. Before(q.executing, event)
      <4>1. q.executing \in Events
        BY <1>5 DEF Queue, Events
      <4> QED BY <2>8, <4>1, Zenon DEF Has
    <3>3. ASSUME NEW i \in DOMAIN z, NEW j \in DOMAIN z, i < j PROVE Before(z[i], z[j])
      <4>1. i \in DOMAIN q.pending /\ z[i] = q.pending[i]
        BY <2>1, <2>2, <2>6, <3>3
      <4>2. CASE j \in DOMAIN q.pending
        <5>1. z[j] = q.pending[j]
          BY <2>1, <2>2, <4>2
        <5> QED BY <2>8, <3>3, <4>1, <4>2, <5>1 DEF Ordered
      <4>3. CASE j \notin DOMAIN q.pending
        <5>1. z[j] = event
          BY <2>1, <2>2, <2>6, <4>3
        <5> QED BY <3>1, <4>1, <5>1
      <4> QED BY <4>2, <4>3
    <3>4. ASSUME NEW i \in DOMAIN z PROVE Before(q.executing, z[i])
      <4>1. CASE i \in DOMAIN q.pending
        <5>1. z[i] = q.pending[i]
          BY <2>1, <2>2, <4>1
        <5> QED BY <1>5, <2>8, <4>1, <5>1 DEF Ordered
      <4>2. CASE i \notin DOMAIN q.pending
        <5>1. z[i] = event
          BY <2>1, <2>2, <2>6, <4>2
        <5> QED BY <3>2, <5>1
      <4> QED BY <4>1, <4>2
    <3> QED BY <2>4, <3>3, <3>4, Zenon DEF Ordered
  <2> QED BY <1>5, <2>4, <2>5, <2>7, <2>8 DEF p
<1> QED BY <1>4, <1>5

(***************************************************************************)
(* onReady(): the event that executed is over, the first one that was      *)
(* queued executes.                                                        *)
(***************************************************************************)
AfterReady(q) ==
    LET r == [q EXCEPT !.ready = @ + IF q.pc = "failed" THEN 1 ELSE 0,
                       !.executing = "none", !.pc = "none", !.cancelled = FALSE]
    IN  IF q.pending = <<>> THEN r
        ELSE Started([r EXCEPT !.pending = Tail(@)], Head(q.pending))

LEMMA AfterReadyFacts ==
  ASSUME NEW q \in Queue, QueueShape(q), q.exists
  PROVE  /\ AfterReady(q) \in Queue /\ QueueShape(AfterReady(q))
         /\ AfterReady(q).exists /\ ~AfterReady(q).cancelled
         /\ AfterReady(q).ready = q.ready + IF q.pc = "failed" THEN 1 ELSE 0
         /\ IF AfterReady(q).executing = "none"
            THEN AfterReady(q).pc = "none" /\ \A e \in Events : ~Waits(q, e)
            ELSE AfterReady(q).pc = "scheduled" /\ Waits(q, AfterReady(q).executing)
         /\ \A e \in Events : Has(AfterReady(q), e) <=> Waits(q, e)
         /\ Ordered(q) => Ordered(AfterReady(q))
<1> DEFINE n == q.ready + IF q.pc = "failed" THEN 1 ELSE 0
           r == [q EXCEPT !.ready = n, !.executing = "none", !.pc = "none",
                          !.cancelled = FALSE]
           a == AfterReady(q)
<1>1. n \in Nat
  BY DEF Queue
<1>2. a = IF q.pending = <<>> THEN r
          ELSE Started([r EXCEPT !.pending = Tail(@)], Head(q.pending))
  BY Zenon DEF AfterReady
<1> HIDE DEF n, a
<1>3. /\ r \in Queue /\ r.exists = TRUE /\ r.pending = q.pending /\ r.executing = "none"
      /\ r.pc = "none" /\ r.cancelled = FALSE /\ r.ready = n
  BY <1>1 DEF Queue
<1> HIDE DEF r
<1>4. q.pending \in Seq(Events)
  BY DEF Queue, Events
<1>5. CASE q.pending = <<>>
  <2>1. a = r /\ DOMAIN q.pending = {}
    BY <1>2, <1>5
  <2>2. QueueShape(a)
    BY <1>3, <1>5, <2>1 DEF QueueShape
  <2>3. /\ \A e \in Events : ~Waits(a, e) /\ ~Waits(q, e)
        /\ Ordered(a)
    BY <1>3, <2>1, Zenon DEF Waits, Ordered
  <2>4. \A e \in Events : e # "none"
    BY DEF Events
  <2>5. \A e \in Events : ~Has(a, e)
    BY <1>3, <2>1, <2>3, <2>4, Zenon DEF Has
  <2> QED BY <1>3, <2>1, <2>2, <2>3, <2>5 DEF a, n
<1>6. CASE q.pending # <<>>
  <2> DEFINE h == Head(q.pending)
             z == Tail(q.pending)
  <2>1. /\ h \in Events /\ z \in Seq(Events) /\ Len(z) = Len(q.pending) - 1
        /\ Len(q.pending) \in Nat \ {0} /\ h = q.pending[1]
        /\ \A i \in 1..Len(z) : z[i] = q.pending[i + 1]
    BY <1>4, <1>6
  <2>2. DOMAIN z = 1..(Len(q.pending) - 1) /\ DOMAIN q.pending = 1..Len(q.pending)
    BY <1>4, <2>1
  <2>3. a = [[r EXCEPT !.pending = z] EXCEPT !.executing = h, !.pc = "scheduled",
                                             !.cancelled = FALSE]
    BY <1>2, <1>3, <1>6, Zenon DEF Started
  <2> HIDE DEF z, h
  <2>4. /\ a \in Queue /\ a.exists = TRUE /\ a.pending = z /\ a.executing = h
        /\ a.pc = "scheduled" /\ a.cancelled = FALSE /\ a.ready = n
    BY <1>3, <2>1, <2>3 DEF Queue, Events
  <2>5. h # "none" /\ QueueShape(a)
    BY <2>1, <2>4 DEF QueueShape, Events
  <2>6. Waits(q, h)
    BY <2>1, <2>2 DEF Waits
  <2>7. ASSUME NEW e \in Events PROVE Has(a, e) <=> Waits(q, e)
    <3>1. ASSUME Waits(a, e) PROVE Waits(q, e)
      <4>1. PICK i \in DOMAIN z : z[i] = e
        BY <2>4, <3>1, Zenon DEF Waits
      <4>2. i + 1 \in DOMAIN q.pending /\ q.pending[i + 1] = e
        BY <2>1, <2>2, <4>1
      <4> QED BY <4>2, Zenon DEF Waits
    <3>2. ASSUME Waits(q, e), e # h PROVE Waits(a, e)
      <4>1. PICK i \in DOMAIN q.pending : q.pending[i] = e
        BY <3>2, Zenon DEF Waits
      <4>2. i - 1 \in DOMAIN z /\ z[i - 1] = e
        BY <2>1, <2>2, <3>2, <4>1
      <4> QED BY <2>4, <4>2, Zenon DEF Waits
    <3> QED BY <2>4, <2>6, <3>1, <3>2 DEF Has
  <2>8. ASSUME Ordered(q) PROVE Ordered(a)
    <3>1. ASSUME NEW i \in DOMAIN z, NEW j \in DOMAIN z, i < j PROVE Before(z[i], z[j])
      <4>1. /\ i + 1 \in DOMAIN q.pending /\ j + 1 \in DOMAIN q.pending /\ i + 1 < j + 1
            /\ z[i] = q.pending[i + 1] /\ z[j] = q.pending[j + 1]
        BY <2>1, <2>2, <3>1
      <4> QED BY <2>8, <4>1 DEF Ordered
    <3>2. ASSUME NEW i \in DOMAIN z PROVE Before(h, z[i])
      <4>1. /\ 1 \in DOMAIN q.pending /\ i + 1 \in DOMAIN q.pending /\ 1 < i + 1
            /\ z[i] = q.pending[i + 1]
        BY <2>1, <2>2, <3>2
      <4> QED BY <2>1, <2>8, <4>1 DEF Ordered
    <3> QED BY <2>4, <3>1, <3>2, Zenon DEF Ordered
  <2> QED BY <2>4, <2>5, <2>6, <2>7, <2>8 DEF a, n
<1> QED BY <1>5, <1>6

-----------------------------------------------------------------------------
(* What the actions do to subscriptions                                    *)

\* Subscriptions that do not exist have no queue.
ShapeKnown ==
    \A s \in Subscriptions :
        /\ QueueShape(sub[s].queue)
        /\ sub[s].status # "subscribed" => ~sub[s].queue.exists

\* What the holder of m_lock is doing.
LockKnown ==
    /\ lock.by = "none" => lock.todo = {}
    /\ \A s \in lock.todo : sub[s].status = "subscribed"
    /\ lock.by = "run" =>
          /\ lock.at \in {"loop", "emit", "failing", "ending"}
          /\ lock.at = "ending" <=> obs.completed
          /\ lock.at # "ending" => ~obs.notifyCompleteOnError
    /\ lock.by = "dispose" => obs.disposer
    /\ lock.by = "unsubscribe" => \A s, t \in lock.todo : s = t

BaseInv == TypeOK /\ ShapeKnown /\ LockKnown

ObsType == [running: BOOLEAN, completed: BOOLEAN, disposed: BOOLEAN,
            notifyCompleteOnError: BOOLEAN, dispatched: BOOLEAN,
            exception: BOOLEAN, disposer: BOOLEAN, values: 0..MaxValues]

LockType == [by: {"none", "run", "dispose", "unsubscribe"},
             at: {"none", "loop", "emit", "failing", "ending", "flushing"},
             todo: SUBSET Subscriptions, failed: BOOLEAN]

(***************************************************************************)
(* The types by name.                                                      *)
(***************************************************************************)
LEMMA TypeNames ==
  TypeOK <=> /\ obs \in ObsType /\ sub \in [Subscriptions -> Subscription]
             /\ lock \in LockType /\ seen \in [Subscriptions -> Observer]
             /\ faults \in 0..MaxFaults
BY Zenon DEF TypeOK, ObsType, LockType, Subscription, Queue, Observer

LEMMA TypeNamesNext ==
  TypeOK' <=> /\ obs' \in ObsType /\ sub' \in [Subscriptions -> Subscription]
              /\ lock' \in LockType /\ seen' \in [Subscriptions -> Observer]
              /\ faults' \in 0..MaxFaults
BY Zenon DEF TypeOK, ObsType, LockType, Subscription, Queue, Observer

LEMMA Typed ==
  ASSUME BaseInv, NEW s \in Subscriptions
  PROVE  /\ sub \in [Subscriptions -> Subscription]
         /\ seen \in [Subscriptions -> Observer]
         /\ sub[s] \in Subscription /\ sub[s].queue \in Queue /\ QueueShape(sub[s].queue)
         /\ sub[s].status # "subscribed" => ~sub[s].queue.exists
         /\ seen[s] \in Observer
BY TypeNames DEF BaseInv, ShapeKnown, Subscription

\* The rest of a subscription does not change.
SameSubscription(s) ==
    /\ sub'[s].status = sub[s].status /\ sub'[s].disposing = sub[s].disposing
    /\ sub'[s].completedScheduled = sub[s].completedScheduled
    /\ sub'[s].completedCalled = sub[s].completedCalled

\* Nothing happens to other subscriptions.
OthersKept(s) == \A t \in Subscriptions : t # s => sub'[t] = sub[t]

OthersNotCalled(s) == \A t \in Subscriptions : t # s => seen'[t] = seen[t]

(***************************************************************************)
(* A subscription gets another queue.                                      *)
(***************************************************************************)
LEMMA QueueMoves ==
  ASSUME sub \in [Subscriptions -> Subscription], NEW s \in Subscriptions,
         NEW q \in Queue, sub' = [sub EXCEPT ![s].queue = q]
  PROVE  /\ sub' \in [Subscriptions -> Subscription]
         /\ sub'[s].queue = q /\ SameSubscription(s) /\ OthersKept(s)
BY DEF Subscription, SameSubscription, OthersKept

LEMMA BeginEventShape ==
  ASSUME BaseInv, NEW s \in Subscriptions, BeginEvent(s)
  PROVE  /\ sub' \in [Subscriptions -> Subscription]
         /\ seen' \in [Subscriptions -> Observer]
         /\ OthersKept(s) /\ OthersNotCalled(s)
         /\ SameEvents(sub[s].queue, sub'[s].queue)
         /\ sub'[s].status = sub[s].status /\ sub'[s].disposing = sub[s].disposing
         /\ sub'[s].completedScheduled = sub[s].completedScheduled
         /\ seen'[s].threw = seen[s].threw
         /\ sub[s].queue.pc = "scheduled"
         /\ sub'[s].queue.pc \in {"callback", "done", "failed"}
         /\ sub'[s].queue.pc = "callback" <=>
               /\ ~sub[s].queue.cancelled
               /\ ~(sub[s].queue.executing = "completed" /\ sub[s].completedCalled)
         /\ sub'[s].queue.pc = "failed" <=>
               sub[s].queue.cancelled /\ sub[s].queue.executing # "next"
         /\ sub'[s].completedCalled <=> \/ sub[s].completedCalled
                                        \/ /\ sub'[s].queue.pc = "callback"
                                           /\ sub[s].queue.executing = "completed"
         /\ seen'[s].completed <=> \/ seen[s].completed
                                   \/ /\ sub'[s].queue.pc = "callback"
                                      /\ sub[s].queue.executing = "completed"
         /\ seen'[s].error <=> \/ seen[s].error
                               \/ /\ sub'[s].queue.pc = "callback"
                                  /\ sub[s].queue.executing = "error"
<1> DEFINE q == sub[s].queue
<1>1. /\ sub[s] \in Subscription /\ q \in Queue /\ seen[s] \in Observer
      /\ sub \in [Subscriptions -> Subscription] /\ seen \in [Subscriptions -> Observer]
  BY Typed
<1>2. PICK called \in BOOLEAN :
        called = (~q.cancelled /\ ~(q.executing = "completed" /\ sub[s].completedCalled))
  OBVIOUS
<1>3. PICK p \in {"callback", "done", "failed"} :
        p = CASE called -> "callback"
              [] q.cancelled /\ q.executing # "next" -> "failed"
              [] OTHER -> "done"
  OBVIOUS
<1>4. PICK b \in BOOLEAN : b = (sub[s].completedCalled \/ (called /\ q.executing = "completed"))
  OBVIOUS
<1>5. PICK c \in BOOLEAN : c = (seen[s].completed \/ (called /\ q.executing = "completed"))
  OBVIOUS
<1>6. PICK e \in BOOLEAN : e = (seen[s].error \/ (called /\ q.executing = "error"))
  OBVIOUS
<1> DEFINE n == seen[s].next \/ (called /\ q.executing = "next")
<1>7. /\ q.pc = "scheduled"
      /\ sub' = [sub EXCEPT ![s].queue.pc = p, ![s].completedCalled = b]
      /\ seen' = [seen EXCEPT ![s].next = n, ![s].error = e, ![s].completed = c]
  BY <1>1, <1>2, <1>3, <1>4, <1>5, <1>6, Zenon DEF BeginEvent
<1>7a. n \in BOOLEAN
  BY <1>2
<1> HIDE DEF n
<1> DEFINE r == [q EXCEPT !.pc = p]
<1>8. r \in Queue /\ SameEvents(q, r) /\ r.pc = p
  BY <1>1, <1>3 DEF Queue, SameEvents
<1>9. /\ sub' \in [Subscriptions -> Subscription]
      /\ sub'[s].queue = r /\ sub'[s].completedCalled = b
      /\ sub'[s].status = sub[s].status /\ sub'[s].disposing = sub[s].disposing
      /\ sub'[s].completedScheduled = sub[s].completedScheduled
      /\ OthersKept(s)
  BY <1>1, <1>7, <1>8 DEF Subscription, OthersKept
<1>10. /\ seen' \in [Subscriptions -> Observer]
       /\ seen'[s].error = e /\ seen'[s].completed = c /\ seen'[s].threw = seen[s].threw
       /\ OthersNotCalled(s)
  BY <1>1, <1>7, <1>7a DEF Observer, OthersNotCalled
<1> HIDE DEF r
<1>11. /\ p = "callback" <=> called
       /\ p = "failed" <=> q.cancelled /\ q.executing # "next"
  BY <1>1, <1>2, <1>3
<1> QED BY <1>1, <1>2, <1>4, <1>5, <1>6, <1>7, <1>8, <1>9, <1>10, <1>11

(***************************************************************************)
(* The place of the event that executes changes.                           *)
(***************************************************************************)
LEMMA PlaceMoves ==
  ASSUME BaseInv, NEW s \in Subscriptions,
         NEW p \in {"scheduled", "callback", "done", "failed"},
         sub[s].queue.pc # "none", sub' = [sub EXCEPT ![s].queue.pc = p]
  PROVE  /\ sub' \in [Subscriptions -> Subscription]
         /\ SameEvents(sub[s].queue, sub'[s].queue) /\ sub'[s].queue.pc = p
         /\ SameSubscription(s) /\ OthersKept(s)
<1> DEFINE q == sub[s].queue
           r == [q EXCEPT !.pc = p]
<1>1. q \in Queue /\ sub[s] \in Subscription /\ sub \in [Subscriptions -> Subscription]
  BY Typed
<1>2. r \in Queue /\ SameEvents(q, r) /\ r.pc = p
  BY <1>1 DEF Queue, SameEvents
<1>3. sub' = [sub EXCEPT ![s].queue = r]
  OBVIOUS
<1> HIDE DEF r
<1> QED BY <1>1, <1>2, <1>3, QueueMoves

LEMMA EventReadyShape ==
  ASSUME BaseInv, NEW s \in Subscriptions, EventReady(s)
  PROVE  /\ sub' \in [Subscriptions -> Subscription]
         /\ sub[s].queue.pc \in {"done", "failed"} /\ sub[s].queue.exists
         /\ sub'[s].queue = AfterReady(sub[s].queue)
         /\ SameSubscription(s) /\ OthersKept(s)
<1>1. /\ sub[s].queue \in Queue /\ QueueShape(sub[s].queue)
      /\ sub \in [Subscriptions -> Subscription]
  BY Typed
<1>2. sub' = [sub EXCEPT ![s].queue = AfterReady(sub[s].queue)]
  BY Zenon DEF EventReady, AfterReady
<1>3. sub[s].queue.pc \in {"done", "failed"}
  BY Zenon DEF EventReady
<1>4. sub[s].queue.exists
  BY <1>1, <1>3 DEF QueueShape, Queue
<1>5. AfterReady(sub[s].queue) \in Queue
  BY <1>1, <1>4, AfterReadyFacts
<1> QED BY <1>1, <1>2, <1>3, <1>4, <1>5, QueueMoves

LEMMA SubscribeShape ==
  ASSUME BaseInv, NEW s \in Subscriptions, Subscribe(s)
  PROVE  /\ sub' \in [Subscriptions -> Subscription]
         /\ sub[s].status = "none" /\ sub'[s].status = "subscribed"
         /\ sub'[s].queue = sub[s].queue
         /\ sub'[s].disposing = sub[s].disposing
         /\ sub'[s].completedScheduled = sub[s].completedScheduled
         /\ sub'[s].completedCalled = sub[s].completedCalled
         /\ OthersKept(s)
<1>1. sub[s] \in Subscription /\ sub \in [Subscriptions -> Subscription]
  BY Typed
<1> QED BY <1>1 DEF Subscribe, OthersKept, Subscription

LEMMA RemovedShape ==
  ASSUME BaseInv, NEW s \in Subscriptions, sub' = Removed(s)
  PROVE  /\ sub' \in [Subscriptions -> Subscription]
         /\ sub'[s].status = "removed" /\ sub'[s].queue = NoQueue
         /\ sub'[s].disposing = sub[s].disposing
         /\ sub'[s].completedScheduled = sub[s].completedScheduled
         /\ sub'[s].completedCalled = sub[s].completedCalled
         /\ OthersKept(s)
<1>1. sub[s] \in Subscription /\ sub \in [Subscriptions -> Subscription] /\ NoQueue \in Queue
  BY Typed, NoQueueFacts
<1> QED BY <1>1 DEF Removed, OthersKept, Subscription

LEMMA FlushShape ==
  ASSUME BaseInv, NEW s \in Subscriptions, sub' = [sub EXCEPT ![s].queue = Flush(@)]
  PROVE  /\ sub' \in [Subscriptions -> Subscription]
         /\ sub'[s].queue = Flush(sub[s].queue)
         /\ SameSubscription(s) /\ OthersKept(s)
<1>1. /\ sub[s].queue \in Queue /\ QueueShape(sub[s].queue)
      /\ sub \in [Subscriptions -> Subscription]
  BY Typed
<1>2. Flush(sub[s].queue) \in Queue
  BY <1>1, FlushFacts
<1>3. sub' = [sub EXCEPT ![s].queue = Flush(sub[s].queue)]
  BY Zenon
<1> QED BY <1>1, <1>2, <1>3, QueueMoves

\* The queue after notifyOnErrorNothrow() and after a dispose() attempt reached it.
LEMMA FlushPushFacts ==
  ASSUME NEW q \in Queue, QueueShape(q), NEW event \in Events
  PROVE  /\ Push(Flush(q), event) \in Queue /\ QueueShape(Push(Flush(q), event))
         /\ Push(Flush(q), event).exists /\ Push(Flush(q), event).ready = 0
         /\ Push(Flush(q), event).cancelled <=> q.executing # "none"
         /\ IF q.executing = "none"
            THEN /\ Push(Flush(q), event).executing = event
                 /\ Push(Flush(q), event).pc = "scheduled"
                 /\ \A e \in Events : ~Waits(Push(Flush(q), event), e)
            ELSE /\ Push(Flush(q), event).executing = q.executing
                 /\ Push(Flush(q), event).pc = q.pc
                 /\ \A e \in Events : Waits(Push(Flush(q), event), e) <=> e = event
         /\ (q.executing # "none" => Before(q.executing, event))
               => Ordered(Push(Flush(q), event))
<1> DEFINE f == Flush(q)
           p == Push(f, event)
<1>1. /\ f \in Queue /\ QueueShape(f) /\ Ordered(f) /\ f.executing = q.executing
      /\ f.pc = q.pc /\ f.ready = 0 /\ (f.cancelled <=> q.executing # "none")
      /\ \A e \in Events : ~Waits(f, e)
  BY FlushFacts
<1> HIDE DEF f
<1>2. /\ p \in Queue /\ QueueShape(p) /\ p.exists /\ p.ready = f.ready
      /\ p.cancelled = f.cancelled
      /\ IF f.executing = "none"
         THEN /\ p.executing = event /\ p.pc = "scheduled"
              /\ \A e \in Events : ~Waits(p, e)
         ELSE /\ p.executing = f.executing /\ p.pc = f.pc
              /\ \A e \in Events : Waits(p, e) <=> Waits(f, e) \/ e = event
      /\ Ordered(f) /\ (\A e \in Events : Has(f, e) => Before(e, event)) => Ordered(p)
  BY <1>1, PushFacts
<1> HIDE DEF p
<1>3. ASSUME q.executing # "none" => Before(q.executing, event) PROVE Ordered(p)
  <2>1. ASSUME NEW e \in Events, Has(f, e) PROVE Before(e, event)
    <3>1. q.executing = e /\ e # "none"
      BY <1>1, <2>1 DEF Has, Events
    <3> QED BY <1>3, <3>1
  <2> QED BY <1>1, <1>2, <2>1
<1>4. /\ p \in Queue /\ QueueShape(p) /\ p.exists /\ p.ready = 0
      /\ (p.cancelled <=> q.executing # "none")
      /\ IF q.executing = "none"
         THEN p.executing = event /\ p.pc = "scheduled" /\ \A e \in Events : ~Waits(p, e)
         ELSE /\ p.executing = q.executing /\ p.pc = q.pc
              /\ \A e \in Events : Waits(p, e) <=> e = event
  BY <1>1, <1>2
<1> QED BY <1>3, <1>4, Zenon DEF p, f

LEMMA WithCompletedShape ==
  ASSUME BaseInv, sub' = WithCompleted
  PROVE  /\ sub' \in [Subscriptions -> Subscription]
         /\ \A s \in Subscriptions :
               IF sub[s].status = "subscribed"
               THEN /\ sub'[s].queue = Push(sub[s].queue, "completed")
                    /\ sub'[s].completedScheduled
                    /\ sub'[s].status = sub[s].status /\ sub'[s].disposing = sub[s].disposing
                    /\ sub'[s].completedCalled = sub[s].completedCalled
               ELSE sub'[s] = sub[s]
<1>1. ASSUME NEW s \in Subscriptions
      PROVE  IF sub[s].status = "subscribed"
             THEN /\ sub'[s] \in Subscription
                  /\ sub'[s].queue = Push(sub[s].queue, "completed")
                  /\ sub'[s].completedScheduled
                  /\ sub'[s].status = sub[s].status /\ sub'[s].disposing = sub[s].disposing
                  /\ sub'[s].completedCalled = sub[s].completedCalled
             ELSE sub'[s] = sub[s] /\ sub'[s] \in Subscription
  <2> DEFINE p == Push(sub[s].queue, "completed")
  <2>1. sub[s] \in Subscription /\ p \in Queue
    BY Typed, PushFacts DEF Events
  <2>2. sub'[s] = IF sub[s].status = "subscribed"
                  THEN [sub[s] EXCEPT !.queue = p, !.completedScheduled = TRUE]
                  ELSE sub[s]
    BY <1>1, Zenon DEF WithCompleted, Subscribed
  <2> HIDE DEF p
  <2>3. CASE sub[s].status = "subscribed"
    <3> DEFINE x == [sub[s] EXCEPT !.queue = p, !.completedScheduled = TRUE]
    <3>1. /\ x \in Subscription /\ x.queue = p /\ x.completedScheduled = TRUE
          /\ x.status = sub[s].status /\ x.disposing = sub[s].disposing
          /\ x.completedCalled = sub[s].completedCalled
      BY <2>1 DEF Subscription
    <3>2. sub'[s] = x
      BY <2>2, <2>3, Zenon
    <3> HIDE DEF x
    <3> QED BY <2>3, <3>1, <3>2 DEF p
  <2> QED BY <2>1, <2>2, <2>3
<1>2. sub' \in [Subscriptions -> Subscription]
  <2>1. sub' = [s \in Subscriptions |-> sub'[s]]
    BY Zenon DEF WithCompleted
  <2> QED BY <1>1, <2>1
<1> QED BY <1>1, <1>2

LEMMA EmittedShape ==
  ASSUME BaseInv,
         sub' = [s \in Subscriptions |-> IF s \in Subscribed
                 THEN [sub[s] EXCEPT !.queue = Push(@, "next")] ELSE sub[s]]
  PROVE  /\ sub' \in [Subscriptions -> Subscription]
         /\ \A s \in Subscriptions :
               IF sub[s].status = "subscribed"
               THEN sub'[s].queue = Push(sub[s].queue, "next") /\ SameSubscription(s)
               ELSE sub'[s] = sub[s]
<1>1. ASSUME NEW s \in Subscriptions
      PROVE  IF sub[s].status = "subscribed"
             THEN /\ sub'[s] \in Subscription
                  /\ sub'[s].queue = Push(sub[s].queue, "next") /\ SameSubscription(s)
             ELSE sub'[s] = sub[s] /\ sub'[s] \in Subscription
  <2> DEFINE p == Push(sub[s].queue, "next")
  <2>1. sub[s] \in Subscription /\ p \in Queue
    BY Typed, PushFacts DEF Events
  <2>2. sub'[s] = IF sub[s].status = "subscribed"
                  THEN [sub[s] EXCEPT !.queue = p] ELSE sub[s]
    BY <1>1, Zenon DEF Subscribed
  <2> HIDE DEF p
  <2>3. CASE sub[s].status = "subscribed"
    <3> DEFINE x == [sub[s] EXCEPT !.queue = p]
    <3>1. /\ x \in Subscription /\ x.queue = p
          /\ x.completedScheduled = sub[s].completedScheduled
          /\ x.status = sub[s].status /\ x.disposing = sub[s].disposing
          /\ x.completedCalled = sub[s].completedCalled
      BY <2>1 DEF Subscription
    <3>2. sub'[s] = x
      BY <2>2, <2>3, Zenon
    <3> HIDE DEF x
    <3> QED BY <2>3, <3>1, <3>2 DEF p, SameSubscription
  <2> QED BY <2>1, <2>2, <2>3
<1>2. sub' \in [Subscriptions -> Subscription]
  <2>1. sub' = [s \in Subscriptions |-> sub'[s]]
    BY Zenon
  <2> QED BY <1>1, <2>1
<1> QED BY <1>1, <1>2

\* checkSubscribersQueues() has popped a failed task of this queue.
Bad(s) == sub[s].status = "subscribed" /\ sub[s].queue.ready > 0

LEMMA CollectShape ==
  ASSUME BaseInv, NEW at \in {"loop", "emit", "ending"}, NEW failed \in BOOLEAN,
         Collect(at, failed)
  PROVE  /\ lock' \in LockType /\ lock'.by = "run" /\ lock'.at = at
         /\ \A s \in Subscriptions : s \in lock'.todo <=> Bad(s)
         /\ sub' \in [Subscriptions -> Subscription]
         /\ \A s \in Subscriptions :
               /\ SameSubscription(s)
               /\ IF Bad(s)
                  THEN /\ sub'[s].queue \in Queue
                       /\ sub'[s].queue.ready = sub[s].queue.ready - 1
                       /\ sub'[s].queue.exists = sub[s].queue.exists
                       /\ sub'[s].queue.pending = sub[s].queue.pending
                       /\ sub'[s].queue.executing = sub[s].queue.executing
                       /\ sub'[s].queue.pc = sub[s].queue.pc
                       /\ sub'[s].queue.cancelled = sub[s].queue.cancelled
                  ELSE sub'[s].queue = sub[s].queue
         /\ seen' \in [Subscriptions -> Observer]
         /\ \A s \in Subscriptions :
               /\ seen'[s].error = seen[s].error /\ seen'[s].completed = seen[s].completed
               /\ seen'[s].threw = seen[s].threw /\ seen'[s].next = seen[s].next
<1> DEFINE bad == {s \in Subscribed : sub[s].queue.ready > 0}
<1>1. \A s \in Subscriptions : s \in bad <=> Bad(s)
  BY DEF Bad, Subscribed
<1>2. bad \in SUBSET Subscriptions
  BY DEF Subscribed
<1>3. /\ lock' = [by |-> "run", at |-> at, todo |-> bad, failed |-> failed]
      /\ sub' = [s \in Subscriptions |-> IF s \in bad
                 THEN [sub[s] EXCEPT !.queue.ready = @ - 1] ELSE sub[s]]
      /\ seen' = [s \in Subscriptions |-> IF s \in bad
                  THEN [seen[s] EXCEPT !.collected = TRUE] ELSE seen[s]]
  BY Zenon DEF Collect
<1> HIDE DEF bad
<1>4. /\ lock' \in LockType /\ lock'.by = "run" /\ lock'.at = at
      /\ \A s \in Subscriptions : s \in lock'.todo <=> Bad(s)
  BY <1>1, <1>2, <1>3 DEF LockType
<1>5. ASSUME NEW s \in Subscriptions
      PROVE  /\ sub'[s] \in Subscription /\ SameSubscription(s)
             /\ IF Bad(s)
                THEN /\ sub'[s].queue \in Queue
                     /\ sub'[s].queue.ready = sub[s].queue.ready - 1
                     /\ sub'[s].queue.exists = sub[s].queue.exists
                     /\ sub'[s].queue.pending = sub[s].queue.pending
                     /\ sub'[s].queue.executing = sub[s].queue.executing
                     /\ sub'[s].queue.pc = sub[s].queue.pc
                     /\ sub'[s].queue.cancelled = sub[s].queue.cancelled
                ELSE sub'[s].queue = sub[s].queue
  <2>1. sub[s] \in Subscription /\ sub[s].queue \in Queue
    BY Typed
  <2>2. CASE Bad(s)
    <3> DEFINE q == sub[s].queue
               r == [q EXCEPT !.ready = @ - 1]
               x == [sub[s] EXCEPT !.queue = r]
    <3>1. /\ r \in Queue /\ r.ready = q.ready - 1 /\ r.exists = q.exists
          /\ r.pending = q.pending /\ r.executing = q.executing /\ r.pc = q.pc
          /\ r.cancelled = q.cancelled
      BY <2>1, <2>2 DEF Bad, Queue
    <3> HIDE DEF r
    <3>2. /\ x \in Subscription /\ x.queue = r
          /\ x.completedScheduled = sub[s].completedScheduled
          /\ x.status = sub[s].status /\ x.disposing = sub[s].disposing
          /\ x.completedCalled = sub[s].completedCalled
      BY <2>1, <3>1 DEF Subscription
    <3>3. sub'[s] = x
      <4>1. sub'[s] = [sub[s] EXCEPT !.queue.ready = @ - 1]
        BY <1>1, <1>3, <2>2, Zenon
      <4> QED BY <2>1, <4>1 DEF r
    <3> HIDE DEF x
    <3> QED BY <2>2, <3>1, <3>2, <3>3 DEF SameSubscription
  <2>3. CASE ~Bad(s)
    <3>1. sub'[s] = sub[s]
      BY <1>1, <1>3, <2>3, Zenon
    <3> QED BY <2>1, <2>3, <3>1 DEF SameSubscription
  <2> QED BY <2>2, <2>3
<1>6. sub' \in [Subscriptions -> Subscription]
  <2>1. sub' = [s \in Subscriptions |-> sub'[s]]
    BY <1>3, Zenon
  <2> QED BY <1>5, <2>1
<1>7. ASSUME NEW s \in Subscriptions
      PROVE  /\ seen'[s] \in Observer
             /\ seen'[s].error = seen[s].error /\ seen'[s].completed = seen[s].completed
             /\ seen'[s].threw = seen[s].threw /\ seen'[s].next = seen[s].next
  <2>1. seen[s] \in Observer
    BY Typed
  <2>2. seen'[s] = IF s \in bad THEN [seen[s] EXCEPT !.collected = TRUE] ELSE seen[s]
    BY <1>3, Zenon
  <2> QED BY <2>1, <2>2 DEF Observer
<1>8. seen' \in [Subscriptions -> Observer]
  <2>1. seen' = [s \in Subscriptions |-> seen'[s]]
    BY <1>3, Zenon
  <2> QED BY <1>7, <2>1
<1> QED BY <1>4, <1>5, <1>6, <1>7, <1>8

LEMMA NotifiedShape ==
  ASSUME BaseInv, NEW s \in Subscriptions,
         sub' = [sub EXCEPT ![s].queue = Push(Flush(@), "error")]
  PROVE  /\ sub' \in [Subscriptions -> Subscription]
         /\ sub'[s].queue = Push(Flush(sub[s].queue), "error")
         /\ SameSubscription(s) /\ OthersKept(s)
<1>1. /\ sub[s].queue \in Queue /\ QueueShape(sub[s].queue)
      /\ sub \in [Subscriptions -> Subscription]
  BY Typed
<1>2. Push(Flush(sub[s].queue), "error") \in Queue
  BY <1>1, FlushPushFacts DEF Events
<1>3. sub' = [sub EXCEPT ![s].queue = Push(Flush(sub[s].queue), "error")]
  BY Zenon
<1> QED BY <1>1, <1>2, <1>3, QueueMoves

LEMMA FlushedForDisposeShape ==
  ASSUME BaseInv, NEW s \in Subscriptions,
         sub' = [sub EXCEPT ![s] = [@ EXCEPT !.queue = Push(Flush(sub[s].queue), "completed"),
                        !.completedScheduled = TRUE, !.disposing = TRUE]]
  PROVE  /\ sub' \in [Subscriptions -> Subscription]
         /\ sub'[s].queue = Push(Flush(sub[s].queue), "completed")
         /\ sub'[s].completedScheduled /\ sub'[s].disposing
         /\ sub'[s].status = sub[s].status
         /\ sub'[s].completedCalled = sub[s].completedCalled
         /\ OthersKept(s)
<1> DEFINE p == Push(Flush(sub[s].queue), "completed")
           x == [sub[s] EXCEPT !.queue = p, !.completedScheduled = TRUE, !.disposing = TRUE]
<1>1. /\ sub[s] \in Subscription /\ sub \in [Subscriptions -> Subscription]
      /\ p \in Queue
  BY Typed, FlushPushFacts DEF Events
<1>2. sub' = [sub EXCEPT ![s] = x]
  BY Zenon
<1> HIDE DEF p
<1>3. /\ x \in Subscription /\ x.queue = p /\ x.completedScheduled = TRUE
      /\ x.disposing = TRUE /\ x.status = sub[s].status
      /\ x.completedCalled = sub[s].completedCalled
  BY <1>1 DEF Subscription
<1> HIDE DEF x
<1>4. /\ sub' \in [Subscriptions -> Subscription] /\ sub'[s] = x /\ OthersKept(s)
  BY <1>1, <1>2, <1>3 DEF OthersKept
<1> QED BY <1>3, <1>4 DEF p

LEMMA DisposedShape ==
  ASSUME BaseInv,
         sub' = [s \in Subscriptions |-> IF s \in Subscribed
                 THEN [sub[s] EXCEPT !.status = "disposed", !.queue = NoQueue] ELSE sub[s]]
  PROVE  /\ sub' \in [Subscriptions -> Subscription]
         /\ \A s \in Subscriptions :
               IF sub[s].status = "subscribed"
               THEN /\ sub'[s].queue = NoQueue /\ sub'[s].status = "disposed"
                    /\ sub'[s].completedScheduled = sub[s].completedScheduled
                    /\ sub'[s].disposing = sub[s].disposing
                    /\ sub'[s].completedCalled = sub[s].completedCalled
               ELSE sub'[s] = sub[s]
<1>1. ASSUME NEW s \in Subscriptions
      PROVE  IF sub[s].status = "subscribed"
             THEN /\ sub'[s] \in Subscription
                  /\ sub'[s].queue = NoQueue /\ sub'[s].status = "disposed"
                  /\ sub'[s].completedScheduled = sub[s].completedScheduled
                  /\ sub'[s].disposing = sub[s].disposing
                  /\ sub'[s].completedCalled = sub[s].completedCalled
             ELSE sub'[s] = sub[s] /\ sub'[s] \in Subscription
  <2>1. sub[s] \in Subscription /\ NoQueue \in Queue
    BY Typed, NoQueueFacts
  <2>2. sub'[s] = IF sub[s].status = "subscribed"
                  THEN [sub[s] EXCEPT !.status = "disposed", !.queue = NoQueue] ELSE sub[s]
    BY <1>1, Zenon DEF Subscribed
  <2>3. CASE sub[s].status = "subscribed"
    <3> DEFINE x == [sub[s] EXCEPT !.status = "disposed", !.queue = NoQueue]
    <3>1. /\ x \in Subscription /\ x.queue = NoQueue /\ x.status = "disposed"
          /\ x.completedScheduled = sub[s].completedScheduled
          /\ x.disposing = sub[s].disposing /\ x.completedCalled = sub[s].completedCalled
      BY <2>1 DEF Subscription
    <3>2. sub'[s] = x
      BY <2>2, <2>3, Zenon
    <3> HIDE DEF x
    <3> QED BY <2>3, <3>1, <3>2
  <2> QED BY <2>1, <2>2, <2>3
<1>2. sub' \in [Subscriptions -> Subscription]
  <2>1. sub' = [s \in Subscriptions |-> sub'[s]]
    BY Zenon
  <2> QED BY <1>1, <2>1
<1> QED BY <1>1, <1>2

-----------------------------------------------------------------------------
(* The inductive invariant                                                 *)

\* Subscriptions that run() will try to erase, and the one that is being erased.
Failing(s) == lock.by = "run" /\ lock.at # "failing" /\ s \in lock.todo
Leaving(s) == lock.by = "unsubscribe" /\ s \in lock.todo

\* run() has announced an error to this subscription, or to all of them.
ErrorPushed(s) ==
    \/ obs.notifyCompleteOnError
    \/ lock.by = "run" /\ lock.at = "failing" /\ s \notin lock.todo

(***************************************************************************)
(* onCompleted() is scheduled when the observable is completed, or by      *)
(* dispose(); onError() when the observable is about to be.                *)
(***************************************************************************)
Scheduled(s) ==
    /\ sub[s].completedCalled <=> seen[s].completed
    /\ sub[s].status = "none" => ~sub[s].completedScheduled
    /\ Has(sub[s].queue, "completed") \/ seen[s].completed => sub[s].completedScheduled
    /\ sub[s].completedScheduled => obs.completed \/ sub[s].disposing
    /\ sub[s].disposing => obs.disposer /\ sub[s].completedScheduled
    /\ sub[s].queue.executing = "completed" /\ sub[s].queue.pc \in {"callback", "done"}
          => seen[s].completed
    /\ Has(sub[s].queue, "error") \/ seen[s].error => ErrorPushed(s)

(***************************************************************************)
(* What is left in a queue once its observer was told that it is over,     *)
(* unless dispose() interferes.                                            *)
(***************************************************************************)
InOrder(s) ==
    ~obs.disposer =>
        /\ Ordered(sub[s].queue)
        /\ seen[s].completed =>
              /\ ~Waits(sub[s].queue, "next") /\ ~Waits(sub[s].queue, "error")
              /\ ~Waits(sub[s].queue, "completed")
              /\ sub[s].queue.executing \in {"none", "completed"}
              /\ sub[s].queue.pc # "scheduled"
        /\ seen[s].error =>
              /\ ~Waits(sub[s].queue, "next") /\ ~Waits(sub[s].queue, "error")
              /\ sub[s].queue.executing # "next"
              /\ sub[s].queue.executing = "error" => sub[s].queue.pc # "scheduled"

(***************************************************************************)
(* As long as dispose() did not cancel its events, nothing of a queue      *)
(* fails but onNext() that threw.                                          *)
(***************************************************************************)
FailuresKnown(s) ==
    ~seen[s].threw /\ ~sub[s].disposing /\ ~Leaving(s) =>
        /\ sub[s].queue.ready = 0 /\ ~Failing(s)
        /\ sub[s].queue.pc # "failed"
        /\ sub[s].queue.cancelled => sub[s].queue.executing = "next"

(***************************************************************************)
(* An observer that was promised onCompleted() and was not called yet: the *)
(* event is coming, or what keeps it from that makes the queue fail, which *)
(* erases the subscription in the end.                                     *)
(***************************************************************************)
Promised(s) ==
    sub[s].completedScheduled /\ ~seen[s].completed /\ sub[s].status = "subscribed"

Coming(q) ==
    \/ Waits(q, "completed")
    \/ q.executing = "completed" /\ q.pc = "scheduled" /\ ~q.cancelled

Cancelled(q) ==
    q.executing = "completed" /\ q.cancelled /\ q.pc \in {"scheduled", "failed"}

Completion(s) ==
    Promised(s) =>
        /\ sub[s].queue.exists
        /\ ~Leaving(s) /\ (sub[s].disposing \/ ~seen[s].threw) =>
              /\ sub[s].disposing =>
                    ~Waits(sub[s].queue, "next") /\ ~Waits(sub[s].queue, "error")
              /\ IF sub[s].queue.ready > 0 \/ Failing(s)
                 THEN sub[s].queue.executing \in {"none", "completed"}
                 ELSE \/ Coming(sub[s].queue)
                      \/ sub[s].disposing /\ Cancelled(sub[s].queue)

Known(s) == Scheduled(s) /\ InOrder(s) /\ FailuresKnown(s) /\ Completion(s)

(***************************************************************************)
(* The subscriptions that an attempt of dispose() has passed without       *)
(* finding that it failed.                                                 *)
(***************************************************************************)
Passed(s) ==
    sub[s].status = "subscribed" /\ s \notin lock.todo /\ sub[s].completedScheduled
        => seen[s].completed

\* Whoever was promised onCompleted() was called by the time dispose() ends.
CompletionDelivered ==
    \A s \in Subscriptions :
        sub[s].status = "disposed" /\ sub[s].completedScheduled => seen[s].completed

DisposeKnown == lock.by = "dispose" /\ ~lock.failed => \A s \in Subscriptions : Passed(s)

IInv ==
    /\ BaseInv /\ DisposeKnown /\ CompletionDelivered
    /\ \A s \in Subscriptions : Known(s)

-----------------------------------------------------------------------------
(* What every step has to keep                                             *)

(***************************************************************************)
(* The base of the invariant, for a step that leaves alone which           *)
(* subscriptions exist.                                                    *)
(***************************************************************************)
LEMMA ShapeKept ==
  ASSUME BaseInv, NEW s \in Subscriptions, OthersKept(s), QueueShape(sub'[s].queue),
         sub'[s].status # "subscribed" => ~sub'[s].queue.exists
  PROVE  ShapeKnown'
BY Typed DEF OthersKept, ShapeKnown

LEMMA LockKept ==
  ASSUME BaseInv, lock' = lock, obs'.completed = obs.completed,
         obs'.notifyCompleteOnError = obs.notifyCompleteOnError,
         obs.disposer => obs'.disposer,
         \A s \in Subscriptions :
             sub[s].status = "subscribed" /\ s \in lock.todo => sub'[s].status = "subscribed"
  PROVE  LockKnown'
<1>1. lock.todo \subseteq Subscriptions
  BY TypeNames DEF BaseInv, LockType
<1> QED BY <1>1 DEF BaseInv, LockKnown

(***************************************************************************)
(* A subscription that a step does not touch.                              *)
(***************************************************************************)
LEMMA KnownKept ==
  ASSUME NEW s \in Subscriptions, Known(s), sub'[s] = sub[s], seen'[s] = seen[s],
         obs.completed => obs'.completed, obs.disposer => obs'.disposer,
         ErrorPushed(s) => ErrorPushed(s)',
         Failing(s)' <=> Failing(s), Leaving(s)' <=> Leaving(s)
  PROVE  Known(s)'
<1>1. Scheduled(s)'
  BY DEF Known, Scheduled
<1>2. InOrder(s)'
  BY DEF Known, InOrder
<1>3. FailuresKnown(s)'
  BY DEF Known, FailuresKnown
<1>4. Completion(s)'
  BY DEF Known, Completion, Promised
<1> QED BY <1>1, <1>2, <1>3, <1>4 DEF Known

\* ... and if m_lock and the members of the observable stay as they are.
LEMMA SameKept ==
  ASSUME NEW s \in Subscriptions, Known(s), sub'[s] = sub[s], seen'[s] = seen[s],
         UNCHANGED <<obs, lock>>
  PROVE  Known(s)'
BY KnownKept DEF ErrorPushed, Failing, Leaving

(***************************************************************************)
(* Observers that were told so stay told.                                  *)
(***************************************************************************)
LEMMA DisposeKept ==
  ASSUME IInv,
         lock'.by = "dispose" /\ ~lock'.failed =>
            lock.by = "dispose" /\ ~lock.failed /\ lock'.todo = lock.todo,
         \A s \in Subscriptions :
            /\ seen[s].completed => seen'[s].completed
            /\ sub'[s].status \in {"subscribed", "disposed"} /\ sub'[s].completedScheduled =>
                  \/ sub[s].completedScheduled /\ sub'[s].status = sub[s].status
                  \/ sub'[s].status = "subscribed" /\ ~(lock.by = "dispose" /\ ~lock.failed)
  PROVE  DisposeKnown' /\ CompletionDelivered'
<1>1. DisposeKnown'
  BY DEF IInv, DisposeKnown, Passed
<1>2. CompletionDelivered'
  BY DEF IInv, CompletionDelivered
<1> QED BY <1>1, <1>2

LEMMA Conclude ==
  ASSUME TypeOK', ShapeKnown', LockKnown', DisposeKnown', CompletionDelivered',
         \A s \in Subscriptions : Known(s)'
  PROVE  IInv'
BY Zenon DEF IInv, BaseInv

(***************************************************************************)
(* Queues with the same events keep them in the same order.                *)
(***************************************************************************)
LEMMA SameEventsFacts ==
  ASSUME NEW q, NEW r, SameEvents(q, r)
  PROVE  /\ \A e : Waits(r, e) <=> Waits(q, e)
         /\ \A e : Has(r, e) <=> Has(q, e)
         /\ Ordered(r) <=> Ordered(q)
BY Zenon DEF SameEvents, Waits, Has, Ordered

LEMMA SameEventsShape ==
  ASSUME NEW q \in Queue, NEW r \in Queue, SameEvents(q, r), QueueShape(q),
         r.pc = "none" <=> q.pc = "none"
  PROVE  QueueShape(r)
BY DEF SameEvents, QueueShape

(***************************************************************************)
(* Nothing waits behind onCompleted(), and only that behind onError().     *)
(***************************************************************************)
LEMMA OrderedFacts ==
  ASSUME NEW q \in Queue, Ordered(q)
  PROVE  /\ q.executing = "completed" =>
               ~Waits(q, "next") /\ ~Waits(q, "error") /\ ~Waits(q, "completed")
         /\ q.executing = "error" => ~Waits(q, "next") /\ ~Waits(q, "error")
<1>1. ASSUME NEW e, Waits(q, e), q.executing \in {"completed", "error"}
      PROVE  Before(q.executing, e)
  <2>1. PICK i \in DOMAIN q.pending : q.pending[i] = e
    BY <1>1, Zenon DEF Waits
  <2>2. q.executing # "none"
    BY <1>1
  <2> QED BY <2>1, <2>2, Zenon DEF Ordered
<1> QED BY <1>1 DEF Before

-----------------------------------------------------------------------------
(* Events                                                                  *)

LEMMA BeginEventInvariant ==
  ASSUME IInv, NEW s \in Subscriptions, BeginEvent(s)
  PROVE  IInv'
<1> DEFINE q == sub[s].queue
           r == sub'[s].queue
<1>1. /\ BaseInv /\ Known(s)
      /\ q \in Queue /\ QueueShape(q) /\ sub[s] \in Subscription /\ seen[s] \in Observer
      /\ sub[s].status # "subscribed" => ~q.exists
  BY Typed DEF IInv
<1>2. /\ sub' \in [Subscriptions -> Subscription]
      /\ seen' \in [Subscriptions -> Observer]
      /\ OthersKept(s) /\ OthersNotCalled(s)
      /\ SameEvents(q, r)
      /\ sub'[s].status = sub[s].status /\ sub'[s].disposing = sub[s].disposing
      /\ sub'[s].completedScheduled = sub[s].completedScheduled
      /\ seen'[s].threw = seen[s].threw
      /\ q.pc = "scheduled" /\ r.pc \in {"callback", "done", "failed"}
      /\ r.pc = "callback" <=>
            /\ ~q.cancelled
            /\ ~(q.executing = "completed" /\ sub[s].completedCalled)
      /\ r.pc = "failed" <=> q.cancelled /\ q.executing # "next"
      /\ sub'[s].completedCalled <=> \/ sub[s].completedCalled
                                     \/ r.pc = "callback" /\ q.executing = "completed"
      /\ seen'[s].completed <=> \/ seen[s].completed
                                \/ r.pc = "callback" /\ q.executing = "completed"
      /\ seen'[s].error <=> \/ seen[s].error
                            \/ r.pc = "callback" /\ q.executing = "error"
  BY <1>1, BeginEventShape
<1>3. UNCHANGED <<obs, lock, faults>>
  BY DEF BeginEvent
<1>4. r \in Queue /\ sub'[s] \in Subscription /\ seen'[s] \in Observer
  BY <1>2 DEF Subscription
<1>5. /\ r.exists = q.exists /\ r.executing = q.executing /\ r.cancelled = q.cancelled
      /\ r.ready = q.ready
      /\ \A e : (Waits(r, e) <=> Waits(q, e)) /\ (Has(r, e) <=> Has(q, e))
      /\ Ordered(r) <=> Ordered(q)
  BY <1>2, SameEventsFacts, Zenon DEF SameEvents
<1>6. Scheduled(s)'
  <2>1. q.executing = "completed" => sub[s].completedScheduled
    BY <1>1 DEF Known, Scheduled, Has
  <2>2. q.executing = "error" => ErrorPushed(s)
    BY <1>1 DEF Known, Scheduled, Has
  <2>3. ErrorPushed(s)' <=> ErrorPushed(s)
    BY <1>3 DEF ErrorPushed
  <2> QED BY <1>1, <1>2, <1>3, <1>5, <2>1, <2>2, <2>3 DEF Known, Scheduled
<1>7. InOrder(s)'
  <2> SUFFICES ASSUME ~obs'.disposer
               PROVE  /\ Ordered(r)
                      /\ seen'[s].completed =>
                            /\ ~Waits(r, "next") /\ ~Waits(r, "error")
                            /\ ~Waits(r, "completed")
                            /\ r.executing \in {"none", "completed"} /\ r.pc # "scheduled"
                      /\ seen'[s].error =>
                            /\ ~Waits(r, "next") /\ ~Waits(r, "error")
                            /\ r.executing # "next"
                            /\ r.executing = "error" => r.pc # "scheduled"
    BY DEF InOrder
  <2>1. /\ Ordered(q)
        /\ seen[s].completed =>
              /\ ~Waits(q, "next") /\ ~Waits(q, "error") /\ ~Waits(q, "completed")
              /\ q.executing \in {"none", "completed"}
        /\ seen[s].error =>
              /\ ~Waits(q, "next") /\ ~Waits(q, "error") /\ q.executing # "next"
    BY <1>1, <1>3 DEF Known, InOrder
  <2>2. /\ q.executing = "completed" =>
              ~Waits(q, "next") /\ ~Waits(q, "error") /\ ~Waits(q, "completed")
        /\ q.executing = "error" => ~Waits(q, "next") /\ ~Waits(q, "error")
    BY <1>1, <2>1, OrderedFacts
  <2> QED BY <1>2, <1>5, <2>1, <2>2
<1>8. FailuresKnown(s)'
  BY <1>1, <1>2, <1>3, <1>5 DEF Known, FailuresKnown, Failing, Leaving
<1>9. Completion(s)'
  <2> SUFFICES ASSUME Promised(s)'
               PROVE  /\ r.exists
                      /\ ~Leaving(s)' /\ (sub'[s].disposing \/ ~seen'[s].threw) =>
                            /\ sub'[s].disposing => ~Waits(r, "next") /\ ~Waits(r, "error")
                            /\ IF r.ready > 0 \/ Failing(s)'
                               THEN r.executing \in {"none", "completed"}
                               ELSE Coming(r) \/ (sub'[s].disposing /\ Cancelled(r))
    BY DEF Completion
  <2>1. Promised(s) /\ ~(r.pc = "callback" /\ q.executing = "completed")
    BY <1>2 DEF Promised
  <2>2. (Failing(s)' <=> Failing(s)) /\ (Leaving(s)' <=> Leaving(s))
    BY <1>3 DEF Failing, Leaving
  <2>3. q.executing = "completed" => q.cancelled
    BY <1>1, <1>2, <2>1 DEF Known, Scheduled, Promised
  <2>4. ~Leaving(s) /\ ~seen[s].threw /\ ~sub[s].disposing /\ q.cancelled
           => q.executing = "next"
    BY <1>1 DEF Known, FailuresKnown
  <2>5. q.exists
    BY <1>1, <2>1 DEF Known, Completion
  <2>6. ASSUME ~Leaving(s), sub[s].disposing \/ ~seen[s].threw
        PROVE  /\ sub[s].disposing => ~Waits(q, "next") /\ ~Waits(q, "error")
               /\ IF q.ready > 0 \/ Failing(s)
                  THEN q.executing \in {"none", "completed"}
                  ELSE Coming(q) \/ (sub[s].disposing /\ Cancelled(q))
    BY <1>1, <2>1, <2>6 DEF Known, Completion
  <2>7. ASSUME Coming(q) \/ Cancelled(q) PROVE Coming(r) \/ Cancelled(r)
    BY <1>2, <1>5, <2>3, <2>7 DEF Coming, Cancelled
  <2>8. ASSUME Cancelled(r), ~Leaving(s), sub[s].disposing \/ ~seen[s].threw
        PROVE  sub[s].disposing
    BY <1>5, <2>4, <2>8 DEF Cancelled
  <2> QED BY <1>2, <1>5, <2>2, <2>5, <2>6, <2>7, <2>8
<1>10. Known(s)'
  BY <1>6, <1>7, <1>8, <1>9 DEF Known
<1>11. \A t \in Subscriptions : t # s => Known(t)'
  <2> SUFFICES ASSUME NEW t \in Subscriptions, t # s PROVE Known(t)'
    OBVIOUS
  <2>1. Known(t) /\ sub'[t] = sub[t] /\ seen'[t] = seen[t]
    BY <1>2 DEF IInv, OthersKept, OthersNotCalled
  <2> QED BY <1>3, <2>1, SameKept
<1>12. TypeOK'
  BY <1>1, <1>2, <1>3, TypeNames, TypeNamesNext DEF BaseInv
<1>13. ShapeKnown'
  <2>1. QueueShape(r)
    BY <1>1, <1>2, <1>4, SameEventsShape
  <2> QED BY <1>1, <1>2, <1>5, <2>1, ShapeKept
<1>14. LockKnown'
  <2>1. \A t \in Subscriptions : sub'[t].status = sub[t].status
    BY <1>2 DEF OthersKept
  <2> QED BY <1>1, <1>3, <2>1, LockKept
<1>15. DisposeKnown' /\ CompletionDelivered'
  <2>1. ASSUME NEW t \in Subscriptions
        PROVE  /\ seen[t].completed => seen'[t].completed
               /\ sub'[t].status = sub[t].status
               /\ sub'[t].completedScheduled = sub[t].completedScheduled
    BY <1>2 DEF OthersKept, OthersNotCalled
  <2> QED BY <1>3, <2>1, DisposeKept
<1> QED BY <1>10, <1>11, <1>12, <1>13, <1>14, <1>15, Conclude

(***************************************************************************)
(* A callback returns, refuses the value or throws.                        *)
(***************************************************************************)
LEMMA CallbackEnds ==
  ASSUME IInv, NEW s \in Subscriptions, NEW p \in {"done", "scheduled", "failed"},
         sub[s].queue.pc = "callback", sub' = [sub EXCEPT ![s].queue.pc = p],
         p # "done" => sub[s].queue.executing = "next",
         seen' \in [Subscriptions -> Observer], OthersNotCalled(s),
         seen'[s].completed = seen[s].completed, seen'[s].error = seen[s].error,
         seen'[s].threw <=> seen[s].threw \/ p = "failed",
         UNCHANGED <<obs, lock>>, faults' \in 0..MaxFaults
  PROVE  IInv'
<1> DEFINE q == sub[s].queue
           r == sub'[s].queue
<1>1. /\ BaseInv /\ Known(s)
      /\ q \in Queue /\ QueueShape(q) /\ sub[s] \in Subscription /\ seen[s] \in Observer
      /\ sub[s].status # "subscribed" => ~q.exists
  BY Typed DEF IInv
<1>2. /\ sub' \in [Subscriptions -> Subscription]
      /\ SameEvents(q, r) /\ r.pc = p
      /\ SameSubscription(s) /\ OthersKept(s)
  BY <1>1, PlaceMoves
<1>3. UNCHANGED <<obs, lock>>
  OBVIOUS
<1>4. r \in Queue /\ sub'[s] \in Subscription /\ seen'[s] \in Observer
  BY <1>2 DEF Subscription
<1>5. /\ r.exists = q.exists /\ r.executing = q.executing /\ r.cancelled = q.cancelled
      /\ r.ready = q.ready
      /\ \A e : (Waits(r, e) <=> Waits(q, e)) /\ (Has(r, e) <=> Has(q, e))
      /\ Ordered(r) <=> Ordered(q)
  BY <1>2, SameEventsFacts, Zenon DEF SameEvents
<1>6. Scheduled(s)'
  <2>1. ErrorPushed(s)' <=> ErrorPushed(s)
    BY <1>3 DEF ErrorPushed
  <2> QED BY <1>1, <1>2, <1>3, <1>5, <2>1 DEF Known, Scheduled, SameSubscription
<1>7. InOrder(s)'
  <2> SUFFICES ASSUME ~obs'.disposer
               PROVE  /\ Ordered(r)
                      /\ seen'[s].completed =>
                            /\ ~Waits(r, "next") /\ ~Waits(r, "error")
                            /\ ~Waits(r, "completed")
                            /\ r.executing \in {"none", "completed"} /\ r.pc # "scheduled"
                      /\ seen'[s].error =>
                            /\ ~Waits(r, "next") /\ ~Waits(r, "error")
                            /\ r.executing # "next"
                            /\ r.executing = "error" => r.pc # "scheduled"
    BY DEF InOrder
  <2>1. /\ Ordered(q)
        /\ seen[s].completed =>
              /\ ~Waits(q, "next") /\ ~Waits(q, "error") /\ ~Waits(q, "completed")
              /\ q.executing \in {"none", "completed"}
        /\ seen[s].error =>
              /\ ~Waits(q, "next") /\ ~Waits(q, "error") /\ q.executing # "next"
    BY <1>1, <1>3 DEF Known, InOrder
  <2> QED BY <1>2, <1>5, <2>1
<1>8. FailuresKnown(s)'
  BY <1>1, <1>2, <1>3, <1>5
     DEF Known, FailuresKnown, Failing, Leaving, SameSubscription
<1>9. Completion(s)'
  <2> SUFFICES ASSUME Promised(s)'
               PROVE  /\ r.exists
                      /\ ~Leaving(s)' /\ (sub'[s].disposing \/ ~seen'[s].threw) =>
                            /\ sub'[s].disposing => ~Waits(r, "next") /\ ~Waits(r, "error")
                            /\ IF r.ready > 0 \/ Failing(s)'
                               THEN r.executing \in {"none", "completed"}
                               ELSE Coming(r) \/ (sub'[s].disposing /\ Cancelled(r))
    BY DEF Completion
  <2>1. Promised(s)
    BY <1>2 DEF Promised, SameSubscription
  <2>2. (Failing(s)' <=> Failing(s)) /\ (Leaving(s)' <=> Leaving(s))
    BY <1>3 DEF Failing, Leaving
  <2>3. q.executing # "completed"
    BY <1>1, <2>1 DEF Known, Scheduled, Promised
  <2>4. q.exists
    BY <1>1, <2>1 DEF Known, Completion
  <2>5. ASSUME ~Leaving(s), sub[s].disposing \/ ~seen[s].threw
        PROVE  /\ sub[s].disposing => ~Waits(q, "next") /\ ~Waits(q, "error")
               /\ IF q.ready > 0 \/ Failing(s)
                  THEN q.executing \in {"none", "completed"}
                  ELSE Waits(q, "completed")
    BY <1>1, <2>1, <2>3, <2>5 DEF Known, Completion, Coming, Cancelled
  <2> QED BY <1>2, <1>5, <2>2, <2>4, <2>5 DEF SameSubscription, Coming
<1>10. Known(s)'
  BY <1>6, <1>7, <1>8, <1>9 DEF Known
<1>11. \A t \in Subscriptions : t # s => Known(t)'
  <2> SUFFICES ASSUME NEW t \in Subscriptions, t # s PROVE Known(t)'
    OBVIOUS
  <2>1. Known(t) /\ sub'[t] = sub[t] /\ seen'[t] = seen[t]
    BY <1>2 DEF IInv, OthersKept, OthersNotCalled
  <2> QED BY <1>3, <2>1, SameKept
<1>12. TypeOK'
  BY <1>1, <1>2, <1>3, TypeNames, TypeNamesNext DEF BaseInv
<1>13. ShapeKnown'
  <2>1. QueueShape(r)
    BY <1>1, <1>2, <1>4, SameEventsShape
  <2> QED BY <1>1, <1>2, <1>5, <2>1, ShapeKept DEF SameSubscription
<1>14. LockKnown'
  <2>1. \A t \in Subscriptions : sub'[t].status = sub[t].status
    BY <1>2 DEF OthersKept, SameSubscription
  <2> QED BY <1>1, <1>3, <2>1, LockKept
<1>15. DisposeKnown' /\ CompletionDelivered'
  <2>1. ASSUME NEW t \in Subscriptions
        PROVE  /\ seen[t].completed => seen'[t].completed
               /\ sub'[t].status = sub[t].status
               /\ sub'[t].completedScheduled = sub[t].completedScheduled
    BY <1>2 DEF OthersKept, OthersNotCalled, SameSubscription
  <2> QED BY <1>3, <2>1, DisposeKept
<1> QED BY <1>10, <1>11, <1>12, <1>13, <1>14, <1>15, Conclude

LEMMA EndEventInvariant ==
  ASSUME IInv, NEW s \in Subscriptions, EndEvent(s)
  PROVE  IInv'
<1>1. seen \in [Subscriptions -> Observer] /\ faults \in 0..MaxFaults
  BY TypeNames DEF IInv, BaseInv
<1>2. /\ sub[s].queue.pc = "callback" /\ sub' = [sub EXCEPT ![s].queue.pc = "done"]
      /\ UNCHANGED <<obs, lock, seen, faults>>
  BY Zenon DEF EndEvent
<1>3. OthersNotCalled(s)
  BY <1>2 DEF OthersNotCalled
<1> QED BY <1>1, <1>2, <1>3, CallbackEnds

LEMMA RefuseEventInvariant ==
  ASSUME IInv, NEW s \in Subscriptions, RefuseEvent(s)
  PROVE  IInv'
<1>1. seen \in [Subscriptions -> Observer] /\ faults \in 0..MaxFaults
  BY TypeNames DEF IInv, BaseInv
<1>2. /\ sub[s].queue.pc = "callback" /\ sub[s].queue.executing = "next"
      /\ faults < MaxFaults /\ faults' = faults + 1
      /\ sub' = [sub EXCEPT ![s].queue.pc = "scheduled"]
      /\ UNCHANGED <<obs, lock, seen>>
  BY Zenon DEF RefuseEvent
<1>3. OthersNotCalled(s) /\ faults' \in 0..MaxFaults
  BY <1>1, <1>2, ConstantsAssumption DEF OthersNotCalled
<1> QED BY <1>1, <1>2, <1>3, CallbackEnds

LEMMA FailEventInvariant ==
  ASSUME IInv, NEW s \in Subscriptions, FailEvent(s)
  PROVE  IInv'
<1>1. seen \in [Subscriptions -> Observer] /\ faults \in 0..MaxFaults
  BY TypeNames DEF IInv, BaseInv
<1>2. /\ sub[s].queue.pc = "callback" /\ sub[s].queue.executing = "next"
      /\ faults < MaxFaults /\ faults' = faults + 1
      /\ sub' = [sub EXCEPT ![s].queue.pc = "failed"]
      /\ seen' = [seen EXCEPT ![s].threw = TRUE]
      /\ UNCHANGED <<obs, lock>>
  BY Zenon DEF FailEvent
<1>3. faults' \in 0..MaxFaults
  BY <1>1, <1>2, ConstantsAssumption
<1>4. /\ seen' \in [Subscriptions -> Observer] /\ OthersNotCalled(s)
      /\ seen'[s].completed = seen[s].completed /\ seen'[s].error = seen[s].error
      /\ seen'[s].threw = TRUE
  BY <1>1, <1>2 DEF Observer, OthersNotCalled
<1> QED BY <1>2, <1>3, <1>4, CallbackEnds

LEMMA EventReadyInvariant ==
  ASSUME IInv, NEW s \in Subscriptions, EventReady(s)
  PROVE  IInv'
<1> DEFINE q == sub[s].queue
           r == sub'[s].queue
<1>1. /\ BaseInv /\ Known(s)
      /\ q \in Queue /\ QueueShape(q) /\ sub[s] \in Subscription /\ seen[s] \in Observer
      /\ sub[s].status # "subscribed" => ~q.exists
      /\ seen \in [Subscriptions -> Observer]
  BY Typed DEF IInv
<1>2. /\ sub' \in [Subscriptions -> Subscription]
      /\ q.pc \in {"done", "failed"} /\ q.exists
      /\ r = AfterReady(q)
      /\ SameSubscription(s) /\ OthersKept(s)
  BY <1>1, EventReadyShape
<1>3. UNCHANGED <<obs, lock, seen, faults>>
  BY Zenon DEF EventReady
<1>4. /\ r \in Queue /\ QueueShape(r) /\ r.exists /\ ~r.cancelled
      /\ r.ready = q.ready + IF q.pc = "failed" THEN 1 ELSE 0
      /\ IF r.executing = "none"
         THEN r.pc = "none" /\ \A e \in Events : ~Waits(q, e)
         ELSE r.pc = "scheduled" /\ Waits(q, r.executing)
      /\ \A e \in Events : Has(r, e) <=> Waits(q, e)
      /\ Ordered(q) => Ordered(r)
  BY <1>1, <1>2, AfterReadyFacts
<1>5. /\ r.executing \in {"none", "next", "error", "completed"} /\ q.ready \in Nat
      /\ "next" \in Events /\ "error" \in Events /\ "completed" \in Events
  BY <1>1, <1>4 DEF Queue, Events
<1>6. /\ r.executing = "next" \/ Waits(r, "next") <=> Waits(q, "next")
      /\ r.executing = "error" \/ Waits(r, "error") <=> Waits(q, "error")
      /\ r.executing = "completed" \/ Waits(r, "completed") <=> Waits(q, "completed")
  BY <1>4, <1>5, Zenon DEF Has
<1> HIDE DEF r
<1>7. Scheduled(s)'
  <2>1. ErrorPushed(s)' <=> ErrorPushed(s)
    BY <1>3 DEF ErrorPushed
  <2>2. /\ Has(r, "completed") => Has(q, "completed")
        /\ Has(r, "error") => Has(q, "error")
    BY <1>6 DEF Has
  <2>3. r.pc \notin {"callback", "done"}
    BY <1>4
  <2> QED BY <1>1, <1>2, <1>3, <2>1, <2>2, <2>3 DEF Known, Scheduled, SameSubscription, r
<1>8. InOrder(s)'
  <2> SUFFICES ASSUME ~obs'.disposer
               PROVE  /\ Ordered(r)
                      /\ seen'[s].completed =>
                            /\ ~Waits(r, "next") /\ ~Waits(r, "error")
                            /\ ~Waits(r, "completed")
                            /\ r.executing \in {"none", "completed"} /\ r.pc # "scheduled"
                      /\ seen'[s].error =>
                            /\ ~Waits(r, "next") /\ ~Waits(r, "error")
                            /\ r.executing # "next"
                            /\ r.executing = "error" => r.pc # "scheduled"
    BY DEF InOrder, r
  <2>1. /\ Ordered(q)
        /\ seen[s].completed =>
              /\ ~Waits(q, "next") /\ ~Waits(q, "error") /\ ~Waits(q, "completed")
        /\ seen[s].error => ~Waits(q, "next") /\ ~Waits(q, "error")
    BY <1>1, <1>3 DEF Known, InOrder
  <2> QED BY <1>3, <1>4, <1>5, <1>6, <2>1
<1>9. FailuresKnown(s)'
  <2> SUFFICES ASSUME ~seen'[s].threw, ~sub'[s].disposing, ~Leaving(s)'
               PROVE  r.ready = 0 /\ ~Failing(s)' /\ r.pc # "failed" /\ ~r.cancelled
    BY DEF FailuresKnown, r
  <2>1. /\ ~seen[s].threw /\ ~sub[s].disposing /\ ~Leaving(s)
        /\ Failing(s)' <=> Failing(s)
    BY <1>2, <1>3 DEF SameSubscription, Failing, Leaving
  <2>2. q.ready = 0 /\ ~Failing(s) /\ q.pc # "failed"
    BY <1>1, <2>1 DEF Known, FailuresKnown
  <2> QED BY <1>4, <2>1, <2>2
<1>10. Completion(s)'
  <2> SUFFICES ASSUME Promised(s)'
               PROVE  /\ r.exists
                      /\ ~Leaving(s)' /\ (sub'[s].disposing \/ ~seen'[s].threw) =>
                            /\ sub'[s].disposing => ~Waits(r, "next") /\ ~Waits(r, "error")
                            /\ IF r.ready > 0 \/ Failing(s)'
                               THEN r.executing \in {"none", "completed"}
                               ELSE Coming(r) \/ (sub'[s].disposing /\ Cancelled(r))
    BY DEF Completion, r
  <2>1. Promised(s)
    BY <1>2, <1>3 DEF Promised, SameSubscription
  <2>2. /\ Failing(s)' <=> Failing(s)
        /\ Leaving(s)' <=> Leaving(s)
        /\ sub'[s].disposing = sub[s].disposing /\ seen'[s].threw = seen[s].threw
    BY <1>2, <1>3 DEF Failing, Leaving, SameSubscription
  <2>3. q.executing = "completed" => q.pc # "done"
    BY <1>1, <2>1 DEF Known, Scheduled, Promised
  <2> SUFFICES ASSUME ~Leaving(s), sub[s].disposing \/ ~seen[s].threw
               PROVE  /\ sub[s].disposing => ~Waits(r, "next") /\ ~Waits(r, "error")
                      /\ IF r.ready > 0 \/ Failing(s)
                         THEN r.executing \in {"none", "completed"}
                         ELSE Coming(r)
    BY <1>4, <2>2
  <2>4. /\ sub[s].disposing => ~Waits(q, "next") /\ ~Waits(q, "error")
        /\ IF q.ready > 0 \/ Failing(s)
           THEN q.executing \in {"none", "completed"}
           ELSE Coming(q) \/ (sub[s].disposing /\ Cancelled(q))
    BY <1>1, <2>1 DEF Known, Completion
  <2>5. ~sub[s].disposing => q.ready = 0 /\ ~Failing(s) /\ q.pc # "failed"
    BY <1>1 DEF Known, FailuresKnown
  <2>6. sub[s].disposing => ~Waits(r, "next") /\ ~Waits(r, "error")
    BY <1>6, <2>4
  <2>7. ASSUME r.ready > 0 \/ Failing(s) PROVE r.executing \in {"none", "completed"}
    <3>1. sub[s].disposing
      BY <1>4, <1>5, <2>5, <2>7
    <3> QED BY <1>5, <1>6, <2>4, <3>1
  <2>8. ASSUME ~(r.ready > 0), ~Failing(s) PROVE Coming(r)
    <3>1. q.ready = 0 /\ q.pc = "done"
      BY <1>2, <1>4, <1>5, <2>8
    <3>2. Waits(q, "completed")
      BY <2>3, <2>4, <2>8, <3>1 DEF Coming, Cancelled
    <3> QED BY <1>4, <1>6, <3>2 DEF Coming
  <2> QED BY <2>6, <2>7, <2>8
<1>11. Known(s)'
  BY <1>7, <1>8, <1>9, <1>10 DEF Known
<1>12. \A t \in Subscriptions : t # s => Known(t)'
  <2> SUFFICES ASSUME NEW t \in Subscriptions, t # s PROVE Known(t)'
    OBVIOUS
  <2>1. Known(t) /\ sub'[t] = sub[t] /\ seen'[t] = seen[t]
    BY <1>2, <1>3 DEF IInv, OthersKept
  <2> QED BY <1>3, <2>1, SameKept
<1>13. TypeOK'
  BY <1>1, <1>2, <1>3, TypeNames, TypeNamesNext DEF BaseInv
<1>14. ShapeKnown'
  BY <1>1, <1>2, <1>4, ShapeKept DEF SameSubscription, r
<1>15. LockKnown'
  <2>1. \A t \in Subscriptions : sub'[t].status = sub[t].status
    BY <1>2 DEF OthersKept, SameSubscription
  <2> QED BY <1>1, <1>3, <2>1, LockKept
<1>16. DisposeKnown' /\ CompletionDelivered'
  <2>1. ASSUME NEW t \in Subscriptions
        PROVE  /\ seen[t].completed => seen'[t].completed
               /\ sub'[t].status = sub[t].status
               /\ sub'[t].completedScheduled = sub[t].completedScheduled
    BY <1>2, <1>3 DEF OthersKept, SameSubscription
  <2> QED BY <1>3, <2>1, DisposeKept
<1> QED BY <1>11, <1>12, <1>13, <1>14, <1>15, <1>16, Conclude

-----------------------------------------------------------------------------
(* subscribe(), unsubscribe() and dispatchException()                      *)

(***************************************************************************)
(* A step that changes no subscription.                                    *)
(***************************************************************************)
LEMMA NothingMoves ==
  ASSUME IInv, UNCHANGED <<sub, seen, faults>>, obs' \in ObsType, lock' \in LockType,
         LockKnown',
         obs.completed => obs'.completed, obs.disposer => obs'.disposer,
         \A s \in Subscriptions :
            /\ ErrorPushed(s) /\ (Has(sub[s].queue, "error") \/ seen[s].error)
                  => ErrorPushed(s)'
            /\ Failing(s)' <=> Failing(s)
            /\ Leaving(s)' <=> Leaving(s),
         DisposeKnown'
  PROVE  IInv'
<1>1. BaseInv /\ CompletionDelivered /\ \A s \in Subscriptions : Known(s)
  BY DEF IInv
<1>2. TypeOK'
  BY <1>1, TypeNames, TypeNamesNext DEF BaseInv
<1>3. ShapeKnown'
  BY <1>1 DEF BaseInv, ShapeKnown
<1>4. CompletionDelivered'
  BY <1>1 DEF CompletionDelivered
<1>5. ASSUME NEW s \in Subscriptions PROVE Known(s)'
  <2>1. Known(s) /\ sub'[s] = sub[s] /\ seen'[s] = seen[s]
    BY <1>1
  <2>2. (Failing(s)' <=> Failing(s)) /\ (Leaving(s)' <=> Leaving(s))
    OBVIOUS
  <2>3. Scheduled(s)'
    BY <2>1 DEF Known, Scheduled
  <2>4. InOrder(s)'
    BY <2>1 DEF Known, InOrder
  <2>5. FailuresKnown(s)'
    BY <2>1, <2>2 DEF Known, FailuresKnown
  <2>6. Completion(s)'
    BY <2>1, <2>2 DEF Known, Completion, Promised
  <2> QED BY <2>3, <2>4, <2>5, <2>6 DEF Known
<1> QED BY <1>2, <1>3, <1>4, <1>5, Conclude

LEMMA DispatchExceptionInvariant ==
  ASSUME IInv, DispatchException
  PROVE  IInv'
<1>1. obs \in ObsType /\ lock \in LockType /\ BaseInv /\ DisposeKnown
  BY TypeNames DEF IInv, BaseInv
<1>2. UNCHANGED <<sub, lock, seen, faults>>
  BY DEF DispatchException
<1>3. /\ obs' \in ObsType /\ obs'.completed = obs.completed
      /\ obs'.notifyCompleteOnError = obs.notifyCompleteOnError
      /\ obs'.disposer = obs.disposer
  BY <1>1 DEF DispatchException, ObsType
<1>4. LockKnown'
  BY <1>1, <1>2, <1>3, LockKept
<1>5. DisposeKnown'
  BY <1>1, <1>2 DEF DisposeKnown, Passed
<1>6. \A s \in Subscriptions :
         /\ ErrorPushed(s) => ErrorPushed(s)'
         /\ Failing(s)' <=> Failing(s)
         /\ Leaving(s)' <=> Leaving(s)
  BY <1>2, <1>3 DEF ErrorPushed, Failing, Leaving
<1> QED BY <1>1, <1>2, <1>3, <1>4, <1>5, <1>6, NothingMoves

LEMMA SubscribeInvariant ==
  ASSUME IInv, NEW s \in Subscriptions, Subscribe(s)
  PROVE  IInv'
<1>1. /\ BaseInv /\ Known(s)
      /\ sub[s].queue \in Queue /\ QueueShape(sub[s].queue)
      /\ sub[s].status # "subscribed" => ~sub[s].queue.exists
  BY Typed DEF IInv
<1>2. /\ sub' \in [Subscriptions -> Subscription]
      /\ sub[s].status = "none" /\ sub'[s].status = "subscribed"
      /\ sub'[s].queue = sub[s].queue
      /\ sub'[s].disposing = sub[s].disposing
      /\ sub'[s].completedScheduled = sub[s].completedScheduled
      /\ sub'[s].completedCalled = sub[s].completedCalled
      /\ OthersKept(s)
  BY <1>1, SubscribeShape
<1>3. UNCHANGED <<obs, lock, seen, faults>> /\ lock.by = "none"
  BY DEF Subscribe, LockFree
<1>4. ~sub[s].completedScheduled
  BY <1>1, <1>2 DEF Known, Scheduled
<1>5. /\ ErrorPushed(s)' <=> ErrorPushed(s)
      /\ Failing(s)' <=> Failing(s)
      /\ Leaving(s)' <=> Leaving(s)
  BY <1>3 DEF ErrorPushed, Failing, Leaving
<1>6. Known(s)'
  <2>1. Scheduled(s)'
    BY <1>1, <1>2, <1>3, <1>5 DEF Known, Scheduled
  <2>2. InOrder(s)'
    BY <1>1, <1>2, <1>3 DEF Known, InOrder
  <2>3. FailuresKnown(s)'
    BY <1>1, <1>2, <1>3, <1>5 DEF Known, FailuresKnown
  <2>4. Completion(s)'
    BY <1>2, <1>4 DEF Completion, Promised
  <2> QED BY <2>1, <2>2, <2>3, <2>4 DEF Known
<1>7. \A t \in Subscriptions : t # s => Known(t)'
  <2> SUFFICES ASSUME NEW t \in Subscriptions, t # s PROVE Known(t)'
    OBVIOUS
  <2>1. Known(t) /\ sub'[t] = sub[t] /\ seen'[t] = seen[t]
    BY <1>2, <1>3 DEF IInv, OthersKept
  <2> QED BY <1>3, <2>1, SameKept
<1>8. TypeOK'
  BY <1>1, <1>2, <1>3, TypeNames, TypeNamesNext DEF BaseInv
<1>9. ShapeKnown'
  BY <1>1, <1>2, ShapeKept
<1>10. LockKnown'
  <2>1. \A t \in Subscriptions : sub[t].status = "subscribed" => sub'[t].status = "subscribed"
    BY <1>2 DEF OthersKept
  <2> QED BY <1>1, <1>3, <2>1, LockKept
<1>11. DisposeKnown' /\ CompletionDelivered'
  <2>1. ASSUME NEW t \in Subscriptions
        PROVE  /\ seen[t].completed => seen'[t].completed
               /\ sub'[t].completedScheduled = sub[t].completedScheduled
               /\ t # s => sub'[t].status = sub[t].status
    BY <1>2, <1>3 DEF OthersKept
  <2>2. ~sub'[s].completedScheduled
    BY <1>2, <1>4
  <2> QED BY <1>3, <2>1, <2>2, DisposeKept
<1> QED BY <1>6, <1>7, <1>8, <1>9, <1>10, <1>11, Conclude

(***************************************************************************)
(* A subscription that is erased has nothing left to keep.                 *)
(***************************************************************************)
LEMMA ErasedKnown ==
  ASSUME BaseInv, NEW s \in Subscriptions, Known(s), sub' = Removed(s),
         seen'[s] = seen[s], ErrorPushed(s) => ErrorPushed(s)', obs' = obs, ~Failing(s)'
  PROVE  Known(s)' /\ ShapeKnown'
<1>1. /\ sub' \in [Subscriptions -> Subscription]
      /\ sub'[s].status = "removed" /\ sub'[s].queue = NoQueue
      /\ sub'[s].disposing = sub[s].disposing
      /\ sub'[s].completedScheduled = sub[s].completedScheduled
      /\ sub'[s].completedCalled = sub[s].completedCalled
      /\ OthersKept(s)
  BY RemovedShape
<1>2. /\ QueueShape(NoQueue) /\ Ordered(NoQueue) /\ ~NoQueue.exists
      /\ NoQueue.executing = "none" /\ NoQueue.pc = "none" /\ ~NoQueue.cancelled
      /\ NoQueue.ready = 0
      /\ ~Has(NoQueue, "next") /\ ~Has(NoQueue, "error") /\ ~Has(NoQueue, "completed")
  BY NoQueueFacts DEF Events
<1>3. ~Waits(NoQueue, "next") /\ ~Waits(NoQueue, "error") /\ ~Waits(NoQueue, "completed")
  BY <1>2, Zenon DEF Has
<1>4. Scheduled(s)'
  BY <1>1, <1>2 DEF Known, Scheduled
<1>5. InOrder(s)'
  BY <1>1, <1>2, <1>3 DEF InOrder
<1>6. FailuresKnown(s)'
  BY <1>1, <1>2 DEF FailuresKnown
<1>7. Completion(s)'
  BY <1>1 DEF Completion, Promised
<1>8. ShapeKnown'
  BY <1>1, <1>2, ShapeKept
<1> QED BY <1>4, <1>5, <1>6, <1>7, <1>8 DEF Known

LEMMA UnsubscribeInvariant ==
  ASSUME IInv, NEW s \in Subscriptions, Unsubscribe(s)
  PROVE  IInv'
<1> DEFINE q == sub[s].queue
<1>1. /\ BaseInv /\ Known(s) /\ q \in Queue /\ QueueShape(q)
      /\ sub[s].status # "subscribed" => ~q.exists
  BY Typed DEF IInv
<1>2. /\ UNCHANGED <<obs, seen, faults>> /\ lock.by = "none"
      /\ sub[s].status = "subscribed"
      /\ \/ sub' = Removed(s) /\ lock' = lock
         \/ /\ sub' = [sub EXCEPT ![s].queue = Flush(@)]
            /\ lock' = [Free EXCEPT !.by = "unsubscribe", !.todo = {s}]
  BY Zenon DEF Unsubscribe, LockFree
<1>3. lock \in LockType /\ lock.todo = {}
  BY <1>1, <1>2, TypeNames DEF BaseInv, LockKnown
<1>4. CASE sub' = Removed(s) /\ lock' = lock
  <2>1. /\ sub' \in [Subscriptions -> Subscription]
        /\ sub'[s].status = "removed" /\ OthersKept(s)
    BY <1>1, <1>4, RemovedShape
  <2>2. Known(s)' /\ ShapeKnown'
    <3>1. (ErrorPushed(s) => ErrorPushed(s)') /\ ~Failing(s)'
      BY <1>2, <1>4 DEF ErrorPushed, Failing
    <3> QED BY <1>1, <1>2, <1>4, <3>1, ErasedKnown
  <2>3. \A t \in Subscriptions : t # s => Known(t)'
    <3> SUFFICES ASSUME NEW t \in Subscriptions, t # s PROVE Known(t)'
      OBVIOUS
    <3>1. Known(t) /\ sub'[t] = sub[t] /\ seen'[t] = seen[t]
      BY <1>2, <2>1 DEF IInv, OthersKept
    <3> QED BY <1>2, <1>4, <3>1, SameKept
  <2>4. TypeOK'
    BY <1>1, <1>2, <1>4, <2>1, TypeNames, TypeNamesNext DEF BaseInv
  <2>5. LockKnown'
    BY <1>1, <1>2, <1>3, <1>4, LockKept
  <2>6. DisposeKnown' /\ CompletionDelivered'
    <3>1. ASSUME NEW t \in Subscriptions
          PROVE  /\ seen[t].completed => seen'[t].completed
                 /\ sub'[t].status \in {"subscribed", "disposed"} =>
                       sub'[t].status = sub[t].status
                       /\ sub'[t].completedScheduled = sub[t].completedScheduled
      BY <1>2, <2>1 DEF OthersKept
    <3> QED BY <1>2, <1>4, <3>1, DisposeKept
  <2> QED BY <2>2, <2>3, <2>4, <2>5, <2>6, Conclude
<1>5. CASE /\ sub' = [sub EXCEPT ![s].queue = Flush(@)]
           /\ lock' = [Free EXCEPT !.by = "unsubscribe", !.todo = {s}]
  <2> DEFINE r == sub'[s].queue
  <2>1. /\ sub' \in [Subscriptions -> Subscription] /\ r = Flush(q)
        /\ SameSubscription(s) /\ OthersKept(s)
    BY <1>1, <1>5, FlushShape
  <2>2. /\ lock' \in LockType /\ lock'.by = "unsubscribe" /\ lock'.todo = {s}
    BY <1>5 DEF Free, LockType
  <2>3. /\ r \in Queue /\ QueueShape(r) /\ Ordered(r) /\ r.exists = q.exists
        /\ r.executing = q.executing /\ r.pc = q.pc /\ r.ready = 0
        /\ ~Waits(r, "next") /\ ~Waits(r, "error") /\ ~Waits(r, "completed")
    BY <1>1, <2>1, FlushFacts DEF Events
  <2> HIDE DEF r
  <2>4. Known(s)'
    <3>1. Leaving(s)' /\ ~Failing(s)' /\ (ErrorPushed(s) <=> ErrorPushed(s)')
      BY <1>2, <2>2 DEF Leaving, Failing, ErrorPushed
    <3>2. Scheduled(s)'
      <4>1. /\ Has(r, "completed") => Has(q, "completed")
            /\ Has(r, "error") => Has(q, "error")
        BY <2>3 DEF Has
      <4> QED BY <1>1, <1>2, <2>1, <2>3, <3>1, <4>1
              DEF Known, Scheduled, SameSubscription, r
    <3>3. InOrder(s)'
      BY <1>1, <1>2, <2>1, <2>3 DEF Known, InOrder, r
    <3>4. FailuresKnown(s)'
      BY <3>1 DEF FailuresKnown
    <3>5. Completion(s)'
      <4>1. Promised(s)' => Promised(s)
        BY <1>2, <2>1 DEF Promised, SameSubscription
      <4>2. Promised(s) => q.exists
        BY <1>1 DEF Known, Completion
      <4> QED BY <2>3, <3>1, <4>1, <4>2 DEF Completion, r
    <3> QED BY <3>2, <3>3, <3>4, <3>5 DEF Known
  <2>5. \A t \in Subscriptions : t # s => Known(t)'
    <3> SUFFICES ASSUME NEW t \in Subscriptions, t # s PROVE Known(t)'
      OBVIOUS
    <3>1. Known(t) /\ sub'[t] = sub[t] /\ seen'[t] = seen[t] /\ obs' = obs
      BY <1>2, <2>1 DEF IInv, OthersKept
    <3>2. /\ ErrorPushed(t) => ErrorPushed(t)'
          /\ ~Failing(t)' /\ ~Failing(t) /\ ~Leaving(t)' /\ ~Leaving(t)
      BY <1>2, <2>2 DEF ErrorPushed, Failing, Leaving
    <3> QED BY <3>1, <3>2, KnownKept
  <2>6. TypeOK'
    BY <1>1, <1>2, <2>1, <2>2, TypeNames, TypeNamesNext DEF BaseInv
  <2>7. ShapeKnown'
    BY <1>1, <2>1, <2>3, ShapeKept DEF SameSubscription, r
  <2>8. LockKnown'
    BY <1>2, <2>1, <2>2 DEF LockKnown, SameSubscription
  <2>9. DisposeKnown' /\ CompletionDelivered'
    <3>1. ASSUME NEW t \in Subscriptions
          PROVE  /\ seen[t].completed => seen'[t].completed
                 /\ sub'[t].status = sub[t].status
                 /\ sub'[t].completedScheduled = sub[t].completedScheduled
      BY <1>2, <2>1 DEF OthersKept, SameSubscription
    <3> QED BY <2>2, <3>1, DisposeKept
  <2> QED BY <2>4, <2>5, <2>6, <2>7, <2>8, <2>9, Conclude
<1> QED BY <1>2, <1>4, <1>5

\* m_lock is released.
LEMMA FreeFacts ==
  Free \in LockType /\ Free.by = "none" /\ Free.todo = {}
BY DEF Free, LockType

LEMMA UnsubscribeEndsInvariant ==
  ASSUME IInv, NEW s \in Subscriptions, UnsubscribeEnds(s)
  PROVE  IInv'
<1>1. BaseInv /\ Known(s)
  BY DEF IInv
<1>2. /\ UNCHANGED <<obs, seen, faults>> /\ lock.by = "unsubscribe" /\ s \in lock.todo
      /\ sub' = Removed(s) /\ lock' = Free
  BY Zenon DEF UnsubscribeEnds
<1>3. lock' \in LockType /\ lock'.by = "none" /\ lock'.todo = {}
  BY <1>2, FreeFacts
<1>4. /\ sub' \in [Subscriptions -> Subscription]
      /\ sub'[s].status = "removed" /\ OthersKept(s)
  BY <1>1, <1>2, RemovedShape
<1>5. Known(s)' /\ ShapeKnown'
  <2>1. (ErrorPushed(s) => ErrorPushed(s)') /\ ~Failing(s)'
    BY <1>2, <1>3 DEF ErrorPushed, Failing
  <2> QED BY <1>1, <1>2, <2>1, ErasedKnown
<1>6. \A t \in Subscriptions : t # s => Known(t)'
  <2> SUFFICES ASSUME NEW t \in Subscriptions, t # s PROVE Known(t)'
    OBVIOUS
  <2>1. Known(t) /\ sub'[t] = sub[t] /\ seen'[t] = seen[t] /\ obs' = obs
    BY <1>2, <1>4 DEF IInv, OthersKept
  <2>2. t \notin lock.todo
    BY <1>1, <1>2 DEF BaseInv, LockKnown
  <2>3. /\ ErrorPushed(t) => ErrorPushed(t)'
        /\ ~Failing(t)' /\ ~Failing(t) /\ ~Leaving(t)' /\ ~Leaving(t)
    BY <1>2, <1>3, <2>2 DEF ErrorPushed, Failing, Leaving
  <2> QED BY <2>1, <2>3, KnownKept
<1>7. TypeOK'
  BY <1>1, <1>2, <1>3, <1>4, TypeNames, TypeNamesNext DEF BaseInv
<1>8. LockKnown'
  BY <1>3 DEF LockKnown
<1>9. DisposeKnown' /\ CompletionDelivered'
  <2>1. ASSUME NEW t \in Subscriptions
        PROVE  /\ seen[t].completed => seen'[t].completed
               /\ sub'[t].status \in {"subscribed", "disposed"} =>
                     sub'[t].status = sub[t].status
                     /\ sub'[t].completedScheduled = sub[t].completedScheduled
    BY <1>2, <1>4 DEF OthersKept
  <2> QED BY <1>3, <2>1, DisposeKept
<1> QED BY <1>5, <1>6, <1>7, <1>8, <1>9, Conclude

-----------------------------------------------------------------------------
(* run()                                                                   *)

\* The one step that gets hold of m_lock has it, and left nothing undone.
AtRest == lock.todo = {} /\ (lock.by = "none" \/ (lock.by = "run" /\ lock.at # "failing"))

(***************************************************************************)
(* A failed task is popped: the subscription is one that run() will try to *)
(* erase, as was the queue one that had failed.                            *)
(***************************************************************************)
LEMMA CollectInvariant ==
  ASSUME IInv, AtRest, NEW at \in {"loop", "emit", "ending"}, NEW failed \in BOOLEAN,
         Collect(at, failed), at = "ending" <=> obs.completed,
         at # "ending" => ~obs.notifyCompleteOnError, UNCHANGED <<obs, faults>>
  PROVE  IInv'
<1>1. BaseInv
  BY DEF IInv
<1>2. /\ lock' \in LockType /\ lock'.by = "run" /\ lock'.at = at
      /\ \A s \in Subscriptions : s \in lock'.todo <=> Bad(s)
      /\ sub' \in [Subscriptions -> Subscription]
      /\ \A s \in Subscriptions :
            /\ SameSubscription(s)
            /\ IF Bad(s)
               THEN /\ sub'[s].queue \in Queue
                    /\ sub'[s].queue.ready = sub[s].queue.ready - 1
                    /\ sub'[s].queue.exists = sub[s].queue.exists
                    /\ sub'[s].queue.pending = sub[s].queue.pending
                    /\ sub'[s].queue.executing = sub[s].queue.executing
                    /\ sub'[s].queue.pc = sub[s].queue.pc
                    /\ sub'[s].queue.cancelled = sub[s].queue.cancelled
               ELSE sub'[s].queue = sub[s].queue
      /\ seen' \in [Subscriptions -> Observer]
      /\ \A s \in Subscriptions :
            /\ seen'[s].error = seen[s].error /\ seen'[s].completed = seen[s].completed
            /\ seen'[s].threw = seen[s].threw
  BY <1>1, CollectShape
<1>3. UNCHANGED <<obs, faults>>
  OBVIOUS
<1>4. ASSUME NEW s \in Subscriptions PROVE Known(s)' /\ QueueShape(sub'[s].queue)
  <2> DEFINE q == sub[s].queue
             r == sub'[s].queue
  <2>1. /\ Known(s) /\ q \in Queue /\ QueueShape(q)
        /\ sub[s].status # "subscribed" => ~q.exists
    BY <1>1, Typed DEF IInv
  <2>2. /\ r.exists = q.exists /\ r.pending = q.pending /\ r.executing = q.executing
        /\ r.pc = q.pc /\ r.cancelled = q.cancelled
        /\ r.ready = IF Bad(s) THEN q.ready - 1 ELSE q.ready
    BY <1>2
  <2>3. /\ \A e : (Waits(r, e) <=> Waits(q, e)) /\ (Has(r, e) <=> Has(q, e))
        /\ Ordered(r) <=> Ordered(q)
    BY <2>2, Zenon DEF Waits, Has, Ordered
  <2>4. q.ready \in Nat /\ (q.ready > 0 => q.exists)
    BY <2>1 DEF Queue, QueueShape
  <2>5. Bad(s) <=> q.ready > 0
    BY <2>1, <2>4 DEF Bad
  <2>6. /\ Failing(s)' <=> Bad(s)
        /\ ~Failing(s) /\ ~Leaving(s) /\ ~Leaving(s)'
        /\ ErrorPushed(s) => ErrorPushed(s)'
    BY <1>2, <1>3 DEF Failing, Leaving, ErrorPushed, AtRest
  <2>7. QueueShape(r)
    BY <2>1, <2>2, <2>4, <2>5 DEF QueueShape
  <2>8. /\ SameSubscription(s)
        /\ seen'[s].error = seen[s].error /\ seen'[s].completed = seen[s].completed
        /\ seen'[s].threw = seen[s].threw
    BY <1>2
  <2> HIDE DEF r
  <2>9. Scheduled(s)'
    BY <1>3, <2>1, <2>2, <2>3, <2>6, <2>8 DEF Known, Scheduled, SameSubscription, r
  <2>10. InOrder(s)'
    BY <1>3, <2>1, <2>2, <2>3, <2>8 DEF Known, InOrder, r
  <2>11. FailuresKnown(s)'
    BY <2>1, <2>2, <2>5, <2>6, <2>8 DEF Known, FailuresKnown, SameSubscription, r
  <2>12. Completion(s)'
    <3> SUFFICES ASSUME Promised(s)'
                 PROVE  /\ r.exists
                        /\ sub'[s].disposing \/ ~seen'[s].threw =>
                              /\ sub'[s].disposing => ~Waits(r, "next") /\ ~Waits(r, "error")
                              /\ IF r.ready > 0 \/ Failing(s)'
                                 THEN r.executing \in {"none", "completed"}
                                 ELSE Coming(r) \/ (sub'[s].disposing /\ Cancelled(r))
      BY DEF Completion, r
    <3>1. Promised(s)
      BY <2>8 DEF Promised, SameSubscription
    <3>2. /\ q.exists
          /\ sub[s].disposing \/ ~seen[s].threw =>
                /\ sub[s].disposing => ~Waits(q, "next") /\ ~Waits(q, "error")
                /\ IF q.ready > 0
                   THEN q.executing \in {"none", "completed"}
                   ELSE Coming(q) \/ (sub[s].disposing /\ Cancelled(q))
      BY <2>1, <2>6, <3>1 DEF Known, Completion
    <3>3. (Coming(r) <=> Coming(q)) /\ (Cancelled(r) <=> Cancelled(q))
      BY <2>2, <2>3 DEF Coming, Cancelled
    <3>4. r.ready > 0 \/ Bad(s) <=> q.ready > 0
      BY <2>2, <2>4, <2>5
    <3> QED BY <2>2, <2>3, <2>6, <2>8, <3>2, <3>3, <3>4 DEF SameSubscription
  <2> QED BY <2>7, <2>9, <2>10, <2>11, <2>12 DEF Known, r
<1>5. TypeOK'
  BY <1>1, <1>2, <1>3, TypeNames, TypeNamesNext DEF BaseInv
<1>6. ShapeKnown'
  <2>1. ASSUME NEW s \in Subscriptions, sub'[s].status # "subscribed"
        PROVE  ~sub'[s].queue.exists
    <3>1. sub[s].status # "subscribed" /\ ~sub[s].queue.exists
      BY <1>1, <1>2, <2>1, Typed DEF SameSubscription
    <3> QED BY <1>2, <3>1
  <2> QED BY <1>4, <2>1 DEF ShapeKnown
<1>7. LockKnown'
  <2>1. lock'.todo \subseteq Subscriptions
    BY <1>2 DEF LockType
  <2>2. \A s \in lock'.todo : sub'[s].status = "subscribed"
    BY <1>2, <2>1 DEF Bad, SameSubscription
  <2> QED BY <1>2, <1>3, <2>2 DEF LockKnown
<1>8. DisposeKnown' /\ CompletionDelivered'
  <2>1. ASSUME NEW t \in Subscriptions
        PROVE  /\ seen[t].completed => seen'[t].completed
               /\ sub'[t].status = sub[t].status
               /\ sub'[t].completedScheduled = sub[t].completedScheduled
    BY <1>2 DEF SameSubscription
  <2> QED BY <1>2, <2>1, DisposeKept
<1> QED BY <1>4, <1>5, <1>6, <1>7, <1>8, Conclude

(***************************************************************************)
(* notifyOnCompleteInternal(): every observer is promised onCompleted().   *)
(***************************************************************************)
LEMMA WithCompletedInvariant ==
  ASSUME IInv, AtRest, ~obs.completed, sub' = WithCompleted,
         obs' = [obs EXCEPT !.completed = TRUE],
         lock' \in LockType, lock'.by = "none", lock'.todo = {},
         UNCHANGED <<seen, faults>>
  PROVE  IInv'
<1>1. BaseInv /\ obs \in ObsType
  BY TypeNames DEF IInv, BaseInv
<1>2. /\ sub' \in [Subscriptions -> Subscription]
      /\ \A s \in Subscriptions :
            IF sub[s].status = "subscribed"
            THEN /\ sub'[s].queue = Push(sub[s].queue, "completed")
                 /\ sub'[s].completedScheduled
                 /\ sub'[s].status = sub[s].status /\ sub'[s].disposing = sub[s].disposing
                 /\ sub'[s].completedCalled = sub[s].completedCalled
            ELSE sub'[s] = sub[s]
  BY <1>1, WithCompletedShape
<1>3. /\ obs' \in ObsType /\ obs'.completed /\ obs'.disposer = obs.disposer
      /\ obs'.notifyCompleteOnError = obs.notifyCompleteOnError
      /\ UNCHANGED <<seen, faults>>
  BY <1>1 DEF ObsType
<1>4. ASSUME NEW s \in Subscriptions
      PROVE  /\ ~Failing(s) /\ ~Leaving(s) /\ ~Failing(s)' /\ ~Leaving(s)'
             /\ ErrorPushed(s) => ErrorPushed(s)'
  BY <1>3 DEF AtRest, Failing, Leaving, ErrorPushed
<1>5. ASSUME NEW s \in Subscriptions, sub[s].status = "subscribed"
      PROVE  Known(s)' /\ QueueShape(sub'[s].queue)
  <2> DEFINE q == sub[s].queue
             r == sub'[s].queue
  <2>1. Known(s) /\ q \in Queue /\ QueueShape(q) /\ sub[s] \in Subscription
    BY <1>1, Typed DEF IInv
  <2>2. /\ "next" \in Events /\ "error" \in Events /\ "completed" \in Events
        /\ \A e \in Events : e = "next" \/ e = "error" \/ e = "completed"
    BY DEF Events
  <2>3. r = Push(q, "completed")
    BY <1>2, <1>5
  <2>4. /\ r \in Queue /\ QueueShape(r)
        /\ r.exists /\ r.ready = q.ready /\ r.cancelled = q.cancelled
        /\ IF q.executing = "none"
           THEN r.executing = "completed" /\ r.pc = "scheduled"
                /\ \A e \in Events : ~Waits(r, e)
           ELSE /\ r.executing = q.executing /\ r.pc = q.pc
                /\ \A e \in Events : Waits(r, e) <=> Waits(q, e) \/ e = "completed"
        /\ Ordered(q) /\ (\A e \in Events : Has(q, e) => Before(e, "completed"))
              => Ordered(r)
    <3> HIDE DEF q, r
    <3> QED BY <2>1, <2>2, <2>3, PushFacts
  <2> HIDE DEF r
  <2>5. /\ sub'[s].completedScheduled
        /\ sub'[s].status = sub[s].status /\ sub'[s].disposing = sub[s].disposing
        /\ sub'[s].completedCalled = sub[s].completedCalled
    BY <1>2, <1>5
  <2>6. /\ Waits(r, "next") => Waits(q, "next")
        /\ Waits(r, "error") => Waits(q, "error")
        /\ r.executing = q.executing \/ (r.executing = "completed" /\ r.pc = "scheduled")
    BY <2>2, <2>4
  <2>7. q.executing = "none" => q.pc = "none" /\ ~q.cancelled
    BY <2>1 DEF QueueShape
  <2>8. sub[s].completedScheduled => sub[s].disposing
    BY <2>1 DEF Known, Scheduled
  <2>9. sub[s].disposing => obs.disposer
    BY <2>1 DEF Known, Scheduled
  <2>10. Scheduled(s)'
    <3>1. Has(r, "error") => Has(q, "error")
      BY <2>4, <2>6 DEF Has
    <3>2. r.executing = "completed" /\ r.pc \in {"callback", "done"}
             => q.executing = "completed" /\ q.pc \in {"callback", "done"}
      BY <2>4
    <3> QED BY <1>3, <1>4, <1>5, <2>1, <2>5, <2>9, <3>1, <3>2 DEF Known, Scheduled, r
  <2>11. InOrder(s)'
    <3> SUFFICES ASSUME ~obs.disposer
                 PROVE  /\ Ordered(r)
                        /\ ~seen[s].completed
                        /\ seen[s].error =>
                              /\ ~Waits(r, "next") /\ ~Waits(r, "error")
                              /\ r.executing # "next"
                              /\ r.executing = "error" => r.pc # "scheduled"
      BY <1>3 DEF InOrder, r
    <3>1. ~sub[s].completedScheduled
      BY <2>8, <2>9
    <3>2. ~Has(q, "completed") /\ ~seen[s].completed
      BY <2>1, <3>1 DEF Known, Scheduled
    <3>3. /\ Ordered(q)
          /\ seen[s].error =>
                /\ ~Waits(q, "next") /\ ~Waits(q, "error") /\ q.executing # "next"
                /\ q.executing = "error" => q.pc # "scheduled"
      BY <2>1 DEF Known, InOrder
    <3>4. ASSUME NEW e \in Events, Has(q, e) PROVE Before(e, "completed")
      BY <2>2, <3>2, <3>4 DEF Before
    <3> QED BY <2>4, <2>6, <3>2, <3>3, <3>4
  <2>12. FailuresKnown(s)'
    BY <1>3, <1>4, <2>1, <2>4, <2>5, <2>7 DEF Known, FailuresKnown, r
  <2>13. Completion(s)'
    <3> SUFFICES ASSUME ~seen[s].completed, sub[s].disposing \/ ~seen[s].threw
                 PROVE  /\ sub[s].disposing => ~Waits(r, "next") /\ ~Waits(r, "error")
                        /\ IF r.ready > 0
                           THEN r.executing \in {"none", "completed"}
                           ELSE Coming(r)
      BY <1>3, <1>4, <2>4, <2>5 DEF Completion, Promised, r
    <3>1. Coming(r)
      BY <2>2, <2>4, <2>7 DEF Coming
    <3>2. CASE sub[s].disposing
      <4>1. Promised(s)
        BY <1>5, <2>1, <3>2 DEF Known, Scheduled, Promised
      <4>2. /\ ~Waits(q, "next") /\ ~Waits(q, "error")
            /\ q.ready > 0 => q.executing \in {"none", "completed"}
        BY <1>4, <2>1, <3>2, <4>1 DEF Known, Completion
      <4> QED BY <2>4, <2>6, <3>1, <4>2
    <3>3. CASE ~sub[s].disposing
      <4>1. q.ready = 0
        BY <1>4, <2>1, <3>3 DEF Known, FailuresKnown
      <4> QED BY <2>4, <3>1, <3>3, <4>1
    <3> QED BY <3>2, <3>3
  <2> QED BY <2>4, <2>10, <2>11, <2>12, <2>13 DEF Known, r
<1>6. ASSUME NEW s \in Subscriptions, sub[s].status # "subscribed"
      PROVE  Known(s)' /\ sub'[s] = sub[s]
  <2>1. Known(s) /\ sub'[s] = sub[s] /\ seen'[s] = seen[s]
    BY <1>2, <1>3, <1>6 DEF IInv
  <2> QED BY <1>3, <1>4, <2>1, KnownKept
<1>7. TypeOK'
  BY <1>1, <1>2, <1>3, TypeNames, TypeNamesNext DEF BaseInv
<1>8. ShapeKnown'
  BY <1>1, <1>2, <1>5, <1>6, Typed DEF ShapeKnown
<1>9. LockKnown'
  BY DEF LockKnown
<1>10. DisposeKnown' /\ CompletionDelivered'
  <2>1. ~(lock.by = "dispose") /\ lock'.by # "dispose"
    BY DEF AtRest
  <2>2. ASSUME NEW t \in Subscriptions
        PROVE  /\ seen[t].completed => seen'[t].completed
               /\ sub'[t].status = sub[t].status
               /\ \/ sub'[t].completedScheduled = sub[t].completedScheduled
                  \/ sub'[t].status = "subscribed"
    BY <1>2, <1>3
  <2> QED BY <2>1, <2>2, DisposeKept
<1> QED BY <1>5, <1>6, <1>7, <1>8, <1>9, <1>10, Conclude

(***************************************************************************)
(* m_lock is released, or run() goes on to announce an error.              *)
(***************************************************************************)
LEMMA Released ==
  ASSUME IInv, AtRest, UNCHANGED <<sub, seen, faults>>, lock' = Free, obs' \in ObsType,
         obs'.completed = obs.completed, obs'.disposer = obs.disposer,
         obs'.notifyCompleteOnError = obs.notifyCompleteOnError
  PROVE  IInv'
<1>1. lock' \in LockType /\ lock'.by = "none" /\ lock'.todo = {}
  BY FreeFacts
<1>2. LockKnown'
  BY <1>1 DEF LockKnown
<1>3. DisposeKnown'
  BY <1>1 DEF DisposeKnown
<1>4. ASSUME NEW s \in Subscriptions
      PROVE  /\ ErrorPushed(s) => ErrorPushed(s)'
             /\ Failing(s)' <=> Failing(s)
             /\ Leaving(s)' <=> Leaving(s)
  BY <1>1 DEF AtRest, ErrorPushed, Failing, Leaving
<1> QED BY <1>1, <1>2, <1>3, <1>4, NothingMoves

LEMMA FailInvariant ==
  ASSUME IInv, AtRest, UNCHANGED <<sub, seen, faults>>, obs' \in ObsType,
         obs'.completed = obs.completed, obs'.disposer = obs.disposer,
         obs'.notifyCompleteOnError = obs.notifyCompleteOnError,
         ~obs.completed, ~obs.notifyCompleteOnError,
         lock' \in LockType, lock'.by = "run", lock'.at = "failing", lock'.todo = Subscribed
  PROVE  IInv'
<1>1. Subscribed \subseteq Subscriptions /\ \A s \in Subscribed : sub[s].status = "subscribed"
  BY DEF Subscribed
<1>2. LockKnown'
  BY <1>1 DEF LockKnown
<1>3. DisposeKnown'
  BY DEF DisposeKnown
<1>4. ASSUME NEW s \in Subscriptions
      PROVE  /\ ~(Has(sub[s].queue, "error") \/ seen[s].error)
             /\ Failing(s)' <=> Failing(s)
             /\ Leaving(s)' <=> Leaving(s)
  <2>1. ~ErrorPushed(s)
    BY DEF AtRest, ErrorPushed
  <2>2. Known(s)
    BY DEF IInv
  <2> QED BY <2>1, <2>2 DEF Known, Scheduled, AtRest, Failing, Leaving
<1> QED BY <1>2, <1>3, <1>4, NothingMoves

(***************************************************************************)
(* unsubscribeInternal() for a subscription whose task had failed.         *)
(***************************************************************************)
LEMMA UnregisterFailedInvariant ==
  ASSUME IInv, NEW s \in Subscriptions, UnregisterFailed(s)
  PROVE  IInv'
<1> DEFINE q == sub[s].queue
<1>1. /\ BaseInv /\ Known(s) /\ q \in Queue /\ QueueShape(q)
      /\ sub[s].status # "subscribed" => ~q.exists
      /\ lock \in LockType
  BY Typed, TypeNames DEF IInv, BaseInv
<1>2. /\ UNCHANGED <<obs, seen, faults>> /\ s \in lock.todo
      /\ lock.by = "run" /\ lock.at \in {"loop", "emit", "ending"}
      /\ lock' = [lock EXCEPT !.todo = @ \ {s}]
      /\ sub' = IF IsEmpty(Flush(q)) THEN Removed(s) ELSE [sub EXCEPT ![s].queue = Flush(q)]
  BY Zenon DEF UnregisterFailed
<1>3. /\ lock' \in LockType /\ lock'.by = lock.by /\ lock'.at = lock.at
      /\ lock'.todo = lock.todo \ {s}
  BY <1>1, <1>2 DEF LockType
<1>4. ASSUME NEW t \in Subscriptions
      PROVE  /\ ErrorPushed(t)' <=> ErrorPushed(t)
             /\ ~Leaving(t) /\ ~Leaving(t)'
             /\ Failing(t)' <=> Failing(t) /\ t # s
  BY <1>2, <1>3 DEF ErrorPushed, Leaving, Failing
<1>5. Failing(s) /\ sub[s].status = "subscribed"
  BY <1>1, <1>2 DEF Failing, BaseInv, LockKnown
<1>6. /\ Flush(q) \in Queue /\ QueueShape(Flush(q)) /\ Ordered(Flush(q))
      /\ Flush(q).exists = q.exists /\ Flush(q).executing = q.executing
      /\ Flush(q).pc = q.pc /\ Flush(q).ready = 0 /\ Flush(q).pending = <<>>
      /\ Flush(q).cancelled <=> q.executing # "none"
      /\ ~Waits(Flush(q), "next") /\ ~Waits(Flush(q), "error")
      /\ ~Waits(Flush(q), "completed")
  BY <1>1, FlushFacts DEF Events
<1>7. /\ Known(s)' /\ ShapeKnown'
      /\ sub' \in [Subscriptions -> Subscription] /\ OthersKept(s)
      /\ sub'[s].status \in {"subscribed", "removed"}
      /\ sub'[s].completedScheduled = sub[s].completedScheduled
  <2>1. CASE IsEmpty(Flush(q))
    <3>1. sub' = Removed(s)
      BY <1>2, <2>1, Zenon
    <3>2. /\ sub' \in [Subscriptions -> Subscription]
          /\ sub'[s].status = "removed" /\ OthersKept(s)
          /\ sub'[s].completedScheduled = sub[s].completedScheduled
      BY <1>1, <3>1, RemovedShape
    <3>3. ~Failing(s)'
      BY <1>4
    <3>4. Known(s)' /\ ShapeKnown'
      BY <1>1, <1>2, <1>4, <3>1, <3>3, ErasedKnown
    <3> QED BY <3>2, <3>4
  <2>2. CASE ~IsEmpty(Flush(q))
    <3> DEFINE r == sub'[s].queue
    <3>1. sub' = [sub EXCEPT ![s].queue = Flush(q)]
      BY <1>2, <2>2, Zenon
    <3>2. /\ sub' \in [Subscriptions -> Subscription] /\ r = Flush(q)
          /\ SameSubscription(s) /\ OthersKept(s)
      BY <1>1, <3>1, FlushShape
    <3>3. q.executing # "none"
      BY <1>6, <2>2 DEF IsEmpty
    <3>4. /\ r \in Queue /\ QueueShape(r) /\ Ordered(r) /\ r.exists = q.exists
          /\ r.executing = q.executing /\ r.pc = q.pc /\ r.ready = 0 /\ r.cancelled
          /\ ~Waits(r, "next") /\ ~Waits(r, "error") /\ ~Waits(r, "completed")
      BY <1>6, <3>2, <3>3
    <3> HIDE DEF r
    <3>5. Scheduled(s)'
      <4>1. /\ Has(r, "completed") => Has(q, "completed")
            /\ Has(r, "error") => Has(q, "error")
        BY <3>4 DEF Has
      <4> QED BY <1>1, <1>2, <1>4, <3>2, <3>4, <4>1
              DEF Known, Scheduled, SameSubscription, r
    <3>6. InOrder(s)'
      BY <1>1, <1>2, <3>2, <3>4 DEF Known, InOrder, r
    <3>7. seen[s].threw \/ sub[s].disposing
      BY <1>1, <1>4, <1>5 DEF Known, FailuresKnown
    <3>8. FailuresKnown(s)'
      BY <1>2, <3>2, <3>7 DEF FailuresKnown, SameSubscription
    <3>9. Completion(s)'
      <4> SUFFICES ASSUME Promised(s)'
                   PROVE  /\ r.exists
                          /\ (sub'[s].disposing \/ ~seen'[s].threw)
                                => sub'[s].disposing /\ Cancelled(r)
        BY <1>4, <3>4 DEF Completion, r
      <4>1. Promised(s)
        BY <1>2, <3>2 DEF Promised, SameSubscription
      <4>2. /\ q.exists
            /\ sub[s].disposing \/ ~seen[s].threw => q.executing \in {"none", "completed"}
        BY <1>1, <1>4, <1>5, <4>1 DEF Known, Completion
      <4>3. q.executing = "completed" => q.pc \notin {"callback", "done"}
        BY <1>1, <4>1 DEF Known, Scheduled, Promised
      <4>4. q.pc \in {"none", "scheduled", "callback", "done", "failed"}
            /\ (q.executing # "none" => q.pc # "none")
        BY <1>1 DEF Queue, QueueShape
      <4> QED BY <1>2, <3>2, <3>3, <3>4, <3>7, <4>2, <4>3, <4>4
              DEF Cancelled, SameSubscription
    <3>10. ShapeKnown'
      BY <1>1, <3>2, <3>4, ShapeKept DEF SameSubscription, r
    <3> QED BY <1>5, <3>2, <3>5, <3>6, <3>8, <3>9, <3>10 DEF Known, SameSubscription
  <2> QED BY <2>1, <2>2
<1>8. \A t \in Subscriptions : t # s => Known(t)'
  <2> SUFFICES ASSUME NEW t \in Subscriptions, t # s PROVE Known(t)'
    OBVIOUS
  <2>1. Known(t) /\ sub'[t] = sub[t] /\ seen'[t] = seen[t] /\ obs' = obs
    BY <1>2, <1>7 DEF IInv, OthersKept
  <2> QED BY <1>4, <2>1, KnownKept
<1>9. TypeOK'
  BY <1>1, <1>2, <1>3, <1>7, TypeNames, TypeNamesNext DEF BaseInv
<1>10. LockKnown'
  <2>1. lock'.todo \subseteq Subscriptions
    BY <1>3 DEF LockType
  <2>2. \A t \in lock'.todo : sub'[t].status = "subscribed"
    BY <1>1, <1>3, <1>7, <2>1 DEF BaseInv, LockKnown, OthersKept
  <2> QED BY <1>1, <1>2, <1>3, <2>2 DEF BaseInv, LockKnown
<1>11. DisposeKnown' /\ CompletionDelivered'
  <2>1. ASSUME NEW t \in Subscriptions
        PROVE  /\ seen[t].completed => seen'[t].completed
               /\ sub'[t].status \in {"subscribed", "disposed"} =>
                     sub'[t].status = sub[t].status
               /\ sub'[t].completedScheduled = sub[t].completedScheduled
    BY <1>2, <1>5, <1>7 DEF OthersKept
  <2>2. lock'.by # "dispose"
    BY <1>2, <1>3
  <2> QED BY <2>1, <2>2, DisposeKept
<1> QED BY <1>7, <1>8, <1>9, <1>10, <1>11, Conclude

(***************************************************************************)
(* A value is pushed to every subscription: to none that was promised      *)
(* onCompleted(), because its queue exists.                                *)
(***************************************************************************)
LEMMA EmittedInvariant ==
  ASSUME IInv, Holding("emit"), lock.todo = {},
         ~\E s \in Subscribed : Rejects(s),
         sub' = [s \in Subscriptions |-> IF s \in Subscribed
                 THEN [sub[s] EXCEPT !.queue = Push(@, "next")] ELSE sub[s]],
         obs' \in ObsType, obs'.completed = obs.completed, obs'.disposer = obs.disposer,
         obs'.notifyCompleteOnError = obs.notifyCompleteOnError,
         lock' = Free, UNCHANGED <<seen, faults>>
  PROVE  IInv'
<1>1. BaseInv /\ lock.by = "run" /\ lock.at = "emit"
  BY DEF IInv, Holding
<1>2. /\ sub' \in [Subscriptions -> Subscription]
      /\ \A s \in Subscriptions :
            IF sub[s].status = "subscribed"
            THEN sub'[s].queue = Push(sub[s].queue, "next") /\ SameSubscription(s)
            ELSE sub'[s] = sub[s]
  BY <1>1, EmittedShape
<1>3. lock' \in LockType /\ lock'.by = "none" /\ lock'.todo = {}
  BY FreeFacts
<1>4. ASSUME NEW s \in Subscriptions
      PROVE  /\ ~Failing(s) /\ ~Leaving(s) /\ ~Failing(s)' /\ ~Leaving(s)'
             /\ ~ErrorPushed(s)
  BY <1>1, <1>3 DEF BaseInv, LockKnown, Failing, Leaving, ErrorPushed
<1>5. ASSUME NEW s \in Subscriptions, sub[s].status = "subscribed"
      PROVE  Known(s)' /\ QueueShape(sub'[s].queue)
  <2> DEFINE q == sub[s].queue
             r == sub'[s].queue
  <2>1. Known(s) /\ q \in Queue /\ QueueShape(q) /\ sub[s] \in Subscription
    BY <1>1, Typed DEF IInv
  <2>2. /\ "next" \in Events /\ "error" \in Events /\ "completed" \in Events
        /\ \A e \in Events : e = "next" \/ e = "error" \/ e = "completed"
    BY DEF Events
  <2>3. r = Push(q, "next")
    BY <1>2, <1>5
  <2>4. /\ r \in Queue /\ QueueShape(r)
        /\ r.exists /\ r.ready = q.ready /\ r.cancelled = q.cancelled
        /\ IF q.executing = "none"
           THEN r.executing = "next" /\ r.pc = "scheduled"
                /\ \A e \in Events : ~Waits(r, e)
           ELSE /\ r.executing = q.executing /\ r.pc = q.pc
                /\ \A e \in Events : Waits(r, e) <=> Waits(q, e) \/ e = "next"
        /\ Ordered(q) /\ (\A e \in Events : Has(q, e) => Before(e, "next"))
              => Ordered(r)
    <3> HIDE DEF q, r
    <3> QED BY <2>1, <2>2, <2>3, PushFacts
  <2> HIDE DEF r
  <2>5. SameSubscription(s)
    BY <1>2, <1>5
  <2>6. ~Promised(s)
    <3>1. ~Rejects(s)
      BY <1>5 DEF Subscribed
    <3>2. ~(sub[s].queue.exists /\ sub[s].completedScheduled)
      BY <3>1 DEF Rejects
    <3> QED BY <2>1, <3>2 DEF Known, Completion, Promised
  <2>7. /\ ~Has(q, "error") /\ ~seen[s].error
        /\ Has(q, "completed") \/ seen[s].completed => sub[s].completedScheduled
        /\ sub[s].completedScheduled => obs.disposer
    BY <1>1, <1>4, <2>1 DEF Known, Scheduled, BaseInv, LockKnown
  <2>8. q.executing = "none" => q.pc = "none" /\ ~q.cancelled
    BY <2>1 DEF QueueShape
  <2>9. Scheduled(s)'
    <3>1. /\ Has(r, "error") => Has(q, "error")
          /\ Has(r, "completed") => Has(q, "completed")
          /\ r.executing = "completed" => q.executing = "completed" /\ r.pc = q.pc
      BY <2>2, <2>4 DEF Has
    <3> QED BY <2>1, <2>5, <2>7, <3>1 DEF Known, Scheduled, SameSubscription, r
  <2>10. InOrder(s)'
    <3> SUFFICES ASSUME ~obs.disposer
                 PROVE  Ordered(r) /\ ~seen[s].completed /\ ~seen[s].error
      BY DEF InOrder, r
    <3>1. ~Has(q, "completed") /\ ~seen[s].completed /\ Ordered(q)
      BY <2>1, <2>7 DEF Known, InOrder
    <3>2. ASSUME NEW e \in Events, Has(q, e) PROVE Before(e, "next")
      BY <2>2, <2>7, <3>1, <3>2 DEF Before
    <3> QED BY <2>4, <2>7, <3>1, <3>2
  <2>11. FailuresKnown(s)'
    BY <1>4, <2>1, <2>4, <2>5, <2>8 DEF Known, FailuresKnown, SameSubscription, r
  <2>12. Completion(s)'
    BY <2>5, <2>6 DEF Completion, Promised, SameSubscription
  <2> QED BY <2>4, <2>9, <2>10, <2>11, <2>12 DEF Known, r
<1>6. ASSUME NEW s \in Subscriptions, sub[s].status # "subscribed"
      PROVE  Known(s)' /\ sub'[s] = sub[s]
  <2>1. Known(s) /\ sub'[s] = sub[s] /\ seen'[s] = seen[s]
    BY <1>2, <1>6 DEF IInv
  <2> QED BY <1>4, <2>1, KnownKept
<1>7. TypeOK'
  BY <1>1, <1>2, <1>3, TypeNames, TypeNamesNext DEF BaseInv
<1>8. ShapeKnown'
  BY <1>1, <1>2, <1>5, <1>6, Typed DEF ShapeKnown, SameSubscription
<1>9. LockKnown'
  BY <1>3 DEF LockKnown
<1>10. DisposeKnown' /\ CompletionDelivered'
  <2>1. ASSUME NEW t \in Subscriptions
        PROVE  /\ seen[t].completed => seen'[t].completed
               /\ sub'[t].status = sub[t].status
               /\ sub'[t].completedScheduled = sub[t].completedScheduled
    BY <1>2 DEF SameSubscription
  <2> QED BY <1>3, <2>1, DisposeKept
<1> QED BY <1>5, <1>6, <1>7, <1>8, <1>9, <1>10, Conclude

(***************************************************************************)
(* notifyOnErrorNothrow() for one subscription.                            *)
(***************************************************************************)
LEMMA NotifyOnErrorInvariant ==
  ASSUME IInv, NEW s \in Subscriptions, NotifyOnError(s)
  PROVE  IInv'
<1> DEFINE q == sub[s].queue
           r == sub'[s].queue
<1>1. /\ BaseInv /\ Known(s) /\ q \in Queue /\ QueueShape(q) /\ sub[s] \in Subscription
      /\ sub[s].status # "subscribed" => ~q.exists
      /\ lock \in LockType /\ obs \in ObsType
  BY Typed, TypeNames DEF IInv, BaseInv
<1>2. /\ UNCHANGED <<obs, seen, faults>> /\ s \in lock.todo
      /\ lock.by = "run" /\ lock.at = "failing"
      /\ lock' = [lock EXCEPT !.todo = @ \ {s}]
  BY Zenon DEF NotifyOnError, Holding
<1>3. /\ lock' \in LockType /\ lock'.by = lock.by /\ lock'.at = lock.at
      /\ lock'.todo = lock.todo \ {s}
  BY <1>1, <1>2 DEF LockType
<1>4. ASSUME NEW t \in Subscriptions
      PROVE  /\ ErrorPushed(t) => ErrorPushed(t)'
             /\ ~Leaving(t) /\ ~Leaving(t)' /\ ~Failing(t) /\ ~Failing(t)'
  BY <1>2, <1>3 DEF ErrorPushed, Leaving, Failing
<1>5. ErrorPushed(s)' /\ ~ErrorPushed(s) /\ sub[s].status = "subscribed" /\ ~obs.completed
  BY <1>1, <1>2, <1>3 DEF ErrorPushed, BaseInv, LockKnown
<1>6. DisposeKnown'
  BY <1>2, <1>3 DEF DisposeKnown
<1>7. CASE sub' = sub
  <2>1. LockKnown'
    BY <1>1, <1>2, <1>3, <1>7 DEF BaseInv, LockKnown
  <2> QED BY <1>1, <1>2, <1>3, <1>4, <1>6, <1>7, <2>1, NothingMoves
<1>8. CASE /\ ~sub[s].completedScheduled
           /\ sub' = [sub EXCEPT ![s].queue = Push(Flush(@), "error")]
  <2>1. /\ sub' \in [Subscriptions -> Subscription] /\ r = Push(Flush(q), "error")
        /\ SameSubscription(s) /\ OthersKept(s)
    BY <1>1, <1>8, NotifiedShape
  <2>2. /\ r \in Queue /\ QueueShape(r) /\ r.exists /\ r.ready = 0
        /\ r.cancelled <=> q.executing # "none"
        /\ IF q.executing = "none"
           THEN r.executing = "error" /\ r.pc = "scheduled" /\ \A e \in Events : ~Waits(r, e)
           ELSE /\ r.executing = q.executing /\ r.pc = q.pc
                /\ \A e \in Events : Waits(r, e) <=> e = "error"
        /\ (q.executing # "none" => Before(q.executing, "error")) => Ordered(r)
    <3> HIDE DEF q, r
    <3>1. "error" \in Events
      BY DEF Events
    <3> QED BY <1>1, <2>1, <3>1, FlushPushFacts
  <2>3. ~Waits(r, "next") /\ ~Waits(r, "completed")
    BY <2>2 DEF Events
  <2> HIDE DEF r
  <2>4. /\ ~Has(q, "error") /\ ~seen[s].error /\ ~Has(q, "completed") /\ ~seen[s].completed
        /\ ~sub[s].disposing
    BY <1>1, <1>5, <1>8 DEF Known, Scheduled
  <2>5. q.executing \in {"none", "next"}
    BY <1>1, <2>4 DEF Has, Queue
  <2>6. Known(s)'
    <3>1. Scheduled(s)'
      <4>1. ~Has(r, "completed") /\ r.executing # "completed"
        BY <2>2, <2>3, <2>5 DEF Has
      <4> QED BY <1>1, <1>2, <1>5, <2>1, <2>4, <4>1
              DEF Known, Scheduled, SameSubscription, r
    <3>2. InOrder(s)'
      <4>1. Ordered(r)
        BY <2>2, <2>5 DEF Before
      <4> QED BY <1>2, <2>4, <4>1 DEF InOrder, r
    <3>3. FailuresKnown(s)'
      <4>1. ~seen[s].threw => q.pc # "failed"
        BY <1>1, <1>4, <2>4 DEF Known, FailuresKnown
      <4> QED BY <1>2, <1>4, <2>1, <2>2, <2>5, <4>1 DEF FailuresKnown, SameSubscription, r
    <3>4. Completion(s)'
      BY <1>8, <2>1 DEF Completion, Promised, SameSubscription
    <3> QED BY <3>1, <3>2, <3>3, <3>4 DEF Known
  <2>7. \A t \in Subscriptions : t # s => Known(t)'
    <3> SUFFICES ASSUME NEW t \in Subscriptions, t # s PROVE Known(t)'
      OBVIOUS
    <3>1. Known(t) /\ sub'[t] = sub[t] /\ seen'[t] = seen[t] /\ obs' = obs
      BY <1>2, <2>1 DEF IInv, OthersKept
    <3> QED BY <1>4, <3>1, KnownKept
  <2>8. TypeOK'
    BY <1>1, <1>2, <1>3, <2>1, TypeNames, TypeNamesNext DEF BaseInv
  <2>9. ShapeKnown'
    BY <1>1, <1>5, <2>1, <2>2, ShapeKept DEF SameSubscription, r
  <2>10. LockKnown'
    <3>1. lock'.todo \subseteq Subscriptions
      BY <1>3 DEF LockType
    <3>2. \A t \in lock'.todo : sub'[t].status = "subscribed"
      BY <1>1, <1>3, <2>1, <3>1 DEF BaseInv, LockKnown, OthersKept
    <3> QED BY <1>1, <1>2, <1>3, <3>2 DEF BaseInv, LockKnown
  <2>11. CompletionDelivered'
    <3>1. ASSUME NEW t \in Subscriptions
          PROVE  /\ seen[t].completed => seen'[t].completed
                 /\ sub'[t].status = sub[t].status
                 /\ sub'[t].completedScheduled = sub[t].completedScheduled
      BY <1>2, <2>1 DEF OthersKept, SameSubscription
    <3> QED BY <1>2, <1>3, <3>1, DisposeKept
  <2> QED BY <1>6, <2>6, <2>7, <2>8, <2>9, <2>10, <2>11, Conclude
<1> QED BY <1>7, <1>8, Zenon DEF NotifyOnError

-----------------------------------------------------------------------------
(* The steps of run()                                                      *)

LEMMA BeginRunInvariant ==
  ASSUME IInv, BeginRun
  PROVE  IInv'
<1>1. BaseInv /\ obs \in ObsType /\ lock \in LockType
  BY TypeNames DEF IInv, BaseInv
<1>2. lock.by = "none" /\ AtRest /\ faults' = faults
  BY <1>1 DEF BeginRun, LockFree, AtRest, BaseInv, LockKnown
<1>3. CASE /\ obs.completed /\ obs' = obs
           /\ \E f \in BOOLEAN : Collect("ending", f)
  BY <1>2, <1>3, CollectInvariant
<1>4. CASE /\ ~obs.completed /\ obs' = [obs EXCEPT !.completed = TRUE]
           /\ sub' = WithCompleted /\ UNCHANGED <<lock, seen>>
  <2>1. lock' \in LockType /\ lock'.by = "none" /\ lock'.todo = {}
    BY <1>1, <1>2, <1>4 DEF AtRest
  <2> QED BY <1>2, <1>4, <2>1, WithCompletedInvariant
<1>5. CASE /\ ~obs.completed /\ ~obs.notifyCompleteOnError
           /\ obs' = [obs EXCEPT !.dispatched = FALSE]
           /\ lock' = [by |-> "run", at |-> "failing", todo |-> Subscribed, failed |-> TRUE]
           /\ UNCHANGED <<sub, seen>>
  <2>1. /\ obs' \in ObsType /\ obs'.completed = obs.completed
        /\ obs'.disposer = obs.disposer
        /\ obs'.notifyCompleteOnError = obs.notifyCompleteOnError
    BY <1>1, <1>5 DEF ObsType
  <2>2. Subscribed \in SUBSET Subscriptions
    BY DEF Subscribed
  <2>3. /\ lock' \in LockType /\ lock'.by = "run" /\ lock'.at = "failing"
        /\ lock'.todo = Subscribed
    BY <1>5, <2>2 DEF LockType
  <2> QED BY <1>2, <1>5, <2>1, <2>3, FailInvariant
<1>6. CASE /\ ~obs.completed /\ ~obs.notifyCompleteOnError /\ obs' = obs
           /\ \E f \in BOOLEAN : Collect("loop", f)
  BY <1>2, <1>6, CollectInvariant
<1>7. obs.completed \in BOOLEAN /\ obs.notifyCompleteOnError \in BOOLEAN
  BY <1>1 DEF ObsType
<1> QED BY <1>3, <1>4, <1>5, <1>6, <1>7 DEF BeginRun

LEMMA FailStep ==
  ASSUME IInv, AtRest, lock.by = "run", Fail, ~obs.completed, ~obs.notifyCompleteOnError
  PROVE  IInv'
<1>1. obs \in ObsType /\ lock \in LockType
  BY TypeNames DEF IInv, BaseInv
<1>2. Subscribed \in SUBSET Subscriptions
  BY DEF Subscribed
<1>3. /\ lock' = [lock EXCEPT !.at = "failing", !.todo = Subscribed, !.failed = TRUE]
      /\ UNCHANGED <<obs, sub, seen, faults>>
  BY DEF Fail
<1>4. /\ lock' \in LockType /\ lock'.by = lock.by /\ lock'.at = "failing"
      /\ lock'.todo = Subscribed
  BY <1>1, <1>2, <1>3 DEF LockType
<1> QED BY <1>1, <1>3, <1>4, FailInvariant

LEMMA LoopInvariant ==
  ASSUME IInv, Loop
  PROVE  IInv'
<1>1. BaseInv /\ obs \in ObsType /\ lock \in LockType
  BY TypeNames DEF IInv, BaseInv
<1>2. lock.by = "run" /\ lock.at = "loop" /\ AtRest
  BY DEF Loop, Holding, AtRest
<1>3. ~obs.completed /\ ~obs.notifyCompleteOnError
  BY <1>1, <1>2 DEF BaseInv, LockKnown
<1>4. CASE Fail
  BY <1>2, <1>3, <1>4, FailStep
<1>5. CASE /\ \E f \in BOOLEAN : Collect("emit", f)
           /\ UNCHANGED <<obs, faults>>
  BY <1>2, <1>3, <1>5, CollectInvariant
<1>6. CASE lock' = Free /\ UNCHANGED <<obs, sub, seen, faults>>
  BY <1>1, <1>2, <1>6, Released
<1>7. CASE /\ obs' = [obs EXCEPT !.completed = TRUE] /\ sub' = WithCompleted
           /\ lock' = Free /\ UNCHANGED <<seen, faults>>
  BY <1>2, <1>3, <1>7, FreeFacts, WithCompletedInvariant
<1> QED BY <1>4, <1>5, <1>6, <1>7 DEF Loop

LEMMA EmitInvariant ==
  ASSUME IInv, Emit
  PROVE  IInv'
<1>1. BaseInv /\ obs \in ObsType /\ lock \in LockType
  BY TypeNames DEF IInv, BaseInv
<1>2. Holding("emit") /\ lock.todo = {} /\ lock.by = "run" /\ lock.at = "emit" /\ AtRest
  BY DEF Emit, Holding, AtRest
<1>3. ~obs.completed /\ ~obs.notifyCompleteOnError
  BY <1>1, <1>2 DEF BaseInv, LockKnown
<1>4. CASE Fail
  BY <1>2, <1>3, <1>4, FailStep
<1>5. CASE UNCHANGED <<obs, sub>> /\ lock' = Free /\ UNCHANGED <<seen, faults>>
  BY <1>1, <1>2, <1>5, Released
<1>6. CASE /\ ~(obs.values = MaxValues \/ \E s \in Subscribed : Rejects(s))
           /\ obs' = [obs EXCEPT !.values = @ + 1]
           /\ sub' = [s \in Subscriptions |-> IF s \in Subscribed
                      THEN [sub[s] EXCEPT !.queue = Push(@, "next")] ELSE sub[s]]
           /\ lock' = Free /\ UNCHANGED <<seen, faults>>
  <2>1. obs.values \in 0..MaxValues /\ obs.values # MaxValues
    BY <1>1, <1>6 DEF ObsType
  <2>2. obs.values + 1 \in 0..MaxValues
    BY <2>1, ConstantsAssumption
  <2>3. /\ obs' \in ObsType /\ obs'.completed = obs.completed
        /\ obs'.disposer = obs.disposer
        /\ obs'.notifyCompleteOnError = obs.notifyCompleteOnError
    BY <1>1, <1>6, <2>2 DEF ObsType
  <2> QED BY <1>2, <1>6, <2>3, EmittedInvariant
<1> QED BY <1>4, <1>5, <1>6, Zenon DEF Emit

LEMMA ErrorAnnouncedInvariant ==
  ASSUME IInv, ErrorAnnounced
  PROVE  IInv'
<1>1. BaseInv /\ obs \in ObsType /\ lock \in LockType
  BY TypeNames DEF IInv, BaseInv
<1>2. /\ lock.by = "run" /\ lock.at = "failing" /\ lock.todo = {}
      /\ obs' = [obs EXCEPT !.exception = TRUE, !.notifyCompleteOnError = TRUE]
      /\ lock' = Free /\ UNCHANGED <<sub, seen, faults>>
  BY Zenon DEF ErrorAnnounced, Holding
<1>3. /\ obs' \in ObsType /\ obs'.completed = obs.completed
      /\ obs'.disposer = obs.disposer /\ obs'.notifyCompleteOnError
  BY <1>1, <1>2 DEF ObsType
<1>4. lock' \in LockType /\ lock'.by = "none" /\ lock'.todo = {}
  BY <1>2, FreeFacts
<1>5. LockKnown'
  BY <1>4 DEF LockKnown
<1>6. DisposeKnown'
  BY <1>4 DEF DisposeKnown
<1>7. ASSUME NEW s \in Subscriptions
      PROVE  /\ ErrorPushed(s)'
             /\ Failing(s)' <=> Failing(s)
             /\ Leaving(s)' <=> Leaving(s)
  BY <1>2, <1>3, <1>4 DEF ErrorPushed, Failing, Leaving
<1> QED BY <1>2, <1>3, <1>4, <1>5, <1>6, <1>7, NothingMoves

LEMMA WaitAllEvents2FlushInvariant ==
  ASSUME IInv, WaitAllEvents2Flush
  PROVE  IInv'
<1>1. BaseInv /\ obs \in ObsType /\ lock \in LockType
  BY TypeNames DEF IInv, BaseInv
<1>2. AtRest /\ lock' = Free /\ UNCHANGED <<sub, seen, faults>>
  BY DEF WaitAllEvents2Flush, Holding, AtRest
<1>3. PICK e \in BOOLEAN, g \in BOOLEAN : obs' = [obs EXCEPT !.exception = e, !.running = g]
  <2> DEFINE e == obs.exception \/ lock.failed
             g == \E s \in Subscribed : ~IsEmpty(sub[s].queue)
  <2>1. e \in BOOLEAN /\ g \in BOOLEAN
    BY Zenon
  <2>2. obs' = [obs EXCEPT !.exception = e, !.running = g]
    BY Zenon DEF WaitAllEvents2Flush
  <2> QED BY <2>1, <2>2, Zenon
<1>4. /\ obs' \in ObsType /\ obs'.completed = obs.completed
      /\ obs'.disposer = obs.disposer
      /\ obs'.notifyCompleteOnError = obs.notifyCompleteOnError
  BY <1>1, <1>3 DEF ObsType
<1> QED BY <1>2, <1>4, Released

-----------------------------------------------------------------------------
(* dispose()                                                               *)

LEMMA AttemptInvariant ==
  ASSUME IInv, lock.by = "none", lock' = Attempt, UNCHANGED <<sub, seen, faults>>,
         obs' \in ObsType, obs'.completed = obs.completed, obs'.disposer,
         obs'.notifyCompleteOnError = obs.notifyCompleteOnError
  PROVE  IInv'
<1>1. BaseInv /\ lock.todo = {}
  BY DEF IInv, BaseInv, LockKnown
<1> DEFINE todo == {s \in Subscribed : sub[s].queue.exists}
<1>2. /\ todo \in SUBSET Subscriptions
      /\ \A s \in Subscriptions :
            s \in todo <=> sub[s].status = "subscribed" /\ sub[s].queue.exists
  BY DEF Subscribed
<1>3. lock' = [by |-> "dispose", at |-> "flushing", failed |-> FALSE, todo |-> todo]
  BY DEF Attempt
<1> HIDE DEF todo
<1>4. lock' \in LockType /\ lock'.by = "dispose" /\ lock'.todo = todo
  BY <1>2, <1>3 DEF LockType
<1>5. LockKnown'
  BY <1>2, <1>4 DEF LockKnown
<1>6. ASSUME NEW s \in Subscriptions
      PROVE  /\ ErrorPushed(s) => ErrorPushed(s)'
             /\ Failing(s)' <=> Failing(s)
             /\ Leaving(s)' <=> Leaving(s)
  BY <1>4 DEF ErrorPushed, Failing, Leaving
<1>7. DisposeKnown'
  <2> SUFFICES ASSUME NEW s \in Subscriptions, sub[s].status = "subscribed",
                      s \notin todo, sub[s].completedScheduled
               PROVE  seen[s].completed
    BY <1>4 DEF DisposeKnown, Passed
  <2> QED BY <1>2 DEF IInv, Known, Completion, Promised
<1> QED BY <1>4, <1>5, <1>6, <1>7, NothingMoves

LEMMA CallDisposeInvariant ==
  ASSUME IInv, CallDispose
  PROVE  IInv'
<1>1. obs \in ObsType
  BY TypeNames DEF IInv, BaseInv
<1>2. /\ lock.by = "none" /\ obs' = [obs EXCEPT !.disposer = TRUE] /\ lock' = Attempt
      /\ UNCHANGED <<sub, seen, faults>>
  BY DEF CallDispose, LockFree
<1>3. /\ obs' \in ObsType /\ obs'.completed = obs.completed /\ obs'.disposer
      /\ obs'.notifyCompleteOnError = obs.notifyCompleteOnError
  BY <1>1, <1>2 DEF ObsType
<1> QED BY <1>2, <1>3, AttemptInvariant

LEMMA TryDisposeInvariant ==
  ASSUME IInv, TryDispose
  PROVE  IInv'
<1>1. obs \in ObsType
  BY TypeNames DEF IInv, BaseInv
<1> QED BY <1>1, AttemptInvariant DEF TryDispose, LockFree

LEMMA EndAttemptInvariant ==
  ASSUME IInv, EndAttempt
  PROVE  IInv'
<1>1. BaseInv /\ obs \in ObsType /\ lock \in LockType
  BY TypeNames DEF IInv, BaseInv
<1>2. /\ lock.by = "dispose" /\ lock.todo = {} /\ lock' = Free /\ UNCHANGED <<seen, faults>>
  BY DEF EndAttempt
<1>3. lock' \in LockType /\ lock'.by = "none" /\ lock'.todo = {}
  BY <1>2, FreeFacts
<1>4. LockKnown' /\ DisposeKnown'
  BY <1>3 DEF LockKnown, DisposeKnown
<1>5. ASSUME NEW s \in Subscriptions, obs'.notifyCompleteOnError = obs.notifyCompleteOnError
      PROVE  /\ ErrorPushed(s) => ErrorPushed(s)'
             /\ Failing(s)' <=> Failing(s)
             /\ Leaving(s)' <=> Leaving(s)
             /\ ~Failing(s)'
  BY <1>2, <1>3, <1>5 DEF ErrorPushed, Failing, Leaving
<1>6. CASE UNCHANGED <<obs, sub>>
  BY <1>1, <1>2, <1>3, <1>4, <1>5, <1>6, NothingMoves
<1>7. CASE /\ ~lock.failed /\ obs' = [obs EXCEPT !.disposed = TRUE]
           /\ sub' = [s \in Subscriptions |-> IF s \in Subscribed
                      THEN [sub[s] EXCEPT !.status = "disposed", !.queue = NoQueue] ELSE sub[s]]
  <2>1. /\ obs' \in ObsType /\ obs'.completed = obs.completed
        /\ obs'.disposer = obs.disposer
        /\ obs'.notifyCompleteOnError = obs.notifyCompleteOnError
    BY <1>1, <1>7 DEF ObsType
  <2>2. /\ sub' \in [Subscriptions -> Subscription]
        /\ \A s \in Subscriptions :
              IF sub[s].status = "subscribed"
              THEN /\ sub'[s].queue = NoQueue /\ sub'[s].status = "disposed"
                   /\ sub'[s].completedScheduled = sub[s].completedScheduled
                   /\ sub'[s].disposing = sub[s].disposing
                   /\ sub'[s].completedCalled = sub[s].completedCalled
              ELSE sub'[s] = sub[s]
    BY <1>1, <1>7, DisposedShape
  <2>3. /\ QueueShape(NoQueue) /\ Ordered(NoQueue) /\ ~NoQueue.exists
        /\ NoQueue.executing = "none" /\ NoQueue.pc = "none" /\ ~NoQueue.cancelled
        /\ NoQueue.ready = 0
        /\ ~Has(NoQueue, "next") /\ ~Has(NoQueue, "error") /\ ~Has(NoQueue, "completed")
    BY NoQueueFacts DEF Events
  <2>4. ~Waits(NoQueue, "next") /\ ~Waits(NoQueue, "error") /\ ~Waits(NoQueue, "completed")
    BY <2>3, Zenon DEF Has
  <2>5. ASSUME NEW s \in Subscriptions, sub[s].status = "subscribed"
        PROVE  Known(s)'
    <3>1. /\ sub'[s].queue = NoQueue /\ sub'[s].status = "disposed"
          /\ sub'[s].completedScheduled = sub[s].completedScheduled
          /\ sub'[s].disposing = sub[s].disposing
          /\ sub'[s].completedCalled = sub[s].completedCalled
          /\ Known(s) /\ seen' = seen
      BY <1>2, <2>2, <2>5 DEF IInv
    <3>2. (ErrorPushed(s) => ErrorPushed(s)') /\ ~Failing(s)'
      BY <1>5, <2>1
    <3>3. Scheduled(s)'
      BY <2>1, <2>3, <3>1, <3>2 DEF Known, Scheduled
    <3>4. InOrder(s)'
      BY <2>3, <2>4, <3>1 DEF InOrder
    <3>5. FailuresKnown(s)'
      BY <2>3, <3>1, <3>2 DEF FailuresKnown
    <3>6. Completion(s)'
      BY <3>1 DEF Completion, Promised
    <3> QED BY <3>3, <3>4, <3>5, <3>6 DEF Known
  <2>6. ASSUME NEW s \in Subscriptions, sub[s].status # "subscribed"
        PROVE  Known(s)'
    <3>1. Known(s) /\ sub'[s] = sub[s] /\ seen'[s] = seen[s]
      BY <1>2, <2>2, <2>6 DEF IInv
    <3> QED BY <1>5, <2>1, <3>1, KnownKept
  <2>7. TypeOK'
    BY <1>1, <1>2, <1>3, <2>1, <2>2, TypeNames, TypeNamesNext DEF BaseInv
  <2>8. ShapeKnown'
    BY <1>1, <2>2, <2>3, Typed DEF ShapeKnown
  <2>9. CompletionDelivered'
    <3>1. ASSUME NEW s \in Subscriptions, sub'[s].status = "disposed",
                 sub'[s].completedScheduled
          PROVE  seen'[s].completed
      <4>1. CASE sub[s].status = "subscribed"
        <5>1. sub[s].completedScheduled
          BY <2>2, <3>1, <4>1
        <5> QED BY <1>2, <1>7, <4>1, <5>1 DEF IInv, DisposeKnown, Passed
      <4>2. CASE sub[s].status # "subscribed"
        BY <1>2, <2>2, <3>1, <4>2 DEF IInv, CompletionDelivered
      <4> QED BY <4>1, <4>2
    <3> QED BY <3>1 DEF CompletionDelivered
  <2> QED BY <1>4, <2>5, <2>6, <2>7, <2>8, <2>9, Conclude
<1> QED BY <1>6, <1>7, Zenon DEF EndAttempt

(***************************************************************************)
(* tryFlushObserversEventQueues() for one subscription.                    *)
(***************************************************************************)
LEMMA FlushObserverInvariant ==
  ASSUME IInv, NEW s \in Subscriptions, FlushObserver(s)
  PROVE  IInv'
<1> DEFINE q == sub[s].queue
           r == sub'[s].queue
<1>1. /\ BaseInv /\ Known(s) /\ q \in Queue /\ QueueShape(q) /\ sub[s] \in Subscription
      /\ sub[s].status # "subscribed" => ~q.exists
      /\ sub \in [Subscriptions -> Subscription]
      /\ lock \in LockType /\ obs \in ObsType
  BY Typed, TypeNames DEF IInv, BaseInv
<1>2. UNCHANGED <<obs, seen, faults>> /\ s \in lock.todo /\ lock.by = "dispose"
  BY Zenon DEF FlushObserver
<1>3. sub[s].status = "subscribed" /\ obs.disposer
  BY <1>1, <1>2 DEF BaseInv, LockKnown
<1>4. PICK f \in BOOLEAN : f = (lock.failed \/ ~IsEmpty(q))
  OBVIOUS
<1>5. \/ /\ ~sub[s].disposing
         /\ sub' = [sub EXCEPT ![s] = [@ EXCEPT !.queue = Push(Flush(q), "completed"),
                        !.completedScheduled = TRUE, !.disposing = TRUE]]
         /\ lock' = [lock EXCEPT !.todo = @ \ {s}, !.failed = TRUE]
      \/ /\ sub[s].disposing
         /\ lock' = [lock EXCEPT !.todo = @ \ {s}, !.failed = f]
         /\ sub' = IF lock'.failed THEN sub ELSE [sub EXCEPT ![s].queue = NoQueue]
  BY <1>4, Zenon DEF FlushObserver
<1>6. /\ lock' \in LockType /\ lock'.by = "dispose" /\ lock'.todo = lock.todo \ {s}
      /\ ~sub[s].disposing => lock'.failed
      /\ sub[s].disposing => lock'.failed = f
  BY <1>1, <1>2, <1>5 DEF LockType
<1>7. ASSUME NEW t \in Subscriptions
      PROVE  /\ ErrorPushed(t) <=> ErrorPushed(t)'
             /\ ~Leaving(t) /\ ~Leaving(t)' /\ ~Failing(t) /\ ~Failing(t)'
  BY <1>2, <1>6 DEF ErrorPushed, Leaving, Failing
<1>8. ASSUME \A t \in Subscriptions : sub'[t].status = sub[t].status
      PROVE  LockKnown'
  BY <1>1, <1>2, <1>3, <1>6, <1>8 DEF BaseInv, LockKnown, LockType
<1>9. CASE /\ sub[s].disposing /\ lock'.failed /\ sub' = sub
  <2>1. LockKnown'
    BY <1>8, <1>9
  <2>2. DisposeKnown'
    BY <1>9 DEF DisposeKnown
  <2> QED BY <1>1, <1>2, <1>6, <1>7, <1>9, <2>1, <2>2, NothingMoves
<1>10. CASE /\ sub[s].disposing /\ ~lock'.failed /\ sub' = [sub EXCEPT ![s].queue = NoQueue]
  <2>1. /\ NoQueue \in Queue /\ QueueShape(NoQueue) /\ Ordered(NoQueue) /\ ~NoQueue.exists
        /\ NoQueue.executing = "none" /\ NoQueue.pc = "none" /\ ~NoQueue.cancelled
        /\ NoQueue.ready = 0
        /\ ~Has(NoQueue, "next") /\ ~Has(NoQueue, "error") /\ ~Has(NoQueue, "completed")
    BY NoQueueFacts DEF Events
  <2>2. /\ sub' \in [Subscriptions -> Subscription] /\ r = NoQueue
        /\ SameSubscription(s) /\ OthersKept(s)
    BY <1>1, <1>10, <2>1, QueueMoves
  <2>3. ~lock.failed /\ IsEmpty(q)
    <3>1. f = FALSE
      BY <1>6, <1>10
    <3> QED BY <1>4, <3>1, Zenon
  <2>4. seen[s].completed
    <3>1. q.pending = <<>> /\ q.executing = "none" /\ q.ready = 0
      BY <2>3 DEF IsEmpty
    <3>2. ~Coming(q) /\ ~Cancelled(q)
      BY <1>1, <3>1, WaitsInQueue DEF Coming, Cancelled
    <3>3. sub[s].completedScheduled
      BY <1>1, <1>10 DEF Known, Scheduled
    <3> QED BY <1>1, <1>3, <1>7, <1>10, <3>1, <3>2, <3>3 DEF Known, Completion, Promised
  <2>5. Known(s)'
    <3>1. Scheduled(s)'
      BY <1>1, <1>2, <1>7, <2>1, <2>2 DEF Known, Scheduled, SameSubscription
    <3>2. InOrder(s)'
      BY <1>2, <1>3 DEF InOrder
    <3>3. FailuresKnown(s)'
      BY <1>10, <2>2 DEF FailuresKnown, SameSubscription
    <3>4. Completion(s)'
      BY <1>2, <2>4 DEF Completion, Promised
    <3> QED BY <3>1, <3>2, <3>3, <3>4 DEF Known
  <2>6. \A t \in Subscriptions : t # s => Known(t)'
    <3> SUFFICES ASSUME NEW t \in Subscriptions, t # s PROVE Known(t)'
      OBVIOUS
    <3>1. Known(t) /\ sub'[t] = sub[t] /\ seen'[t] = seen[t] /\ obs' = obs
      BY <1>2, <2>2 DEF IInv, OthersKept
    <3> QED BY <1>7, <3>1, KnownKept
  <2>7. TypeOK'
    BY <1>1, <1>2, <1>6, <2>2, TypeNames, TypeNamesNext DEF BaseInv
  <2>8. ShapeKnown'
    BY <1>1, <2>1, <2>2, ShapeKept
  <2>9. ASSUME NEW t \in Subscriptions
        PROVE  /\ sub'[t].status = sub[t].status
               /\ sub'[t].completedScheduled = sub[t].completedScheduled
    BY <2>2 DEF OthersKept, SameSubscription
  <2>10. LockKnown'
    BY <1>8, <2>9
  <2>11. DisposeKnown' /\ CompletionDelivered'
    <3>1. \A t \in Subscriptions : Passed(t)
      BY <1>2, <2>3 DEF IInv, DisposeKnown
    <3>2. ASSUME NEW t \in Subscriptions PROVE Passed(t)'
      BY <1>2, <1>6, <2>4, <2>9, <3>1 DEF Passed
    <3>3. CompletionDelivered'
      BY <1>2, <2>9 DEF IInv, CompletionDelivered
    <3> QED BY <3>2, <3>3 DEF DisposeKnown
  <2> QED BY <2>5, <2>6, <2>7, <2>8, <2>10, <2>11, Conclude
<1>11. CASE /\ ~sub[s].disposing
            /\ sub' = [sub EXCEPT ![s] = [@ EXCEPT !.queue = Push(Flush(q), "completed"),
                           !.completedScheduled = TRUE, !.disposing = TRUE]]
  <2>1. /\ sub' \in [Subscriptions -> Subscription]
        /\ r = Push(Flush(q), "completed")
        /\ sub'[s].completedScheduled /\ sub'[s].disposing
        /\ sub'[s].status = sub[s].status
        /\ sub'[s].completedCalled = sub[s].completedCalled
        /\ OthersKept(s)
    BY <1>1, <1>11, FlushedForDisposeShape
  <2>2. /\ r \in Queue /\ QueueShape(r) /\ r.exists /\ r.ready = 0
        /\ r.cancelled <=> q.executing # "none"
        /\ IF q.executing = "none"
           THEN /\ r.executing = "completed" /\ r.pc = "scheduled"
                /\ \A e \in Events : ~Waits(r, e)
           ELSE /\ r.executing = q.executing /\ r.pc = q.pc
                /\ \A e \in Events : Waits(r, e) <=> e = "completed"
    <3> HIDE DEF q, r
    <3>1. "completed" \in Events
      BY DEF Events
    <3> QED BY <1>1, <2>1, <3>1, FlushPushFacts
  <2>3. ~Waits(r, "next") /\ ~Waits(r, "error") /\ Coming(r)
    BY <2>2 DEF Events, Coming
  <2> HIDE DEF r
  <2>4. Known(s)'
    <3>1. Scheduled(s)'
      <4>1. Has(r, "error") => Has(q, "error")
        BY <2>2, <2>3 DEF Has
      <4>2. r.executing = "completed" /\ r.pc \in {"callback", "done"}
               => q.executing = "completed" /\ q.pc \in {"callback", "done"}
        BY <2>2
      <4> QED BY <1>1, <1>2, <1>3, <1>7, <2>1, <4>1, <4>2 DEF Known, Scheduled, r
    <3>2. InOrder(s)'
      BY <1>2, <1>3 DEF InOrder
    <3>3. FailuresKnown(s)'
      BY <2>1 DEF FailuresKnown
    <3>4. Completion(s)'
      BY <1>7, <2>2, <2>3 DEF Completion, r
    <3> QED BY <3>1, <3>2, <3>3, <3>4 DEF Known
  <2>5. \A t \in Subscriptions : t # s => Known(t)'
    <3> SUFFICES ASSUME NEW t \in Subscriptions, t # s PROVE Known(t)'
      OBVIOUS
    <3>1. Known(t) /\ sub'[t] = sub[t] /\ seen'[t] = seen[t] /\ obs' = obs
      BY <1>2, <2>1 DEF IInv, OthersKept
    <3> QED BY <1>7, <3>1, KnownKept
  <2>6. TypeOK'
    BY <1>1, <1>2, <1>6, <2>1, TypeNames, TypeNamesNext DEF BaseInv
  <2>7. ShapeKnown'
    BY <1>1, <1>3, <2>1, <2>2, ShapeKept DEF r
  <2>8. LockKnown'
    <3>1. \A t \in Subscriptions : sub'[t].status = sub[t].status
      BY <2>1 DEF OthersKept
    <3> QED BY <1>8, <3>1
  <2>9. DisposeKnown'
    BY <1>6, <1>11 DEF DisposeKnown
  <2>10. CompletionDelivered'
    <3>1. ASSUME NEW t \in Subscriptions, sub'[t].status = "disposed",
                 sub'[t].completedScheduled
          PROVE  seen'[t].completed
      <4>1. t # s
        BY <1>3, <2>1, <3>1
      <4>2. sub'[t] = sub[t] /\ seen' = seen
        BY <1>2, <2>1, <4>1 DEF OthersKept
      <4> QED BY <3>1, <4>2 DEF IInv, CompletionDelivered
    <3> QED BY <3>1 DEF CompletionDelivered
  <2> QED BY <2>4, <2>5, <2>6, <2>7, <2>8, <2>9, <2>10, Conclude
<1> QED BY <1>5, <1>9, <1>10, <1>11, Zenon

-----------------------------------------------------------------------------
(* The theorems                                                            *)

LEMMA InitInvariant == Init => IInv
<1> SUFFICES ASSUME Init PROVE IInv
  OBVIOUS
<1>1. /\ NoQueue \in Queue /\ QueueShape(NoQueue) /\ Ordered(NoQueue) /\ ~NoQueue.exists
      /\ NoQueue.executing = "none" /\ NoQueue.pc = "none" /\ ~NoQueue.cancelled
      /\ NoQueue.ready = 0
      /\ ~Has(NoQueue, "next") /\ ~Has(NoQueue, "error") /\ ~Has(NoQueue, "completed")
  BY NoQueueFacts DEF Events
<1>2. /\ NewSubscription \in Subscription /\ NewSubscription.status = "none"
      /\ NewSubscription.queue = NoQueue /\ ~NewSubscription.completedScheduled
      /\ ~NewSubscription.disposing /\ ~NewSubscription.completedCalled
  BY <1>1 DEF NewSubscription, Subscription
<1>3. lock \in LockType /\ lock.by = "none" /\ lock.todo = {}
  BY FreeFacts DEF Init
<1>4. obs \in ObsType /\ ~obs.completed /\ ~obs.disposer
  BY ConstantsAssumption DEF Init, ObsType
<1>5. /\ sub \in [Subscriptions -> Subscription]
      /\ \A s \in Subscriptions : sub[s] = NewSubscription
  BY <1>2 DEF Init
<1>6. /\ seen \in [Subscriptions -> Observer]
      /\ \A s \in Subscriptions : ~seen[s].error /\ ~seen[s].completed /\ ~seen[s].threw
  BY DEF Init, Observer
<1>7. faults \in 0..MaxFaults
  BY ConstantsAssumption DEF Init
<1>8. BaseInv
  BY <1>1, <1>2, <1>3, <1>4, <1>5, <1>6, <1>7, TypeNames DEF BaseInv, ShapeKnown, LockKnown
<1>9. ASSUME NEW s \in Subscriptions PROVE Known(s)
  <2>1. /\ sub[s].status = "none" /\ sub[s].queue = NoQueue /\ ~sub[s].completedScheduled
        /\ ~sub[s].disposing /\ ~sub[s].completedCalled
    BY <1>2, <1>5
  <2>2. ~seen[s].error /\ ~seen[s].completed /\ ~seen[s].threw
    BY <1>6
  <2>3. ~Failing(s)
    BY <1>3 DEF Failing
  <2>4. Scheduled(s)
    BY <1>1, <2>1, <2>2 DEF Scheduled
  <2>5. InOrder(s)
    BY <1>1, <2>1, <2>2 DEF InOrder
  <2>6. FailuresKnown(s)
    BY <1>1, <2>1, <2>3 DEF FailuresKnown
  <2>7. Completion(s)
    BY <2>1 DEF Completion, Promised
  <2> QED BY <2>4, <2>5, <2>6, <2>7 DEF Known
<1>10. DisposeKnown
  BY <1>3 DEF DisposeKnown
<1>11. CompletionDelivered
  BY <1>2, <1>5 DEF CompletionDelivered
<1> QED BY <1>8, <1>9, <1>10, <1>11 DEF IInv

LEMMA StutterInvariant == ASSUME IInv, UNCHANGED vars PROVE IInv'
<1>1. UNCHANGED <<obs, sub, lock, seen, faults>>
  BY DEF vars
<1>2. obs \in ObsType /\ lock \in LockType /\ LockKnown /\ DisposeKnown
  BY TypeNames DEF IInv, BaseInv
<1>3. LockKnown' /\ DisposeKnown'
  BY <1>1, <1>2 DEF LockKnown, DisposeKnown, Passed
<1>4. ASSUME NEW s \in Subscriptions
      PROVE  /\ ErrorPushed(s) => ErrorPushed(s)'
             /\ Failing(s)' <=> Failing(s)
             /\ Leaving(s)' <=> Leaving(s)
  BY <1>1 DEF ErrorPushed, Failing, Leaving
<1> QED BY <1>1, <1>2, <1>3, <1>4, NothingMoves

LEMMA NextInvariant == ASSUME IInv, [Next]_vars PROVE IInv'
<1>1. ASSUME NEW s \in Subscriptions, EventStep(s) PROVE IInv'
  BY <1>1, BeginEventInvariant, EndEventInvariant, RefuseEventInvariant,
     FailEventInvariant, EventReadyInvariant DEF EventStep
<1>2. ASSUME NEW s \in Subscriptions, Subscribe(s) \/ Unsubscribe(s) \/ UnsubscribeEnds(s)
      PROVE  IInv'
  BY <1>2, SubscribeInvariant, UnsubscribeInvariant, UnsubscribeEndsInvariant
<1>3. CASE DispatchException \/ CallDispose
  BY <1>3, DispatchExceptionInvariant, CallDisposeInvariant
<1>4. CASE RunStep
  BY <1>4, BeginRunInvariant, LoopInvariant, EmitInvariant, ErrorAnnouncedInvariant,
     WaitAllEvents2FlushInvariant, UnregisterFailedInvariant, NotifyOnErrorInvariant
     DEF RunStep
<1>5. CASE DisposeStep
  BY <1>5, TryDisposeInvariant, EndAttemptInvariant, FlushObserverInvariant DEF DisposeStep
<1>6. CASE UNCHANGED vars
  BY <1>6, StutterInvariant
<1> QED BY <1>1, <1>2, <1>3, <1>4, <1>5, <1>6, Zenon DEF Next

LEMMA Invariant == Spec => []IInv
<1>1. Init => IInv
  BY InitInvariant
<1>2. IInv /\ [Next]_vars => IInv'
  BY NextInvariant
<1> QED BY <1>1, <1>2, PTL DEF Spec

(***************************************************************************)
(* The state of the observable, of the subscriptions and of the holder of  *)
(* m_lock keeps its type, whatever observers and owners do.                *)
(***************************************************************************)
THEOREM TypeCorrect == Spec => []TypeOK
<1>1. IInv => TypeOK
  BY DEF IInv, BaseInv
<1> QED BY <1>1, Invariant, PTL

(***************************************************************************)
(* Nothing is called, or left to be called, once unsubscribe() or          *)
(* dispose() returned.                                                     *)
(***************************************************************************)
THEOREM UnsubscribeCorrect == Spec => []UnsubscribedIsQuiet
<1>1. ASSUME IInv PROVE UnsubscribedIsQuiet
  <2> SUFFICES ASSUME NEW s \in Subscriptions,
                      sub[s].status \in {"removed", "disposed"}
               PROVE  IsEmpty(sub[s].queue)
    BY DEF UnsubscribedIsQuiet
  <2>1. ~sub[s].queue.exists /\ QueueShape(sub[s].queue)
    BY <1>1, Typed DEF IInv
  <2> QED BY <2>1 DEF QueueShape, IsEmpty
<1> QED BY <1>1, Invariant, PTL

-----------------------------------------------------------------------------
(* Action properties                                                       *)

\* The step calls nobody, and erases the subscription only if run() may.
Quiet(s) ==
    /\ sub'[s].queue.pc = "callback" => sub[s].queue.pc = "callback"
    /\ sub'[s].status = "removed" =>
          sub[s].status = "removed" \/ Failing(s) \/ lock.by # "run"

LEMMA QuietOthers ==
  ASSUME NEW s \in Subscriptions, OthersKept(s), NEW t \in Subscriptions, t # s
  PROVE  Quiet(t)
BY DEF OthersKept, Quiet

\* The queues that the actions leave: none calls an observer that was not called before.
LEMMA QuietQueues ==
  ASSUME NEW q \in Queue, QueueShape(q)
  PROVE  /\ NoQueue.pc # "callback"
         /\ Flush(q).pc = q.pc
         /\ \A e \in Events : Push(q, e).pc = "callback" => q.pc = "callback"
         /\ \A e \in Events : Push(Flush(q), e).pc = "callback" => q.pc = "callback"
<1>1. NoQueue.pc # "callback" /\ Flush(q).pc = q.pc
  BY NoQueueFacts, FlushFacts
<1>2. ASSUME NEW e \in Events, Push(q, e).pc = "callback" PROVE q.pc = "callback"
  BY <1>2, PushFacts
<1>3. ASSUME NEW e \in Events, Push(Flush(q), e).pc = "callback" PROVE q.pc = "callback"
  BY <1>3, FlushPushFacts
<1> QED BY <1>1, <1>2, <1>3

LEMMA QuietRemoved ==
  ASSUME IInv, NEW s \in Subscriptions, sub' = Removed(s), Failing(s) \/ lock.by # "run",
         NEW t \in Subscriptions
  PROVE  Quiet(t)
<1>1. BaseInv /\ NoQueue.pc = "none"
  BY NoQueueFacts DEF IInv
<1>2. sub'[s].queue = NoQueue /\ OthersKept(s)
  BY <1>1, RemovedShape
<1> QED BY <1>1, <1>2, QuietOthers DEF Quiet

LEMMA QuietEvents ==
  ASSUME IInv, NEW s \in Subscriptions, EventStep(s), NEW t \in Subscriptions
  PROVE  BeginEvent(t) \/ Quiet(t)
<1>1. BaseInv /\ sub[s].queue \in Queue /\ QueueShape(sub[s].queue)
  BY Typed DEF IInv
<1>2. CASE BeginEvent(s)
  BY <1>1, <1>2, BeginEventShape, QuietOthers
<1>3. CASE EndEvent(s) \/ RefuseEvent(s) \/ FailEvent(s)
  <2>1. PICK p \in {"scheduled", "done", "failed"} :
          sub[s].queue.pc = "callback" /\ sub' = [sub EXCEPT ![s].queue.pc = p]
    BY <1>3, Zenon DEF EndEvent, RefuseEvent, FailEvent
  <2>2. SameSubscription(s) /\ OthersKept(s)
    BY <1>1, <2>1, PlaceMoves
  <2> QED BY <2>1, <2>2, QuietOthers DEF Quiet, SameSubscription
<1>4. CASE EventReady(s)
  <2>1. /\ sub'[s].queue = AfterReady(sub[s].queue) /\ sub[s].queue.exists
        /\ SameSubscription(s) /\ OthersKept(s)
    BY <1>1, <1>4, EventReadyShape
  <2>2. sub'[s].queue.pc # "callback"
    BY <1>1, <2>1, AfterReadyFacts
  <2> QED BY <2>1, <2>2, QuietOthers DEF Quiet, SameSubscription
<1> QED BY <1>2, <1>3, <1>4 DEF EventStep

LEMMA QuietOwners ==
  ASSUME IInv, NEW s \in Subscriptions,
         Subscribe(s) \/ Unsubscribe(s) \/ UnsubscribeEnds(s), NEW t \in Subscriptions
  PROVE  Quiet(t)
<1>1. BaseInv /\ sub[s].queue \in Queue /\ QueueShape(sub[s].queue)
  BY Typed DEF IInv
<1>2. CASE Subscribe(s)
  BY <1>1, <1>2, SubscribeShape, QuietOthers DEF Quiet
<1>3. CASE Unsubscribe(s)
  <2>1. /\ lock.by = "none"
        /\ sub' = Removed(s) \/ sub' = [sub EXCEPT ![s].queue = Flush(@)]
    BY <1>3, Zenon DEF Unsubscribe, LockFree
  <2>2. CASE sub' = Removed(s)
    BY <2>1, <2>2, QuietRemoved
  <2>3. CASE sub' = [sub EXCEPT ![s].queue = Flush(@)]
    BY <1>1, <2>3, FlushShape, QuietQueues, QuietOthers DEF Quiet, SameSubscription
  <2> QED BY <2>1, <2>2, <2>3
<1>4. CASE UnsubscribeEnds(s)
  <2>1. lock.by = "unsubscribe" /\ sub' = Removed(s)
    BY <1>4, Zenon DEF UnsubscribeEnds
  <2> QED BY <2>1, QuietRemoved
<1> QED BY <1>2, <1>3, <1>4

LEMMA QuietRun ==
  ASSUME IInv, RunStep, NEW t \in Subscriptions
  PROVE  Quiet(t)
<1>1. BaseInv /\ sub[t].queue \in Queue /\ QueueShape(sub[t].queue)
  BY Typed DEF IInv
<1>2. "next" \in Events /\ "error" \in Events /\ "completed" \in Events
  BY DEF Events
<1>3. CASE sub' = sub
  BY <1>3 DEF Quiet
<1>4. CASE sub' = WithCompleted
  <2>1. IF sub[t].status = "subscribed"
        THEN /\ sub'[t].queue = Push(sub[t].queue, "completed")
             /\ sub'[t].status = sub[t].status
        ELSE sub'[t] = sub[t]
    BY <1>1, <1>4, WithCompletedShape
  <2> QED BY <1>1, <1>2, <2>1, QuietQueues DEF Quiet
<1>5. ASSUME NEW at \in {"loop", "emit", "ending"}, NEW f \in BOOLEAN, Collect(at, f)
      PROVE  Quiet(t)
  <2>1. SameSubscription(t) /\ sub'[t].queue.pc = sub[t].queue.pc
    BY <1>1, <1>5, CollectShape
  <2> QED BY <2>1 DEF Quiet, SameSubscription
<1>6. CASE BeginRun
  BY <1>3, <1>4, <1>5, <1>6 DEF BeginRun
<1>7. CASE Loop
  BY <1>3, <1>4, <1>5, <1>7 DEF Loop, Fail
<1>8. CASE Emit
  <2>1. \/ sub' = sub
        \/ sub' = [s \in Subscriptions |-> IF s \in Subscribed
                   THEN [sub[s] EXCEPT !.queue = Push(@, "next")] ELSE sub[s]]
    BY <1>8, Zenon DEF Emit, Fail
  <2>2. CASE sub' = [s \in Subscriptions |-> IF s \in Subscribed
                     THEN [sub[s] EXCEPT !.queue = Push(@, "next")] ELSE sub[s]]
    <3>1. IF sub[t].status = "subscribed"
          THEN sub'[t].queue = Push(sub[t].queue, "next") /\ SameSubscription(t)
          ELSE sub'[t] = sub[t]
      BY <1>1, <2>2, EmittedShape
    <3> QED BY <1>1, <1>2, <3>1, QuietQueues DEF Quiet, SameSubscription
  <2> QED BY <1>3, <2>1, <2>2
<1>9. CASE ErrorAnnounced \/ WaitAllEvents2Flush
  BY <1>3, <1>9 DEF ErrorAnnounced, WaitAllEvents2Flush
<1>10. ASSUME NEW s \in Subscriptions, UnregisterFailed(s) PROVE Quiet(t)
  <2>1. /\ Failing(s)
        /\ \/ sub' = Removed(s)
           \/ sub' = [sub EXCEPT ![s].queue = Flush(sub[s].queue)]
    BY <1>10 DEF UnregisterFailed, Failing
  <2>2. CASE sub' = Removed(s)
    BY <2>1, <2>2, QuietRemoved
  <2>3. CASE sub' = [sub EXCEPT ![s].queue = Flush(sub[s].queue)]
    <3>1. /\ sub'[s].queue = Flush(sub[s].queue)
          /\ SameSubscription(s) /\ OthersKept(s)
      BY <1>1, <2>3, FlushShape
    <3> QED BY <1>1, <3>1, QuietQueues, QuietOthers DEF Quiet, SameSubscription
  <2> QED BY <2>1, <2>2, <2>3
<1>11. ASSUME NEW s \in Subscriptions, NotifyOnError(s) PROVE Quiet(t)
  <2>1. \/ sub' = sub
        \/ sub' = [sub EXCEPT ![s].queue = Push(Flush(@), "error")]
    BY <1>11, Zenon DEF NotifyOnError
  <2>2. CASE sub' = [sub EXCEPT ![s].queue = Push(Flush(@), "error")]
    <3>1. /\ sub'[s].queue = Push(Flush(sub[s].queue), "error")
          /\ SameSubscription(s) /\ OthersKept(s)
      BY <1>1, <2>2, NotifiedShape
    <3> QED BY <1>1, <1>2, <3>1, QuietQueues, QuietOthers DEF Quiet, SameSubscription
  <2> QED BY <1>3, <2>1, <2>2
<1> QED BY <1>6, <1>7, <1>8, <1>9, <1>10, <1>11 DEF RunStep

LEMMA QuietDispose ==
  ASSUME IInv, DisposeStep, NEW t \in Subscriptions
  PROVE  Quiet(t)
<1>1. BaseInv /\ sub[t].queue \in Queue /\ QueueShape(sub[t].queue) /\ NoQueue.pc = "none"
  BY Typed, NoQueueFacts DEF IInv
<1>2. CASE sub' = sub
  BY <1>2 DEF Quiet
<1>3. CASE EndAttempt
  <2>1. \/ sub' = sub
        \/ sub' = [s \in Subscriptions |-> IF s \in Subscribed
                   THEN [sub[s] EXCEPT !.status = "disposed", !.queue = NoQueue] ELSE sub[s]]
    BY <1>3, Zenon DEF EndAttempt
  <2>2. CASE sub' = [s \in Subscriptions |-> IF s \in Subscribed
                     THEN [sub[s] EXCEPT !.status = "disposed", !.queue = NoQueue]
                     ELSE sub[s]]
    <3>1. IF sub[t].status = "subscribed"
          THEN sub'[t].queue = NoQueue /\ sub'[t].status = "disposed"
          ELSE sub'[t] = sub[t]
      BY <1>1, <2>2, DisposedShape
    <3> QED BY <1>1, <3>1 DEF Quiet
  <2> QED BY <1>2, <2>1, <2>2
<1>4. ASSUME NEW s \in Subscriptions, FlushObserver(s) PROVE Quiet(t)
  <2>1. \/ sub' = sub
        \/ sub' = [sub EXCEPT ![s].queue = NoQueue]
        \/ sub' = [sub EXCEPT ![s] = [@ EXCEPT !.queue = Push(Flush(sub[s].queue), "completed"),
                       !.completedScheduled = TRUE, !.disposing = TRUE]]
    BY <1>4, Zenon DEF FlushObserver
  <2>2. CASE sub' = [sub EXCEPT ![s].queue = NoQueue]
    <3>1. sub'[s].queue = NoQueue /\ SameSubscription(s) /\ OthersKept(s)
      BY <1>1, <2>2, Typed, NoQueueFacts, QueueMoves
    <3> QED BY <1>1, <3>1, QuietOthers DEF Quiet, SameSubscription
  <2>3. CASE sub' = [sub EXCEPT ![s] =
                       [@ EXCEPT !.queue = Push(Flush(sub[s].queue), "completed"),
                                 !.completedScheduled = TRUE, !.disposing = TRUE]]
    <3>1. /\ sub'[s].queue = Push(Flush(sub[s].queue), "completed")
          /\ sub'[s].status = sub[s].status /\ OthersKept(s)
      BY <1>1, <2>3, FlushedForDisposeShape
    <3>2. "completed" \in Events
      BY DEF Events
    <3> QED BY <1>1, <3>1, <3>2, QuietQueues, QuietOthers DEF Quiet
  <2> QED BY <1>2, <2>1, <2>2, <2>3
<1>5. CASE TryDispose
  BY <1>2, <1>5 DEF TryDispose
<1> QED BY <1>3, <1>4, <1>5 DEF DisposeStep

LEMMA QuietSteps ==
  ASSUME IInv, [Next]_vars, NEW t \in Subscriptions
  PROVE  BeginEvent(t) \/ Quiet(t)
<1>1. CASE DispatchException \/ CallDispose \/ UNCHANGED vars
  <2>1. sub' = sub
    BY <1>1 DEF DispatchException, CallDispose, vars
  <2> QED BY <2>1 DEF Quiet
<1> QED BY <1>1, QuietEvents, QuietOwners, QuietRun, QuietDispose, Zenon DEF Next

(***************************************************************************)
(* Observers get the calls that IObserver<T> promises, in that order: any  *)
(* number of onNext(), at most one onError(), at most one onCompleted().   *)
(***************************************************************************)
THEOREM OrderCorrect == Spec => CallsAreInOrder
<1> DEFINE A == \A s \in Subscriptions :
                   sub[s].queue.pc = "scheduled" /\ sub'[s].queue.pc = "callback"
                      /\ ~obs.disposer =>
                         /\ ~seen[s].completed
                         /\ sub[s].queue.executing # "completed" => ~seen[s].error
<1>1. ASSUME IInv, [Next]_vars PROVE A
  <2> SUFFICES ASSUME NEW s \in Subscriptions, sub[s].queue.pc = "scheduled",
                      sub'[s].queue.pc = "callback", ~obs.disposer
               PROVE  /\ ~seen[s].completed
                      /\ sub[s].queue.executing # "completed" => ~seen[s].error
    OBVIOUS
  <2>1. Known(s) /\ sub[s].queue \in Queue /\ QueueShape(sub[s].queue)
    BY <1>1, Typed DEF IInv
  <2>2. ~seen[s].completed
    BY <2>1 DEF Known, InOrder
  <2>3. seen[s].error => sub[s].queue.executing \notin {"next", "error"}
    BY <2>1 DEF Known, InOrder
  <2>4. sub[s].queue.executing \in {"next", "error", "completed"}
    BY <2>1 DEF QueueShape, Queue
  <2> QED BY <2>2, <2>3, <2>4
<1>2. IInv /\ [Next]_vars => [A]_vars
  BY <1>1
<1> HIDE DEF A
<1>3. Spec => [][A]_vars
  BY <1>2, Invariant, PTL DEF Spec
<1> QED BY <1>3 DEF CallsAreInOrder, A

(***************************************************************************)
(* run() erases the subscriptions of observers that threw, nobody else's,  *)
(* as long as dispose() was not called.                                    *)
(***************************************************************************)
THEOREM ErasedCorrect == Spec => OnlyFailedAreErased
<1> DEFINE A == \A s \in Subscribed :
                   lock.by = "run" /\ ~obs.disposer /\ sub'[s].status = "removed"
                      => seen[s].threw
<1>1. ASSUME IInv, [Next]_vars PROVE A
  <2> SUFFICES ASSUME NEW s \in Subscriptions, sub[s].status = "subscribed",
                      lock.by = "run", ~obs.disposer, sub'[s].status = "removed"
               PROVE  seen[s].threw
    BY DEF Subscribed
  <2>1. ~BeginEvent(s)
    BY <1>1, BeginEventShape DEF IInv
  <2>2. Failing(s)
    BY <1>1, <2>1, QuietSteps DEF Quiet
  <2>3. Known(s) /\ ~Leaving(s)
    BY <1>1 DEF IInv, Leaving
  <2> QED BY <2>2, <2>3 DEF Known, Scheduled, FailuresKnown
<1>2. IInv /\ [Next]_vars => [A]_vars
  BY <1>1
<1> HIDE DEF A
<1>3. Spec => [][A]_vars
  BY <1>2, Invariant, PTL DEF Spec
<1> QED BY <1>3 DEF OnlyFailedAreErased, A

(***************************************************************************)
(* The task ends in chk2WaitAllEvents2Flush().                             *)
(***************************************************************************)
LEMMA EndsWithEmptyQueues ==
  ASSUME IInv, [Next]_vars, obs.running, ~obs'.running
  PROVE  WaitAllEvents2Flush
<1>1. obs \in ObsType
  BY TypeNames DEF IInv, BaseInv
<1>2. obs' # obs
  OBVIOUS
<1>3. CASE DispatchException
  BY <1>1, <1>3 DEF DispatchException, ObsType
<1>4. CASE CallDispose
  BY <1>1, <1>4 DEF CallDispose, ObsType
<1>5. CASE BeginRun
  BY <1>1, <1>5 DEF BeginRun, ObsType
<1>6. CASE Loop
  BY <1>1, <1>6 DEF Loop, Fail, ObsType
<1>7. CASE Emit
  <2>1. obs' = obs \/ obs' = [obs EXCEPT !.values = @ + 1]
    BY <1>7, Zenon DEF Emit, Fail
  <2> QED BY <1>1, <2>1 DEF ObsType
<1>8. CASE ErrorAnnounced
  BY <1>1, <1>8 DEF ErrorAnnounced, ObsType
<1>9. CASE EndAttempt
  <2>1. obs' = obs \/ obs' = [obs EXCEPT !.disposed = TRUE]
    BY <1>9, Zenon DEF EndAttempt
  <2> QED BY <1>1, <2>1 DEF ObsType
<1>10. ASSUME NEW s \in Subscriptions,
              \/ EventStep(s) \/ Subscribe(s) \/ Unsubscribe(s) \/ UnsubscribeEnds(s)
              \/ UnregisterFailed(s) \/ NotifyOnError(s) \/ FlushObserver(s)
       PROVE  obs' = obs
  BY <1>10, Zenon DEF EventStep, BeginEvent, EndEvent, RefuseEvent, FailEvent, EventReady,
     Subscribe, Unsubscribe, UnsubscribeEnds, UnregisterFailed, NotifyOnError, FlushObserver
<1>11. CASE TryDispose \/ UNCHANGED vars
  BY <1>2, <1>11 DEF TryDispose, vars
<1> QED BY <1>2, <1>3, <1>4, <1>5, <1>6, <1>7, <1>8, <1>9, <1>10, <1>11, Zenon
        DEF Next, RunStep, DisposeStep

(***************************************************************************)
(* When the task ends nothing is left to be called, and every observer     *)
(* whose completion was scheduled was told so, unless it threw.            *)
(***************************************************************************)
THEOREM EndCorrect == Spec => EndedIsDelivered
<1> DEFINE A == obs.running /\ ~obs'.running =>
                   \A s \in Subscribed :
                      /\ IsEmpty(sub[s].queue)
                      /\ sub[s].completedScheduled => seen[s].completed \/ seen[s].threw
<1>1. ASSUME IInv, [Next]_vars PROVE A
  <2> SUFFICES ASSUME obs.running, ~obs'.running,
                      NEW s \in Subscriptions, sub[s].status = "subscribed"
               PROVE  /\ IsEmpty(sub[s].queue)
                      /\ sub[s].completedScheduled => seen[s].completed \/ seen[s].threw
    BY DEF Subscribed
  <2> DEFINE q == sub[s].queue
  <2>1. WaitAllEvents2Flush
    BY <1>1, EndsWithEmptyQueues
  <2>2. obs \in ObsType /\ Known(s) /\ q \in Queue
    BY <1>1, Typed, TypeNames DEF IInv, BaseInv
  <2>3. IsEmpty(q)
    <3>1. PICK e, g \in BOOLEAN :
             /\ obs' = [obs EXCEPT !.exception = e, !.running = g]
             /\ g = \E t \in Subscribed : ~IsEmpty(sub[t].queue)
      <4> DEFINE h == \E t \in Subscribed : ~IsEmpty(sub[t].queue)
      <4>1. h \in BOOLEAN
        BY Zenon
      <4>2. obs' = [obs EXCEPT !.exception = obs.exception \/ lock.failed, !.running = h]
        BY <2>1, Zenon DEF WaitAllEvents2Flush
      <4>3. (obs.exception \/ lock.failed) \in BOOLEAN
        BY Zenon
      <4> QED BY <4>1, <4>2, <4>3, Zenon
    <3>2. g = FALSE
      BY <2>2, <3>1 DEF ObsType
    <3> QED BY <3>1, <3>2, Zenon DEF Subscribed
  <2>4. lock.by = "run" /\ lock.todo = {}
    BY <2>1 DEF WaitAllEvents2Flush, Holding
  <2>5. q.pending = <<>> /\ q.executing = "none" /\ q.ready = 0
    BY <2>3 DEF IsEmpty
  <2>6. ~Coming(q) /\ ~Cancelled(q)
    BY <2>2, <2>5, WaitsInQueue DEF Coming, Cancelled
  <2>7. ~Failing(s) /\ ~Leaving(s)
    BY <2>4 DEF Failing, Leaving
  <2>8. sub[s].completedScheduled => seen[s].completed \/ seen[s].threw
    BY <2>2, <2>5, <2>6, <2>7 DEF Known, Completion, Promised
  <2> QED BY <2>3, <2>8
<1>2. IInv /\ [Next]_vars => [A]_vars
  BY <1>1
<1> HIDE DEF A
<1>3. Spec => [][A]_vars
  BY <1>2, Invariant, PTL DEF Spec
<1> QED BY <1>3 DEF EndedIsDelivered, A

-----------------------------------------------------------------------------
(* What dispose() tells                                                    *)

\* The observer was called with a value or an error.
Called(s) == seen[s].next \/ seen[s].error

\* Whoever was called has an events queue still, or was promised onCompleted().
HadQueue(s) ==
    Called(s) /\ sub[s].status # "removed" => sub[s].queue.exists \/ sub[s].completedScheduled

\* An attempt of dispose() promises onCompleted() to everybody who has an events queue.
Reached(s) ==
    lock.by = "dispose" /\ s \notin lock.todo /\ sub[s].queue.exists
        => sub[s].completedScheduled

PromisesKnown == \A s \in Subscriptions : HadQueue(s) /\ Reached(s)

(***************************************************************************)
(* The step neither calls an observer without events queue nor takes the   *)
(* queue away without a promise.                                           *)
(***************************************************************************)
Remembers(s) ==
    /\ Called(s)' => Called(s) \/ sub'[s].queue.exists
    /\ sub[s].queue.exists => \/ sub'[s].queue.exists
                              \/ sub'[s].completedScheduled
                              \/ sub'[s].status = "removed"
    /\ sub[s].completedScheduled => sub'[s].completedScheduled
    /\ sub[s].status = "removed" => sub'[s].status = "removed"

LEMMA RemembersOthers ==
  ASSUME NEW s \in Subscriptions, OthersKept(s), NEW t \in Subscriptions, t # s,
         seen'[t] = seen[t]
  PROVE  Remembers(t) /\ sub'[t] = sub[t]
BY DEF OthersKept, Remembers, Called

(***************************************************************************)
(* An event that is executed has a queue, and leaves it where it is.       *)
(***************************************************************************)
LEMMA EventsRemember ==
  ASSUME IInv, PromisesKnown, NEW s \in Subscriptions, EventStep(s),
         NEW t \in Subscriptions
  PROVE  Remembers(t) /\ Reached(t)'
<1> DEFINE q == sub[s].queue
<1>1. BaseInv /\ q \in Queue /\ QueueShape(q) /\ Reached(t)
  BY Typed DEF IInv, PromisesKnown
<1>2. lock' = lock
  BY Zenon DEF EventStep, BeginEvent, EndEvent, RefuseEvent, FailEvent, EventReady
<1>3. /\ OthersKept(s) /\ \A u \in Subscriptions : u # s => seen'[u] = seen[u]
      /\ sub'[s].queue.exists = q.exists /\ sub'[s].status = sub[s].status
      /\ sub'[s].completedScheduled = sub[s].completedScheduled
      /\ Called(s)' => Called(s) \/ q.exists
  <2>1. CASE BeginEvent(s)
    <3>1. /\ OthersKept(s) /\ OthersNotCalled(s) /\ SameEvents(q, sub'[s].queue)
          /\ sub'[s].status = sub[s].status /\ q.pc = "scheduled"
          /\ sub'[s].completedScheduled = sub[s].completedScheduled
      BY <1>1, <2>1, BeginEventShape
    <3>2. q.exists
      BY <1>1, <3>1 DEF QueueShape, Queue
    <3> QED BY <3>1, <3>2 DEF OthersNotCalled, SameEvents
  <2>2. CASE EndEvent(s) \/ RefuseEvent(s)
    <3>1. PICK p \in {"scheduled", "done", "failed"} :
             q.pc = "callback" /\ sub' = [sub EXCEPT ![s].queue.pc = p]
      BY <2>2, Zenon DEF EndEvent, RefuseEvent
    <3>2. seen' = seen
      BY <2>2, Zenon DEF EndEvent, RefuseEvent
    <3>3. SameEvents(q, sub'[s].queue) /\ SameSubscription(s) /\ OthersKept(s)
      BY <1>1, <3>1, PlaceMoves
    <3> QED BY <3>2, <3>3 DEF SameEvents, SameSubscription, Called
  <2>3. CASE FailEvent(s)
    <3>1. /\ q.pc = "callback" /\ sub' = [sub EXCEPT ![s].queue.pc = "failed"]
          /\ seen' = [seen EXCEPT ![s].threw = TRUE]
      BY <2>3, Zenon DEF FailEvent
    <3>2. SameEvents(q, sub'[s].queue) /\ SameSubscription(s) /\ OthersKept(s)
      BY <1>1, <3>1, PlaceMoves
    <3>3. /\ seen'[s].next = seen[s].next /\ seen'[s].error = seen[s].error
          /\ \A u \in Subscriptions : u # s => seen'[u] = seen[u]
      BY <1>1, <3>1, Typed DEF Observer
    <3> QED BY <3>2, <3>3 DEF SameEvents, SameSubscription, Called
  <2>4. CASE EventReady(s)
    <3>1. /\ sub'[s].queue = AfterReady(q) /\ q.exists
          /\ SameSubscription(s) /\ OthersKept(s)
      BY <1>1, <2>4, EventReadyShape
    <3>2. AfterReady(q) \in Queue /\ AfterReady(q).exists /\ seen' = seen
      BY <1>1, <2>4, <3>1, AfterReadyFacts DEF EventReady
    <3> QED BY <1>1, <3>1, <3>2 DEF SameSubscription, Called, Queue
  <2> QED BY <2>1, <2>2, <2>3, <2>4 DEF EventStep
<1>4. CASE t = s
  BY <1>1, <1>2, <1>3, <1>4 DEF Remembers, Reached
<1>5. CASE t # s
  BY <1>1, <1>2, <1>3, <1>5, RemembersOthers DEF Reached
<1> QED BY <1>4, <1>5

LEMMA OwnersRemember ==
  ASSUME IInv, NEW s \in Subscriptions,
         Subscribe(s) \/ Unsubscribe(s) \/ UnsubscribeEnds(s), NEW t \in Subscriptions
  PROVE  Remembers(t) /\ Reached(t)'
<1>1. BaseInv /\ sub[s].queue \in Queue /\ QueueShape(sub[s].queue)
  BY Typed DEF IInv
<1>2. seen' = seen /\ lock'.by # "dispose"
  BY FreeFacts DEF Subscribe, Unsubscribe, UnsubscribeEnds, LockFree, Free
<1>3. Reached(t)'
  BY <1>2 DEF Reached
<1>4. CASE sub' = Removed(s)
  <2>1. /\ OthersKept(s) /\ sub'[s].status = "removed"
        /\ sub'[s].completedScheduled = sub[s].completedScheduled
    BY <1>1, <1>4, RemovedShape
  <2> QED BY <1>2, <1>3, <2>1, RemembersOthers DEF Remembers, Called
<1>5. CASE Subscribe(s)
  <2>1. /\ OthersKept(s) /\ sub[s].status = "none"
        /\ sub'[s].queue = sub[s].queue
        /\ sub'[s].completedScheduled = sub[s].completedScheduled
    BY <1>1, <1>5, SubscribeShape
  <2> QED BY <1>2, <1>3, <2>1, RemembersOthers DEF Remembers, Called
<1>6. CASE sub' = [sub EXCEPT ![s].queue = Flush(@)]
  <2>1. /\ sub'[s].queue = Flush(sub[s].queue)
        /\ SameSubscription(s) /\ OthersKept(s)
    BY <1>1, <1>6, FlushShape
  <2>2. Flush(sub[s].queue).exists = sub[s].queue.exists
    BY <1>1, FlushFacts
  <2> QED BY <1>2, <1>3, <2>1, <2>2, RemembersOthers
          DEF Remembers, Called, SameSubscription
<1> QED BY <1>4, <1>5, <1>6, Zenon DEF Unsubscribe, UnsubscribeEnds

(***************************************************************************)
(* run() takes a queue away only with the subscription.                    *)
(***************************************************************************)
LEMMA RunRemembers ==
  ASSUME IInv, RunStep, NEW t \in Subscriptions
  PROVE  Remembers(t)
<1>1. /\ BaseInv /\ sub[t] \in Subscription /\ sub[t].queue \in Queue
      /\ QueueShape(sub[t].queue)
  BY Typed DEF IInv
<1>2. "next" \in Events /\ "error" \in Events /\ "completed" \in Events
  BY DEF Events
<1>3. CASE sub' = sub /\ seen' = seen
  BY <1>3 DEF Remembers, Called
<1>4. CASE sub' = WithCompleted /\ seen' = seen
  <2>1. IF sub[t].status = "subscribed"
        THEN sub'[t].completedScheduled /\ sub'[t].status = sub[t].status
        ELSE sub'[t] = sub[t]
    BY <1>1, <1>4, WithCompletedShape
  <2> QED BY <1>4, <2>1 DEF Remembers, Called
<1>5. ASSUME NEW at \in {"loop", "emit", "ending"}, NEW f \in BOOLEAN, Collect(at, f)
      PROVE  Remembers(t)
  <2>1. /\ SameSubscription(t) /\ sub'[t].queue.exists = sub[t].queue.exists
        /\ seen'[t].next = seen[t].next /\ seen'[t].error = seen[t].error
    BY <1>1, <1>5, CollectShape
  <2> QED BY <2>1 DEF Remembers, Called, SameSubscription
<1>6. CASE BeginRun
  BY <1>3, <1>4, <1>5, <1>6 DEF BeginRun
<1>7. CASE Loop
  BY <1>3, <1>4, <1>5, <1>7 DEF Loop, Fail
<1>8. CASE Emit
  <2>1. /\ seen' = seen
        /\ \/ sub' = sub
           \/ sub' = [s \in Subscriptions |-> IF s \in Subscribed
                      THEN [sub[s] EXCEPT !.queue = Push(@, "next")] ELSE sub[s]]
    BY <1>8, Zenon DEF Emit, Fail
  <2>2. CASE sub' = [s \in Subscriptions |-> IF s \in Subscribed
                     THEN [sub[s] EXCEPT !.queue = Push(@, "next")] ELSE sub[s]]
    <3>1. IF sub[t].status = "subscribed"
          THEN sub'[t].queue = Push(sub[t].queue, "next") /\ SameSubscription(t)
          ELSE sub'[t] = sub[t]
      BY <1>1, <2>2, EmittedShape
    <3>2. Push(sub[t].queue, "next").exists
      BY <1>1, <1>2, PushFacts
    <3> QED BY <2>1, <3>1, <3>2 DEF Remembers, Called, SameSubscription
  <2> QED BY <1>3, <2>1, <2>2
<1>9. CASE ErrorAnnounced \/ WaitAllEvents2Flush
  BY <1>3, <1>9 DEF ErrorAnnounced, WaitAllEvents2Flush
<1>10. ASSUME NEW s \in Subscriptions, UnregisterFailed(s) PROVE Remembers(t)
  <2>1. /\ seen' = seen
        /\ \/ sub' = Removed(s)
           \/ sub' = [sub EXCEPT ![s].queue = Flush(sub[s].queue)]
    BY <1>10 DEF UnregisterFailed
  <2>2. CASE sub' = Removed(s)
    <3>1. /\ OthersKept(s) /\ sub'[s].status = "removed"
          /\ sub'[s].completedScheduled = sub[s].completedScheduled
      BY <1>1, <2>2, RemovedShape
    <3> QED BY <2>1, <3>1, RemembersOthers DEF Remembers, Called
  <2>3. CASE sub' = [sub EXCEPT ![s].queue = Flush(sub[s].queue)]
    <3>1. /\ sub'[s].queue = Flush(sub[s].queue)
          /\ SameSubscription(s) /\ OthersKept(s)
      BY <1>1, <2>3, FlushShape
    <3>2. Flush(sub[s].queue).exists = sub[s].queue.exists
      BY <1>1, Typed, FlushFacts
    <3> QED BY <2>1, <3>1, <3>2, RemembersOthers DEF Remembers, Called, SameSubscription
  <2> QED BY <2>1, <2>2, <2>3
<1>11. ASSUME NEW s \in Subscriptions, NotifyOnError(s) PROVE Remembers(t)
  <2>1. /\ seen' = seen
        /\ \/ sub' = sub
           \/ sub' = [sub EXCEPT ![s].queue = Push(Flush(@), "error")]
    BY <1>11, Zenon DEF NotifyOnError
  <2>2. CASE sub' = [sub EXCEPT ![s].queue = Push(Flush(@), "error")]
    <3>1. /\ sub'[s].queue = Push(Flush(sub[s].queue), "error")
          /\ SameSubscription(s) /\ OthersKept(s)
      BY <1>1, <2>2, NotifiedShape
    <3>2. Push(Flush(sub[s].queue), "error").exists
      BY <1>1, <1>2, Typed, FlushPushFacts
    <3> QED BY <2>1, <3>1, <3>2, RemembersOthers DEF Remembers, Called, SameSubscription
  <2> QED BY <1>3, <2>1, <2>2
<1> QED BY <1>6, <1>7, <1>8, <1>9, <1>10, <1>11 DEF RunStep

LEMMA RunHoldsTheLock ==
  ASSUME IInv, RunStep PROVE lock'.by # "dispose"
<1>1. lock \in LockType
  BY TypeNames DEF IInv, BaseInv
<1>2. Free.by = "none"
  BY FreeFacts
<1>3. ASSUME NEW at, NEW f, Collect(at, f) PROVE lock'.by # "dispose"
  BY <1>3 DEF Collect
<1>4. CASE BeginRun
  BY <1>3, <1>4 DEF BeginRun, LockFree
<1>5. CASE Loop
  BY <1>1, <1>2, <1>3, <1>5 DEF Loop, Fail, Holding, LockType
<1>6. CASE Emit
  BY <1>1, <1>2, <1>6 DEF Emit, Fail, Holding, LockType
<1>7. CASE ErrorAnnounced \/ WaitAllEvents2Flush
  BY <1>2, <1>7 DEF ErrorAnnounced, WaitAllEvents2Flush
<1>8. ASSUME NEW s \in Subscriptions, UnregisterFailed(s) \/ NotifyOnError(s)
      PROVE  lock'.by # "dispose"
  <2>1. lock.by = "run" /\ lock' = [lock EXCEPT !.todo = @ \ {s}]
    BY <1>8, Zenon DEF UnregisterFailed, NotifyOnError, Holding
  <2> QED BY <1>1, <2>1 DEF LockType
<1> QED BY <1>4, <1>5, <1>6, <1>7, <1>8 DEF RunStep

(***************************************************************************)
(* dispose() takes a queue away after it has promised onCompleted().       *)
(***************************************************************************)
LEMMA FlushObserverRemembers ==
  ASSUME IInv, PromisesKnown, NEW s \in Subscriptions, FlushObserver(s),
         NEW t \in Subscriptions
  PROVE  Remembers(t) /\ Reached(t)'
<1>1. /\ BaseInv /\ sub[s] \in Subscription /\ sub[s].queue \in Queue
      /\ QueueShape(sub[s].queue) /\ Known(s) /\ Reached(t) /\ lock \in LockType
  BY Typed, TypeNames DEF IInv, PromisesKnown, BaseInv
<1>2. seen' = seen /\ lock.by = "dispose"
  BY Zenon DEF FlushObserver
<1>3. lock'.todo = lock.todo \ {s} /\ lock'.by = lock.by
  <2>1. PICK f : lock' = [lock EXCEPT !.todo = @ \ {s}, !.failed = f]
    BY Zenon DEF FlushObserver
  <2> QED BY <1>1, <2>1 DEF LockType
<1>4. OthersKept(s) /\ sub'[s].completedScheduled /\ sub'[s].status = sub[s].status
  <2>1. CASE /\ ~sub[s].disposing
             /\ sub' = [sub EXCEPT ![s] =
                          [@ EXCEPT !.queue = Push(Flush(sub[s].queue), "completed"),
                                    !.completedScheduled = TRUE, !.disposing = TRUE]]
    BY <1>1, <2>1, FlushedForDisposeShape
  <2>2. CASE /\ sub[s].disposing
             /\ sub' = sub \/ sub' = [sub EXCEPT ![s].queue = NoQueue]
    <3>1. sub[s].completedScheduled
      BY <1>1, <2>2 DEF Known, Scheduled
    <3>2. CASE sub' = sub
      BY <3>1, <3>2 DEF OthersKept
    <3>3. CASE sub' = [sub EXCEPT ![s].queue = NoQueue]
      <4>1. SameSubscription(s) /\ OthersKept(s)
        BY <1>1, <3>3, Typed, NoQueueFacts, QueueMoves
      <4> QED BY <3>1, <4>1 DEF SameSubscription
    <3> QED BY <2>2, <3>2, <3>3
  <2> QED BY <2>1, <2>2, Zenon DEF FlushObserver
<1>5. CASE t = s
  BY <1>2, <1>4, <1>5 DEF Remembers, Reached, Called
<1>6. CASE t # s
  <2>1. Remembers(t) /\ sub'[t] = sub[t]
    BY <1>2, <1>4, <1>6, RemembersOthers
  <2> QED BY <1>1, <1>2, <1>3, <1>6, <2>1 DEF Reached
<1> QED BY <1>5, <1>6

LEMMA AttemptReaches ==
  ASSUME IInv, CallDispose \/ TryDispose, NEW t \in Subscriptions
  PROVE  Remembers(t) /\ Reached(t)'
<1>1. lock' = Attempt /\ sub' = sub /\ seen' = seen
  BY DEF CallDispose, TryDispose
<1>2. sub[t].queue.exists => sub[t].status = "subscribed"
  BY Typed DEF IInv
<1>3. sub[t].queue.exists => t \in lock'.todo
  BY <1>1, <1>2 DEF Attempt, Subscribed
<1>4. Reached(t)'
  BY <1>1, <1>3 DEF Reached
<1> QED BY <1>1, <1>4 DEF Remembers, Called

LEMMA EndAttemptRemembers ==
  ASSUME IInv, PromisesKnown, EndAttempt, NEW t \in Subscriptions
  PROVE  Remembers(t) /\ Reached(t)'
<1>1. BaseInv /\ Reached(t)
  BY DEF IInv, PromisesKnown
<1>2. /\ seen' = seen /\ lock.by = "dispose" /\ lock.todo = {} /\ lock'.by = "none"
      /\ \/ sub' = sub
         \/ sub' = [s \in Subscriptions |-> IF s \in Subscribed
                    THEN [sub[s] EXCEPT !.status = "disposed", !.queue = NoQueue] ELSE sub[s]]
  BY FreeFacts, Zenon DEF EndAttempt
<1>3. sub[t].queue.exists => sub[t].completedScheduled
  BY <1>1, <1>2 DEF Reached
<1>4. /\ sub'[t].completedScheduled = sub[t].completedScheduled
      /\ sub[t].status = "removed" => sub'[t].status = "removed"
  BY <1>1, <1>2, DisposedShape
<1> QED BY <1>2, <1>3, <1>4 DEF Remembers, Reached, Called

LEMMA PromisesKept ==
  ASSUME IInv, PromisesKnown, [Next]_vars
  PROVE  PromisesKnown'
<1> SUFFICES ASSUME NEW t \in Subscriptions PROVE HadQueue(t)' /\ Reached(t)'
  BY DEF PromisesKnown
<1>1. HadQueue(t) /\ Reached(t)
  BY DEF PromisesKnown
<1>2. Remembers(t) /\ Reached(t)'
  <2>1. CASE DispatchException \/ UNCHANGED vars
    BY <1>1, <2>1 DEF DispatchException, vars, Remembers, Reached, Called
  <2>2. CASE RunStep
    BY <2>2, RunRemembers, RunHoldsTheLock DEF Reached
  <2>3. CASE DisposeStep
    BY <2>3, FlushObserverRemembers, AttemptReaches, EndAttemptRemembers DEF DisposeStep
  <2> QED BY <2>1, <2>2, <2>3, EventsRemember, OwnersRemember, AttemptReaches, Zenon
          DEF Next
<1>3. HadQueue(t)'
  BY <1>1, <1>2 DEF HadQueue, Remembers
<1> QED BY <1>2, <1>3

LEMMA PromisesInvariant == Spec => []PromisesKnown
<1>1. Init => PromisesKnown
  BY FreeFacts DEF Init, PromisesKnown, HadQueue, Reached, Called
<1>2. IInv /\ PromisesKnown /\ [Next]_vars => PromisesKnown'
  BY PromisesKept
<1> QED BY <1>1, <1>2, Invariant, PTL DEF Spec

(***************************************************************************)
(* When dispose() ends, every observer that is still subscribed, and that  *)
(* was ever called or promised onCompleted(), was told that it is over,    *)
(* however the attempts of dispose() and run() take turns.                 *)
(***************************************************************************)
THEOREM DisposeCorrect == Spec => []DisposedIsDelivered
<1>1. ASSUME IInv, PromisesKnown PROVE DisposedIsDelivered
  <2> SUFFICES ASSUME NEW s \in Subscriptions, sub[s].status = "disposed",
                      seen[s].next \/ seen[s].error \/ sub[s].completedScheduled
               PROVE  seen[s].completed
    BY DEF DisposedIsDelivered
  <2>1. ~sub[s].queue.exists
    BY <1>1, Typed DEF IInv
  <2>2. sub[s].completedScheduled
    BY <1>1, <2>1 DEF PromisesKnown, HadQueue, Called
  <2> QED BY <1>1, <2>2 DEF IInv, CompletionDelivered
<1> QED BY <1>1, Invariant, PromisesInvariant, PTL
=============================================================================
