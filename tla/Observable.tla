----------------------------- MODULE Observable -----------------------------
(***************************************************************************)
(* bl::reactive::ObservableBaseT: an observable is a timer task whose      *)
(* run() pushes events to a stranded events queue per subscription, which  *)
(* keeps tasks that failed.  m_lock serialises run(), subscribe(),         *)
(* unsubscribe(), dispose() and dispatchException(); the events execute    *)
(* concurrently with them.                                                 *)
(*                                                                         *)
(* A step that cancels an executing onNext() has to acquire the lock of    *)
(* that event, which is held for as long as the callback runs, so run()    *)
(* and dispose() go from subscription to subscription in steps of their    *)
(* own.  The classes derived from ObservableBaseT are external: they emit  *)
(* values, wait, finish or fail.  requestCancel() is not an action: all it *)
(* does is set m_stopRequested, which a derived class may heed at once,    *)
(* late or not at all (RecursiveDirectoryScanner emits what it has), and   *)
(* which makes the task end with operation_aborted.                        *)
(***************************************************************************)
EXTENDS Naturals, Sequences, FiniteSets

CONSTANTS
    MaxSubscriptions,   \* bound on the number of subscriptions
    MaxPendingEvents,   \* m_maxPendingEvents, the throttle limit
    MaxValues,          \* bound on the values the observable emits
    MaxFaults,          \* bound on how often observers throw or refuse a value
    Calls               \* which calls owners make: "unsubscribe", "dispose",
                        \* "dispatch"

ASSUME ConstantsAssumption ==
    /\ MaxSubscriptions \in Nat /\ MaxPendingEvents \in Nat \ {0}
    /\ MaxValues \in Nat /\ MaxFaults \in Nat
    /\ Calls \subseteq {"unsubscribe", "dispose", "dispatch"}

VARIABLES
    obs,    \* the members of the observable and the values it emitted
    sub,    \* the subscriptions and their queues
    lock,   \* what the holder of m_lock is doing
    seen,   \* the callbacks every observer was called with
    faults  \* how often observers threw or refused a value

vars == <<obs, sub, lock, seen, faults>>

Subscriptions == 1..MaxSubscriptions

-----------------------------------------------------------------------------
(* State                                                                   *)

\* An events queue: at most one task executes, and "ready" counts those that failed.
NoQueue == [exists |-> FALSE, pending |-> <<>>, executing |-> "none", pc |-> "none",
            cancelled |-> FALSE, ready |-> 0]

NewSubscription == [status |-> "none", queue |-> NoQueue, completedScheduled |-> FALSE,
                    disposing |-> FALSE, completedCalled |-> FALSE]

Free == [by |-> "none", at |-> "none", todo |-> {}, failed |-> FALSE]

Init ==
    /\ obs = [running |-> TRUE, completed |-> FALSE, disposed |-> FALSE,
              notifyCompleteOnError |-> FALSE, dispatched |-> FALSE,
              exception |-> FALSE, disposer |-> FALSE, values |-> 0]
    /\ sub = [s \in Subscriptions |-> NewSubscription]
    /\ lock = Free
    /\ seen = [s \in Subscriptions |-> [next |-> FALSE, error |-> FALSE, completed |-> FALSE,
                                         threw |-> FALSE, collected |-> FALSE]]
    /\ faults = 0

LockFree == lock.by = "none"

Subscribed == {s \in Subscriptions : sub[s].status = "subscribed"}

IsEmpty(q) == q.pending = <<>> /\ q.executing = "none" /\ q.ready = 0

Size(q) == Len(q.pending) + q.ready + IF q.executing = "none" THEN 0 ELSE 1

\* A task starts to execute.
Started(q, event) == [q EXCEPT !.executing = event, !.pc = "scheduled", !.cancelled = FALSE]

\* push_back() after chk2InitExecutionQueue().
Push(q, event) ==
    LET r == [q EXCEPT !.exists = TRUE]
    IN  IF r.executing = "none" THEN Started(r, event)
        ELSE [r EXCEPT !.pending = Append(@, event)]

\* What forceFlushNoThrow() does before it waits, or if it does not.
Flush(q) == [q EXCEPT !.pending = <<>>, !.ready = 0,
                      !.cancelled = @ \/ q.executing # "none"]

\* The flush cancels the executing event: for onNext() it waits until the callback in
\* progress returns, the tasks of the other events are only marked.
MayFlush(q) == ~(q.executing = "next" /\ q.pc = "callback")

-----------------------------------------------------------------------------
(* Events                                                                  *)

\* An event starts.  One that was cancelled calls nobody: ObserverNextInvoker is done
\* then, a simple task fails.  onCompleted() is called once.
BeginEvent(s) ==
    LET q == sub[s].queue
        called == ~q.cancelled /\ ~(q.executing = "completed" /\ sub[s].completedCalled)
    IN  /\ q.pc = "scheduled"
        /\ sub' = [sub EXCEPT
              ![s].queue.pc = CASE called -> "callback"
                                [] q.cancelled /\ q.executing # "next" -> "failed"
                                [] OTHER -> "done",
              ![s].completedCalled = @ \/ (called /\ q.executing = "completed")]
        /\ seen' = [seen EXCEPT ![s].next = @ \/ (called /\ q.executing = "next"),
                                ![s].error = @ \/ (called /\ q.executing = "error"),
                                ![s].completed = @ \/ (called /\ q.executing = "completed")]
        /\ UNCHANGED <<obs, lock, faults>>

\* The callback returns; exceptions of onError() and onCompleted() are logged.
EndEvent(s) ==
    /\ sub[s].queue.pc = "callback"
    /\ sub' = [sub EXCEPT ![s].queue.pc = "done"]
    /\ UNCHANGED <<obs, lock, seen, faults>>

\* onNext() refuses the value, which is offered again 50 ms later.
RefuseEvent(s) ==
    /\ sub[s].queue.pc = "callback" /\ sub[s].queue.executing = "next"
    /\ faults < MaxFaults
    /\ sub' = [sub EXCEPT ![s].queue.pc = "scheduled"]
    /\ faults' = faults + 1
    /\ UNCHANGED <<obs, lock, seen>>

\* onNext() throws.
FailEvent(s) ==
    /\ sub[s].queue.pc = "callback" /\ sub[s].queue.executing = "next"
    /\ faults < MaxFaults
    /\ sub' = [sub EXCEPT ![s].queue.pc = "failed"]
    /\ seen' = [seen EXCEPT ![s].threw = TRUE]
    /\ faults' = faults + 1
    /\ UNCHANGED <<obs, lock>>

\* Mutant: the events queue keeps every task, not the failed ones only.
EventReadyKeepsAll(s) ==
    LET q == sub[s].queue
        r == [q EXCEPT !.ready = @ + 1, !.executing = "none", !.pc = "none"]
    IN  /\ q.pc \in {"done", "failed"}
        /\ sub' = [sub EXCEPT ![s].queue =
              IF q.pending = <<>> THEN r
              ELSE Started([r EXCEPT !.pending = Tail(@)], Head(q.pending))]
        /\ UNCHANGED <<obs, lock, seen, faults>>

\* onReady() of the events queue: a failed task is kept, the next one executes.
EventReady(s) ==
    LET q == sub[s].queue
        r == [q EXCEPT !.ready = @ + IF q.pc = "failed" THEN 1 ELSE 0,
                       !.executing = "none", !.pc = "none", !.cancelled = FALSE]
    IN  /\ q.pc \in {"done", "failed"}
        /\ sub' = [sub EXCEPT ![s].queue =
              IF q.pending = <<>> THEN r
              ELSE Started([r EXCEPT !.pending = Tail(@)], Head(q.pending))]
        /\ UNCHANGED <<obs, lock, seen, faults>>

-----------------------------------------------------------------------------
(* The entry points, each under m_lock                                     *)

\* Subscriptions are numbered in the order they are made in.
Subscribe(s) ==
    /\ LockFree /\ ~obs.disposed
    /\ sub[s].status = "none" /\ \A t \in 1..(s - 1) : sub[t].status # "none"
    /\ sub' = [sub EXCEPT ![s].status = "subscribed"]
    /\ UNCHANGED <<obs, lock, seen, faults>>

\* An exception that arrives once the observable completed or failed is never thrown.
DispatchException ==
    /\ "dispatch" \in Calls /\ LockFree /\ obs.running
    /\ ~obs.dispatched /\ ~obs.exception /\ ~obs.completed
    /\ obs' = [obs EXCEPT !.dispatched = TRUE]
    /\ UNCHANGED <<sub, lock, seen, faults>>

Removed(s) == [sub EXCEPT ![s].status = "removed", ![s].queue = NoQueue]

\* unsubscribe(): the queue is flushed and m_lock held until nothing executes.
Unsubscribe(s) ==
    /\ "unsubscribe" \in Calls /\ LockFree
    /\ sub[s].status = "subscribed" /\ MayFlush(sub[s].queue)
    /\ IF IsEmpty(sub[s].queue)
       THEN sub' = Removed(s) /\ UNCHANGED lock
       ELSE /\ sub' = [sub EXCEPT ![s].queue = Flush(@)]
            /\ lock' = [Free EXCEPT !.by = "unsubscribe", !.todo = {s}]
    /\ UNCHANGED <<obs, seen, faults>>

\* Mutant: unsubscribe() does not wait.
UnsubscribeAtOnce(s) ==
    /\ lock.by = "unsubscribe" /\ s \in lock.todo
    /\ sub' = [sub EXCEPT ![s].status = "removed"]
    /\ lock' = Free
    /\ UNCHANGED <<obs, seen, faults>>

\* The wait is over: the subscription is erased.
UnsubscribeEnds(s) ==
    /\ lock.by = "unsubscribe" /\ s \in lock.todo
    /\ sub[s].queue.executing = "none"
    /\ sub' = Removed(s)
    /\ lock' = Free
    /\ UNCHANGED <<obs, seen, faults>>

-----------------------------------------------------------------------------
(* run()                                                                   *)

Holding(at) == lock.by = "run" /\ lock.at = at

\* checkSubscribersQueues(): pop one failed task of every queue.  An observer that was
\* disconnected does not fail the observable.
Collect(at, failed) ==
    LET bad == {s \in Subscribed : sub[s].queue.ready > 0}
    IN  /\ failed => bad # {}
        /\ lock' = [by |-> "run", at |-> at, todo |-> bad, failed |-> failed]
        /\ sub' = [s \in Subscriptions |-> IF s \in bad
                   THEN [sub[s] EXCEPT !.queue.ready = @ - 1] ELSE sub[s]]
        /\ seen' = [s \in Subscriptions |-> IF s \in bad
                    THEN [seen[s] EXCEPT !.collected = TRUE] ELSE seen[s]]

\* notifyOnCompleteInternal()
WithCompleted ==
    [s \in Subscriptions |-> IF s \in Subscribed
        THEN [sub[s] EXCEPT !.queue = Push(@, "completed"), !.completedScheduled = TRUE]
        ELSE sub[s]]

\* The timer calls run().
BeginRun ==
    /\ LockFree /\ obs.running
    /\ CASE obs.completed ->
              (\E f \in BOOLEAN : Collect("ending", f)) /\ UNCHANGED obs
         [] ~obs.completed /\ obs.notifyCompleteOnError ->
              /\ obs' = [obs EXCEPT !.completed = TRUE]
              /\ sub' = WithCompleted
              /\ UNCHANGED <<lock, seen>>
         [] ~obs.completed /\ ~obs.notifyCompleteOnError /\ obs.dispatched ->
              /\ obs' = [obs EXCEPT !.dispatched = FALSE]
              /\ lock' = [by |-> "run", at |-> "failing", todo |-> Subscribed, failed |-> TRUE]
              /\ UNCHANGED <<sub, seen>>
         [] OTHER ->
              (\E f \in BOOLEAN : Collect("loop", f)) /\ UNCHANGED obs
    /\ UNCHANGED faults

\* unsubscribeInternal() without waiting, for a subscription that failed: it stays if an
\* event of it still executes.
UnregisterFailed(s) ==
    /\ lock.by = "run" /\ lock.at \in {"loop", "emit", "ending"} /\ s \in lock.todo
    /\ MayFlush(sub[s].queue)
    /\ LET q == Flush(sub[s].queue)
       IN  sub' = IF IsEmpty(q) THEN Removed(s) ELSE [sub EXCEPT ![s].queue = q]
    /\ lock' = [lock EXCEPT !.todo = @ \ {s}]
    /\ UNCHANGED <<obs, seen, faults>>

\* An exception was caught: notifyOnErrorNothrow() is next.
Fail ==
    /\ lock' = [lock EXCEPT !.at = "failing", !.todo = Subscribed, !.failed = TRUE]
    /\ UNCHANGED <<obs, sub, seen, faults>>

\* chk2LoopUntilFinished() of the derived class.
Loop ==
    /\ Holding("loop") /\ lock.todo = {}
    /\ \/ Fail                                      \* also if checkSubscribersQueues() threw
       \/ /\ ~lock.failed                           \* notifyOnNext()
          /\ \/ Subscribed = {} /\ Fail
             \/ /\ Subscribed # {}
                /\ \E f \in BOOLEAN : Collect("emit", f)
                /\ UNCHANGED <<obs, faults>>
       \/ /\ ~lock.failed                           \* not finished yet
          /\ lock' = Free
          /\ UNCHANGED <<obs, sub, seen, faults>>
       \/ /\ ~lock.failed                           \* notifyOnComplete()
          /\ obs' = [obs EXCEPT !.completed = TRUE]
          /\ sub' = WithCompleted
          /\ lock' = Free
          /\ UNCHANGED <<seen, faults>>

\* A queue is full, or its completion was scheduled.
Rejects(s) ==
    /\ sub[s].queue.exists
    /\ Size(sub[s].queue) >= MaxPendingEvents \/ sub[s].completedScheduled

\* The rest of notifyOnNext(): the value is rejected, as it is at the bound of the model,
\* or pushed to every subscription.
Emit ==
    /\ Holding("emit") /\ lock.todo = {}
    /\ IF lock.failed THEN Fail
       ELSE /\ IF obs.values = MaxValues \/ \E s \in Subscribed : Rejects(s)
               THEN UNCHANGED <<obs, sub>>
               ELSE /\ obs' = [obs EXCEPT !.values = @ + 1]
                    /\ sub' = [s \in Subscriptions |-> IF s \in Subscribed
                           THEN [sub[s] EXCEPT !.queue = Push(@, "next")] ELSE sub[s]]
            /\ lock' = Free
            /\ UNCHANGED <<seen, faults>>

\* notifyOnErrorNothrow() for one subscription.
NotifyOnError(s) ==
    /\ Holding("failing") /\ s \in lock.todo
    /\ IF sub[s].completedScheduled THEN UNCHANGED sub
       ELSE /\ MayFlush(sub[s].queue)
            /\ sub' = [sub EXCEPT ![s].queue = Push(Flush(@), "error")]
    /\ lock' = [lock EXCEPT !.todo = @ \ {s}]
    /\ UNCHANGED <<obs, seen, faults>>

\* Mutant: run() goes on after it announced an error.
ErrorAnnouncedGoesOn ==
    /\ Holding("failing") /\ lock.todo = {}
    /\ obs' = [obs EXCEPT !.exception = TRUE]
    /\ lock' = Free
    /\ UNCHANGED <<sub, seen, faults>>

\* The error was announced: onCompleted() is next.
ErrorAnnounced ==
    /\ Holding("failing") /\ lock.todo = {}
    /\ obs' = [obs EXCEPT !.exception = TRUE, !.notifyCompleteOnError = TRUE]
    /\ lock' = Free
    /\ UNCHANGED <<sub, seen, faults>>

\* Mutant: the event that executes is not waited for.
WaitPendingEvents ==
    /\ Holding("ending") /\ lock.todo = {}
    /\ obs' = [obs EXCEPT !.exception = @ \/ lock.failed,
                          !.running = \E s \in Subscribed : sub[s].queue.pending # <<>>]
    /\ lock' = Free
    /\ UNCHANGED <<sub, seen, faults>>

\* chk2WaitAllEvents2Flush(): the task ends once every queue is empty.
WaitAllEvents2Flush ==
    /\ Holding("ending") /\ lock.todo = {}
    /\ obs' = [obs EXCEPT !.exception = @ \/ lock.failed,
                          !.running = \E s \in Subscribed : ~IsEmpty(sub[s].queue)]
    /\ lock' = Free
    /\ UNCHANGED <<sub, seen, faults>>

-----------------------------------------------------------------------------
(* dispose()                                                               *)

\* An attempt; lock.failed will say that some queue was not empty.
Attempt == [by |-> "dispose", at |-> "flushing", failed |-> FALSE,
            todo |-> {s \in Subscribed : sub[s].queue.exists}]

\* dispose() is called and makes its first attempt.
CallDispose ==
    /\ "dispose" \in Calls /\ LockFree /\ ~obs.disposer
    /\ obs' = [obs EXCEPT !.disposer = TRUE]
    /\ lock' = Attempt
    /\ UNCHANGED <<sub, seen, faults>>

\* Another attempt, 50 ms later.
TryDispose ==
    /\ obs.disposer /\ ~obs.disposed /\ LockFree
    /\ lock' = Attempt
    /\ UNCHANGED <<obs, sub, seen, faults>>

\* Mutant: a completion that was scheduled before is not scheduled again.
FlushObserverOnce(s) ==
    LET q == sub[s].queue
    IN  /\ lock.by = "dispose" /\ s \in lock.todo
        /\ MayFlush(q) \/ sub[s].disposing
        /\ lock' = [lock EXCEPT !.todo = @ \ {s},
                                !.failed = @ \/ ~sub[s].disposing \/ ~IsEmpty(q)]
        /\ sub' = [sub EXCEPT ![s] = [@ EXCEPT
              !.queue = CASE sub[s].disposing -> q
                          [] sub[s].completedScheduled -> Flush(q)
                          [] OTHER -> Push(Flush(q), "completed"),
              !.completedScheduled = TRUE, !.disposing = TRUE]]
        /\ UNCHANGED <<obs, seen, faults>>

\* Mutant: every attempt flushes the queues.
FlushObserverAgain(s) ==
    /\ lock.by = "dispose" /\ s \in lock.todo
    /\ MayFlush(sub[s].queue)
    /\ sub' = [sub EXCEPT ![s] = [@ EXCEPT !.queue = Push(Flush(@), "completed"),
                                           !.completedScheduled = TRUE]]
    /\ lock' = [lock EXCEPT !.todo = @ \ {s}, !.failed = TRUE]
    /\ UNCHANGED <<obs, seen, faults>>

\* tryFlushObserversEventQueues() for one subscription.  The onCompleted() it has pushed
\* may be over when it asks whether the queue is empty: then the next attempt sees that.
FlushObserver(s) ==
    LET q == sub[s].queue
        flushed == Push(Flush(q), "completed")
    IN  /\ lock.by = "dispose" /\ s \in lock.todo
        /\ \/ /\ ~sub[s].disposing
              /\ MayFlush(q)
              /\ sub' = [sub EXCEPT ![s] = [@ EXCEPT !.queue = flushed,
                             !.completedScheduled = TRUE, !.disposing = TRUE]]
              /\ lock' = [lock EXCEPT !.todo = @ \ {s}, !.failed = TRUE]
           \/ /\ sub[s].disposing
              /\ lock' = [lock EXCEPT !.todo = @ \ {s}, !.failed = @ \/ ~IsEmpty(q)]
              /\ sub' = IF lock'.failed THEN sub ELSE [sub EXCEPT ![s].queue = NoQueue]
        /\ UNCHANGED <<obs, seen, faults>>

\* The end of an attempt.
EndAttempt ==
    /\ lock.by = "dispose" /\ lock.todo = {}
    /\ lock' = Free
    /\ IF lock.failed THEN UNCHANGED <<obs, sub>>
       ELSE /\ obs' = [obs EXCEPT !.disposed = TRUE]
            /\ sub' = [s \in Subscriptions |-> IF s \in Subscribed
                       THEN [sub[s] EXCEPT !.status = "disposed", !.queue = NoQueue] ELSE sub[s]]
    /\ UNCHANGED <<seen, faults>>

-----------------------------------------------------------------------------
EventStep(s) ==
    BeginEvent(s) \/ EndEvent(s) \/ RefuseEvent(s) \/ FailEvent(s) \/ EventReady(s)

RunStep ==
    \/ BeginRun \/ Loop \/ Emit \/ ErrorAnnounced \/ WaitAllEvents2Flush
    \/ \E s \in Subscriptions : UnregisterFailed(s) \/ NotifyOnError(s)

DisposeStep ==
    TryDispose \/ EndAttempt \/ \E s \in Subscriptions : FlushObserver(s)

Next ==
    \/ \E s \in Subscriptions :
          EventStep(s) \/ Subscribe(s) \/ Unsubscribe(s) \/ UnsubscribeEnds(s)
    \/ DispatchException \/ CallDispose
    \/ RunStep
    \/ DisposeStep

Spec == Init /\ [][Next]_vars

\* Events are executed and callbacks return, the timer of the observable fires, and
\* whoever waits for m_lock, or 50 ms to try again, gets it in the end.
FairSpec ==
    /\ Spec
    /\ \A s \in Subscriptions : WF_vars(EventStep(s))
    /\ SF_vars(RunStep \/ \E s \in Subscriptions : UnsubscribeEnds(s))
    /\ SF_vars(DisposeStep)

-----------------------------------------------------------------------------
(* Properties                                                              *)

\* The types of the variables.
TypeOK ==
    /\ obs \in [running: BOOLEAN, completed: BOOLEAN, disposed: BOOLEAN,
                notifyCompleteOnError: BOOLEAN, dispatched: BOOLEAN,
                exception: BOOLEAN, disposer: BOOLEAN, values: 0..MaxValues]
    /\ sub \in [Subscriptions ->
          [status: {"none", "subscribed", "removed", "disposed"},
           queue: [exists: BOOLEAN, pending: Seq({"next", "error", "completed"}),
                   executing: {"none", "next", "error", "completed"},
                   pc: {"none", "scheduled", "callback", "done", "failed"},
                   cancelled: BOOLEAN, ready: Nat],
           completedScheduled: BOOLEAN, disposing: BOOLEAN, completedCalled: BOOLEAN]]
    /\ lock \in [by: {"none", "run", "dispose", "unsubscribe"},
                 at: {"none", "loop", "emit", "failing", "ending", "flushing"},
                 todo: SUBSET Subscriptions, failed: BOOLEAN]
    /\ seen \in [Subscriptions -> [next: BOOLEAN, error: BOOLEAN, completed: BOOLEAN,
                                   threw: BOOLEAN, collected: BOOLEAN]]
    /\ faults \in 0..MaxFaults

\* The calls an observer gets, as IObserver<T> has it: onNext() any number of times, then
\* at most one onError(), then at most one onCompleted(), and nothing after that.  Once
\* dispose() is called this is not promised: an attempt of it that has reset the queue of
\* one observer may have to wait for another one while run() goes on emitting.
CallsAreInOrder ==
    [][\A s \in Subscriptions :
          sub[s].queue.pc = "scheduled" /\ sub'[s].queue.pc = "callback" /\ ~obs.disposer =>
             /\ ~seen[s].completed
             /\ sub[s].queue.executing # "completed" => ~seen[s].error]_vars

\* Nothing is called, or left to be called, once unsubscribe() or dispose() returned.
UnsubscribedIsQuiet ==
    \A s \in Subscriptions :
        sub[s].status \in {"removed", "disposed"} => IsEmpty(sub[s].queue)

\* checkSubscribersQueues(): "Failed will be unsubscribed", and chk2WaitAllEvents2Flush():
\* "the subscriber queues which have failed executions will eventually be unsubscribed".
\* No value is pushed for an observer whose failure was collected.
FailedGetsNoMore ==
    [][\A s \in Subscriptions :
          seen[s].collected => Size(sub'[s].queue) <= Size(sub[s].queue)
                               \/ obs'.values = obs.values]_vars

\* When the task ends, nothing is left to be called, and every observer whose completion
\* was scheduled was told so: chk2WaitAllEvents2Flush() waits for refused values too.
\* The exceptions are those that threw, whose events are discarded.
EndedIsDelivered ==
    [][obs.running /\ ~obs'.running =>
          \A s \in Subscribed :
             /\ IsEmpty(sub[s].queue)
             /\ sub[s].completedScheduled => seen[s].completed \/ seen[s].threw]_vars

\* run() erases the subscriptions of observers that threw, nobody else's: while dispose()
\* was not called, since that cancels events, which then look like failures of observers.
OnlyFailedAreErased ==
    [][\A s \in Subscribed :
          lock.by = "run" /\ ~obs.disposer /\ sub'[s].status = "removed" => seen[s].threw]_vars

\* Whoever is subscribed when dispose() ends, and was ever called or promised
\* onCompleted(), was told that it is over: "For each observer cancel all events in the
\* queue and send onCompleted()", in tryFlushObserversEventQueues().  The code does not do
\* that for an observer without events queue, which nothing was ever pushed for.
DisposedIsDelivered ==
    \A s \in Subscriptions :
        sub[s].status = "disposed"
              /\ (seen[s].next \/ seen[s].error \/ sub[s].completedScheduled)
           => seen[s].completed

\* dispose() returns, whatever is queued and whatever run() still does.
DisposeReturns == obs.disposer ~> obs.disposed
=============================================================================
