--------------------------- MODULE ExecutionQueue ---------------------------
(***************************************************************************)
(* bl::tasks::ExecutionQueueImpl together with the part of bl::tasks::     *)
(* TaskBase the queue drives: scheduling, the ready notification and the   *)
(* completed state.                                                        *)
(*                                                                         *)
(* Every section the code runs under m_lock is one action.  What runs      *)
(* outside of m_lock is a step of its own: the body of a task, the gap     *)
(* between a task's ready notification and onReady(), the observer's       *)
(* callback (under m_lockNotify when it is serialized), the validation of  *)
(* an AllTasksCompleted candidate, and a thread asleep on m_cvReady.       *)
(*                                                                         *)
(* A thread of Clients is an application thread, one of Workers a thread   *)
(* on which tasks complete (the thread pool, or the caller of              *)
(* ExternalCompletionTask::markCompleted()).                               *)
(***************************************************************************)
EXTENDS Integers, Sequences, FiniteSets

CONSTANTS
    Tasks,              \* the task objects the application uses
    Clients,            \* application threads
    Workers,            \* threads on which tasks complete
    Null,               \* the null pointer: no task, no thread
    Calls,              \* the operations of the queue the application uses
    Options,            \* values of m_options: sets of Keep* flags
    ThrottleLimits,     \* values of m_maxExecuting
    ObserverLimits,     \* values an observer's maxReadyOrExecuting() returns
    Deliveries,         \* delivery policies observers are registered with
    EventMasks,         \* event masks observers are registered with
    FlushModes,         \* argument tuples of flush()
    Continuations,      \* what a task's continuationTask() may do
    Reentrant,          \* TRUE if callbacks call back into the queue
    MaxGeneration       \* bound on m_activeWorkGeneration

Threads == Clients \cup Workers

KeepFlags == {"KeepSuccessful", "KeepFailed", "KeepCanceled"}

TaskEvents == {"TaskReady", "TaskDiscarded"}

Events == TaskEvents \cup {"AllTasksCompleted"}

FlushArgs == [discardPending: BOOLEAN, nothrowIfFailed: BOOLEAN,
              discardReady: BOOLEAN, cancelExecuting: BOOLEAN]

(***************************************************************************)
(* What the proofs need of the constants.  A task is never the null        *)
(* pointer and a worker is not an application thread.                      *)
(***************************************************************************)
ASSUME ConstantsAssumption ==
    /\ Null \notin Tasks \cup Threads
    /\ Clients \cap Workers = {}
    /\ Options \subseteq SUBSET KeepFlags
    /\ ThrottleLimits \subseteq Nat
    /\ ObserverLimits \subseteq Nat
    /\ Deliveries \subseteq {"Concurrent", "Serialized"}
    /\ EventMasks \subseteq SUBSET Events
    /\ FlushModes \subseteq FlushArgs
    /\ Continuations \subseteq {"none", "self", "other", "throw"}
    /\ Reentrant \in BOOLEAN
    /\ MaxGeneration \in Nat

VARIABLES
    q,            \* the members of the queue that m_lock protects
    task,         \* the tasks' own state: m_state, m_exception, m_cancelRequested
    comp,         \* for each worker, where it is in notifyReady() / onReady()
    call,         \* for each thread, the call in which it sleeps on m_cvReady
    notifyOwner   \* the worker that holds m_lockNotify, or Null

vars == <<q, task, comp, call, notifyOwner>>

-----------------------------------------------------------------------------
(***************************************************************************)
(* The queue's lists.                                                      *)
(***************************************************************************)

IsIn(s, t) == \E i \in 1..Len(s) : s[i] = t

\* intrusive::list_base_hook::unlink() of a task that is linked in s
Unlink(s, t) ==
    LET k == CHOOSE i \in 1..Len(s) : s[i] = t
    IN  SubSeq(s, 1, k - 1) \o SubSeq(s, k + 1, Len(s))

UnlinkIfIn(s, t) == IF IsIn(s, t) THEN Unlink(s, t) ELSE s

Insert(s, t, isBack) == IF isBack THEN Append(s, t) ELSE <<t>> \o s

\* Mutant: the wait of flushInternal() forgets the executing tasks.
HasPendingOnly(Q) == Q.pending # <<>>

IsEmptyInternal(Q) == Q.pending = <<>> /\ Q.executing = <<>> /\ Q.ready = <<>>

HasPendingOrExecuting(Q) == Q.pending # <<>> \/ Q.executing # <<>>

\* Mutant: m_readyCount is not incremented.
MoveToReadyWithoutCount(Q, t) ==
    [Q EXCEPT !.pending   = UnlinkIfIn(@, t),
              !.executing = UnlinkIfIn(@, t),
              !.owner     = [@ EXCEPT ![t] = "Ready"],
              !.ready     = Append(@, t)]

MoveTaskToReadyQueue(Q, t) ==
    [Q EXCEPT !.pending    = UnlinkIfIn(@, t),
              !.executing  = UnlinkIfIn(@, t),
              !.owner      = [@ EXCEPT ![t] = "Ready"],
              !.ready      = Append(@, t),
              !.readyCount = @ + 1]

MoveExecutingTaskToPendingQueue(Q, t) ==
    [Q EXCEPT !.executing      = Unlink(@, t),
              !.owner          = [@ EXCEPT ![t] = "Pending"],
              !.pending        = Append(@, t),
              !.executingCount = @ - 1]

\* the caller adjusts the count of the list the task is removed from
UnlinkAndDestroy(Q, t) ==
    [Q EXCEPT !.pending   = UnlinkIfIn(@, t),
              !.executing = UnlinkIfIn(@, t),
              !.ready     = UnlinkIfIn(@, t),
              !.owner     = [@ EXCEPT ![t] = "None"]]

RemoveReady(Q, t) == [UnlinkAndDestroy(Q, t) EXCEPT !.readyCount = @ - 1]

ClearPending(Q) ==
    [Q EXCEPT !.pending = <<>>,
              !.owner   = [t \in Tasks |-> IF Q.owner[t] = "Pending"
                                           THEN "None" ELSE Q.owner[t]]]

ClearReady(Q) ==
    [Q EXCEPT !.ready      = <<>>,
              !.readyCount = 0,
              !.owner      = [t \in Tasks |-> IF Q.owner[t] = "Ready"
                                              THEN "None" ELSE Q.owner[t]]]

PushToFront(Q, t) ==
    [Q EXCEPT !.pending = <<t>> \o Unlink(@, t)]

(***************************************************************************)
(* padExecutingQueueNothrow(): PadCount is the number of iterations of its *)
(* loop, which stops at the first one for which a limit is reached.        *)
(***************************************************************************)

\* Mutant: the limits are off by one.
ThrottledLate(Q, n) ==
    \/ Q.maxExecuting # 0 /\ Q.executingCount + n > Q.maxExecuting
    \/ Q.maxReadyOrExecuting # 0
          /\ Q.readyCount + Q.executingCount + n > Q.maxReadyOrExecuting

\* either limit stops the scheduling of one more task after n have been scheduled
Throttled(Q, n) ==
    \/ Q.maxExecuting # 0 /\ Q.executingCount + n >= Q.maxExecuting
    \/ Q.maxReadyOrExecuting # 0
          /\ Q.readyCount + Q.executingCount + n >= Q.maxReadyOrExecuting

PadCount(Q) ==
    CHOOSE n \in 0..Len(Q.pending) :
        /\ \A m \in 0..(n - 1) : ~Throttled(Q, m)
        /\ n = Len(Q.pending) \/ Throttled(Q, n)

\* Mutant: tasks are taken from the back of the pending queue.
PadFromBack(Q) ==
    LET n == PadCount(Q)
        k == Len(Q.pending) - n
    IN  [Q EXCEPT !.pending   = SubSeq(@, 1, k),
                  !.executing = @ \o SubSeq(Q.pending, k + 1, Len(Q.pending)),
                  !.executingCount = @ + n,
                  !.owner = [t \in Tasks |->
                                IF \E i \in (k + 1)..Len(Q.pending) : Q.pending[i] = t
                                THEN "Executing" ELSE Q.owner[t]]]

PadExecutingQueue(Q) ==
    LET n == PadCount(Q)
    IN  [Q EXCEPT !.pending   = SubSeq(@, n + 1, Len(@)),
                  !.executing = @ \o SubSeq(Q.pending, 1, n),
                  !.executingCount = @ + n,
                  !.owner = [t \in Tasks |->
                                IF \E i \in 1..n : Q.pending[i] = t
                                THEN "Executing" ELSE Q.owner[t]]]

\* the tasks a change of the queue from Q1 to Q2 has scheduled
Scheduled(Q1, Q2) ==
    {t \in Tasks : Q2.owner[t] = "Executing" /\ Q1.owner[t] # "Executing"}

(***************************************************************************)
(* Task::scheduleNothrow() of every task in S.  A task that was run before *)
(* starts with its error and its cancel request cleared.                   *)
(***************************************************************************)
Schedule(T, S) ==
    [t \in Tasks |->
        IF t \in S
        THEN [state |-> "Running", failed |-> FALSE,
              cancelRequested |-> T[t].state = "Created" /\ T[t].cancelRequested]
        ELSE T[t]]

RequestCancel(T, S) ==
    [t \in Tasks |-> [T[t] EXCEPT !.cancelRequested = @ \/ t \in S]]

\* pushInternalNoLock() up to its final padExecutingQueueNothrow()
Link(Q, t, isBack, dontSchedule) ==
    IF dontSchedule
    THEN IF Q.owner[t] = "Ready" THEN Q
         ELSE [Q EXCEPT !.owner      = [@ EXCEPT ![t] = "Ready"],
                        !.ready      = Insert(@, t, isBack),
                        !.readyCount = @ + 1]
    ELSE [Q EXCEPT !.ready      = UnlinkIfIn(@, t),
                   !.readyCount = IF Q.owner[t] = "Ready" THEN @ - 1 ELSE @,
                   !.owner      = [@ EXCEPT ![t] = "Pending"],
                   !.pending    = Insert(@, t, isBack),
                   !.activeWorkGeneration = @ + 1]

PushInternalNoLock(Q, t, isBack, dontSchedule) ==
    PadExecutingQueue(Link(Q, t, isBack, dontSchedule))

-----------------------------------------------------------------------------
(***************************************************************************)
(* The state.                                                              *)
(***************************************************************************)

Idle == [pc |-> "idle", task |-> Null, event |-> "none", serialize |-> FALSE,
         candidate |-> 0]

NoCall == [op |-> "none", task |-> Null, nothrowIfFailed |-> FALSE,
           discardReady |-> FALSE, notified |-> FALSE]

\* the constructor of ExecutionQueueImplT
Init ==
    /\ \E o \in Options, l \in ThrottleLimits :
          q = [pending              |-> <<>>,
               executing            |-> <<>>,
               ready                |-> <<>>,
               owner                |-> [t \in Tasks |-> "None"],
               executingCount       |-> 0,
               readyCount           |-> 0,
               activeWorkGeneration |-> 0,
               lastPublishedGeneration |-> 0,
               lastCandidateGeneration |-> 0,
               maxExecuting         |-> l,
               maxReadyOrExecuting  |-> 0,
               options              |-> o,
               observer             |-> FALSE,
               eventsMask           |-> {},
               delivery             |-> "Concurrent",
               disposed             |-> FALSE]
    /\ task = [t \in Tasks |-> [state |-> "Created", failed |-> FALSE,
                                cancelRequested |-> FALSE]]
    /\ comp = [w \in Workers |-> Idle]
    /\ call = [th \in Threads |-> NoCall]
    /\ notifyOwner = Null

-----------------------------------------------------------------------------
(***************************************************************************)
(* Completion of a task on a worker thread.                                *)
(***************************************************************************)

\* getEventNotifyCB(): where the worker goes when its lock section has ended
AfterLock(Q, event, candidate) ==
    IF event # "none" /\ Q.observer /\ event \in Q.eventsMask
    THEN [pc |-> "notify", task |-> Null, event |-> event,
          serialize |-> Q.delivery = "Serialized", candidate |-> candidate]
    ELSE IF candidate # 0
         THEN [Idle EXCEPT !.pc = "validate", !.candidate = candidate]
         ELSE Idle

\* Mutant: notifyReadyImpl() without its m_notifyCalled guard.
NotifyReadyTwice(w, t, failed) ==
    /\ comp[w].pc = "idle"
    /\ task[t].state \in {"Running", "PendingCompletion"}
    /\ task' = [task EXCEPT ![t].state = "PendingCompletion", ![t].failed = failed]
    /\ comp' = [comp EXCEPT ![w] = [Idle EXCEPT !.pc = "onReady", !.task = t]]
    /\ UNCHANGED <<q, call, notifyOwner>>

(***************************************************************************)
(* The body of task t ends, with or without an exception, and its          *)
(* notifyReadyImpl() marks it PendingCompletion.  The worker has released  *)
(* the lock of the task and is about to call onReady().                    *)
(***************************************************************************)
NotifyReady(w, t, failed) ==
    /\ comp[w].pc = "idle"
    /\ task[t].state = "Running"
    /\ task' = [task EXCEPT ![t].state = "PendingCompletion", ![t].failed = failed]
    /\ comp' = [comp EXCEPT ![w] = [Idle EXCEPT !.pc = "onReady", !.task = t]]
    /\ UNCHANGED <<q, call, notifyOwner>>

\* Mutant: m_cvReady.notify_one().
NotifyOne ==
    LET asleep == {th \in Threads : call[th].op # "none" /\ ~call[th].notified}
    IN  IF asleep = {} THEN call
        ELSE [call EXCEPT ![CHOOSE th \in asleep : TRUE].notified = TRUE]

NotifyAll == [th \in Threads |-> [call[th] EXCEPT !.notified = (@ \/ call[th].op # "none")]]

KeepTask(Q, failed) ==
    (IF failed THEN "KeepFailed" ELSE "KeepSuccessful") \in Q.options

Drained(Q) == Q.pending = <<>> /\ Q.executing = <<>>

\* onReady() from --m_executingCount on; Q and T are the state its continuation left
CompleteTask(w, t, Q, T, failed) ==
    LET keep == KeepTask(Q, failed)
        Q1 == [Q EXCEPT !.executingCount = @ - 1]
        Q2 == IF keep THEN MoveTaskToReadyQueue(Q1, t) ELSE UnlinkAndDestroy(Q1, t)
        Q3 == PadExecutingQueue(Q2)
        candidate == IF Drained(Q3) THEN Q3.activeWorkGeneration ELSE 0
    IN  /\ q' = IF Drained(Q3)
                THEN [Q3 EXCEPT !.lastCandidateGeneration = Q3.activeWorkGeneration]
                ELSE Q3
        /\ task' = Schedule([T EXCEPT ![t].state = "Completed", ![t].failed = failed],
                            Scheduled(Q2, Q3))
        /\ call' = NotifyAll
        /\ comp' = [comp EXCEPT ![w] =
                      AfterLock(Q3, IF keep THEN "TaskReady" ELSE "TaskDiscarded",
                                candidate)]
        /\ UNCHANGED notifyOwner

\* the task has no continuation, or asking for it threw
OnReadyDone(w, throws) ==
    LET t == comp[w].task
    IN  CompleteTask(w, t, q, task, task[t].failed \/ throws)

\* another task is the continuation: it goes to the front of the pending queue
OnReadyOther(w, u) ==
    LET t == comp[w].task
        Q == PushInternalNoLock(q, u, FALSE, FALSE)
    IN  /\ u # t
        /\ q.owner[u] \in {"None", "Ready"}
        /\ q.activeWorkGeneration < MaxGeneration
        /\ CompleteTask(w, t, Q, Schedule(task, Scheduled(q, Q)), task[t].failed)

\* the task is its own continuation: it is not completed and nobody is woken
OnReadySelf(w) ==
    LET t == comp[w].task
        Q1 == [MoveExecutingTaskToPendingQueue(q, t) EXCEPT !.activeWorkGeneration = @ + 1]
        Q2 == PadExecutingQueue(Q1)
    IN  /\ q.activeWorkGeneration < MaxGeneration
        /\ q' = Q2
        /\ task' = Schedule(task, Scheduled(Q1, Q2))
        /\ comp' = [comp EXCEPT ![w] = Idle]
        /\ UNCHANGED <<call, notifyOwner>>

OnReady(w) ==
    /\ comp[w].pc = "onReady"
    /\ IF q.disposed
       THEN /\ comp' = [comp EXCEPT ![w] = Idle]
            /\ UNCHANGED <<q, task, call, notifyOwner>>
       ELSE \/ "none" \in Continuations /\ OnReadyDone(w, FALSE)
            \/ "throw" \in Continuations /\ OnReadyDone(w, TRUE)
            \/ "self" \in Continuations /\ OnReadySelf(w)
            \/ "other" \in Continuations /\ \E u \in Tasks : OnReadyOther(w, u)

\* Mutant: a serialized callback does not take m_lockNotify.
BeginCallbackUnlocked(w) ==
    /\ comp[w].pc = "notify"
    /\ notifyOwner' = IF comp[w].serialize THEN w ELSE notifyOwner
    /\ comp' = [comp EXCEPT ![w].pc = "callback"]
    /\ UNCHANGED <<q, task, call>>

\* invokeNotifyCB(): a serialized callback starts once m_lockNotify is free
BeginCallback(w) ==
    /\ comp[w].pc = "notify"
    /\ comp[w].serialize => notifyOwner = Null
    /\ notifyOwner' = IF comp[w].serialize THEN w ELSE notifyOwner
    /\ comp' = [comp EXCEPT ![w].pc = "callback"]
    /\ UNCHANGED <<q, task, call>>

\* Mutant: the candidate is forgotten when a task event was delivered.
EndCallbackForgets(w) ==
    /\ comp[w].pc = "callback"
    /\ call[w].op = "none"
    /\ notifyOwner' = IF comp[w].serialize THEN Null ELSE notifyOwner
    /\ comp' = [comp EXCEPT ![w] = Idle]
    /\ UNCHANGED <<q, task, call>>

\* onEvent() returns; a candidate formed by the completion is validated next
EndCallback(w) ==
    /\ comp[w].pc = "callback"
    /\ call[w].op = "none"
    /\ notifyOwner' = IF comp[w].serialize THEN Null ELSE notifyOwner
    /\ comp' = [comp EXCEPT ![w] = AfterLock(q, "none", comp[w].candidate)]
    /\ UNCHANGED <<q, task, call>>

\* the second lock section of onReady()
ValidateCandidate(w) ==
    LET g == comp[w].candidate
        publish == /\ Drained(q)
                   /\ q.lastCandidateGeneration = g
                   /\ q.lastPublishedGeneration < g
    IN  /\ comp[w].pc = "validate"
        /\ q' = IF publish THEN [q EXCEPT !.lastPublishedGeneration = g] ELSE q
        /\ comp' = [comp EXCEPT ![w] =
                      IF publish THEN AfterLock(q, "AllTasksCompleted", 0) ELSE Idle]
        /\ UNCHANGED <<task, call, notifyOwner>>

-----------------------------------------------------------------------------
(***************************************************************************)
(* The operations of the queue.  A thread calls one when it is not asleep  *)
(* in another; a worker calls one only from inside an observer callback.   *)
(* The queue is not used after dispose() has returned.                     *)
(***************************************************************************)

CanCall(th, op) ==
    /\ op \in Calls
    /\ call[th].op = "none"
    /\ ~q.disposed
    /\ th \in Workers => Reentrant /\ comp[th].pc = "callback"

Sleep(th, c) == call' = [call EXCEPT ![th] = c]

Return(th) == call' = [call EXCEPT ![th] = NoCall]

\* the predicate of m_cvReady.wait() is false: the thread goes back to sleep
SleepAgain(th) == call' = [call EXCEPT ![th].notified = FALSE]

\* push_back() and push_front(); a task of the queue may be pushed again once it is ready
Push(th, t, isBack, dontSchedule) ==
    LET Q == PushInternalNoLock(q, t, isBack, dontSchedule)
    IN  /\ CanCall(th, IF dontSchedule THEN "pushReady" ELSE "push")
        /\ q.owner[t] \in {"None", "Ready"}
        /\ dontSchedule \/ q.activeWorkGeneration < MaxGeneration
        /\ q' = Q
        /\ task' = Schedule(task, Scheduled(q, Q))
        /\ UNCHANGED <<comp, call, notifyOwner>>

TakeFirst(Q, remove) ==
    IF remove /\ Q.ready # <<>> THEN RemoveReady(Q, Q.ready[1]) ELSE Q

\* getFirstReady(): pop() removes the task it returns, top() does not
GetFirstReady(th, op, wait) ==
    LET Q == PadExecutingQueue(q)
        sleeps == wait /\ Q.ready = <<>> /\ ~IsEmptyInternal(Q)
    IN  /\ CanCall(th, op)
        /\ q' = IF sleeps THEN Q ELSE TakeFirst(Q, op = "pop")
        /\ task' = Schedule(task, Scheduled(q, Q))
        /\ IF sleeps THEN Sleep(th, [NoCall EXCEPT !.op = op]) ELSE UNCHANGED call
        /\ UNCHANGED <<comp, notifyOwner>>

WakeGetFirstReady(th) ==
    /\ call[th].op \in {"pop", "top"}
    /\ IF IsEmptyInternal(q) \/ q.ready # <<>>
       THEN q' = TakeFirst(q, call[th].op = "pop") /\ Return(th)
       ELSE SleepAgain(th) /\ UNCHANGED q
    /\ UNCHANGED <<task, comp, notifyOwner>>

(***************************************************************************)
(* waitInternal(): wait(), waitNoPrioritize() and cancel(wait = true).     *)
(* A task that is not in the queue ends the call, with an exception if it  *)
(* is not Completed; a ready one is removed, and so is a pending one that  *)
(* is to be cancelled.                                                     *)
(***************************************************************************)
Wait(th, t, prioritize, cancel) ==
    LET Q == PadExecutingQueue(q)
        sleeps == Q.owner[t] = "Executing" \/ (Q.owner[t] = "Pending" /\ ~cancel)
        front == IF prioritize /\ Q.owner[t] = "Pending" THEN PushToFront(Q, t) ELSE Q
        T == Schedule(task, Scheduled(q, Q))
        Q2 == PadExecutingQueue(front)
    IN  /\ CanCall(th, IF cancel THEN "waitCancel" ELSE "wait")
        /\ q' = CASE sleeps -> Q2
                  [] Q.owner[t] = "Ready" -> RemoveReady(Q, t)
                  [] Q.owner[t] = "Pending" /\ cancel -> UnlinkAndDestroy(Q, t)
                  [] OTHER -> Q
        /\ task' = IF sleeps
                   THEN Schedule(RequestCancel(T, IF cancel THEN {t} ELSE {}),
                                 Scheduled(front, Q2))
                   ELSE T
        /\ IF sleeps THEN Sleep(th, [NoCall EXCEPT !.op = "wait", !.task = t])
                     ELSE UNCHANGED call
        /\ UNCHANGED <<comp, notifyOwner>>

WakeWait(th) ==
    LET t == call[th].task
        Q == PadExecutingQueue(q)
    IN  /\ call[th].op = "wait"
        /\ q' = IF Q.owner[t] = "Ready" THEN RemoveReady(Q, t) ELSE Q
        /\ task' = Schedule(task, Scheduled(q, Q))
        /\ IF Q.owner[t] \in {"None", "Ready"} THEN Return(th) ELSE SleepAgain(th)
        /\ UNCHANGED <<comp, notifyOwner>>

\* prioritize() of a pending task; otherwise, or if try_lock() fails, it does nothing
Prioritize(th, t) ==
    /\ CanCall(th, "prioritize")
    /\ q.owner[t] = "Pending"
    /\ q' = PushToFront(q, t)
    /\ UNCHANGED <<task, comp, call, notifyOwner>>

(***************************************************************************)
(* flushInternal().  FlushEnd is what follows the wait: a failed task that *)
(* is ready makes flush() throw, and then the ready queue is cleared too.  *)
(* dispose() goes on to disconnect the proxy of the queue.                 *)
(***************************************************************************)
FlushEnd(Q, T, op, nothrowIfFailed, discardReady) ==
    LET throws == ~nothrowIfFailed /\ \E i \in 1..Len(Q.ready) : T[Q.ready[i]].failed
        Q1 == IF throws \/ discardReady THEN ClearReady(Q) ELSE Q
    IN  IF op = "dispose" THEN [Q1 EXCEPT !.disposed = TRUE] ELSE Q1

FlushInternal(th, op, wait, m) ==
    LET Q1 == IF m.discardPending THEN ClearPending(q) ELSE PadExecutingQueue(q)
        T1 == Schedule(task, Scheduled(q, Q1))
        T2 == RequestCancel(T1, IF m.cancelExecuting
                                THEN {t \in Tasks : Q1.owner[t] = "Executing"} ELSE {})
        sleeps == wait /\ HasPendingOrExecuting(Q1)
    IN  /\ CanCall(th, op)
        /\ q' = IF sleeps THEN Q1 ELSE FlushEnd(Q1, T2, op, m.nothrowIfFailed, m.discardReady)
        /\ task' = T2
        /\ IF sleeps THEN Sleep(th, [NoCall EXCEPT !.op = op,
                                        !.nothrowIfFailed = m.nothrowIfFailed,
                                        !.discardReady = m.discardReady])
                     ELSE UNCHANGED call
        /\ UNCHANGED <<comp, notifyOwner>>

WakeFlush(th) ==
    /\ call[th].op \in {"flush", "dispose", "cancelAll"}
    /\ IF HasPendingOrExecuting(q)
       THEN SleepAgain(th) /\ UNCHANGED q
       ELSE /\ q' = FlushEnd(q, task, call[th].op, call[th].nothrowIfFailed,
                             call[th].discardReady)
            /\ Return(th)
    /\ UNCHANGED <<task, comp, notifyOwner>>

DiscardAll == [discardPending |-> TRUE, nothrowIfFailed |-> TRUE,
               discardReady |-> TRUE, cancelExecuting |-> TRUE]

Flush(th) == \E m \in FlushModes : FlushInternal(th, "flush", TRUE, m)

\* cancelAll() and forceFlushNoThrow() are the same call of flushInternal()
CancelAll(th, wait) == FlushInternal(th, "cancelAll", wait, DiscardAll)

Dispose(th) == FlushInternal(th, "dispose", TRUE, DiscardAll)

\* cancel(wait = false): only a pending task is cancelled, and nobody is notified
Cancel(th, t) ==
    /\ CanCall(th, "cancel")
    /\ q.owner[t] = "Pending"
    /\ q' = IF "KeepCanceled" \in q.options THEN MoveTaskToReadyQueue(q, t)
                                            ELSE UnlinkAndDestroy(q, t)
    /\ UNCHANGED <<task, comp, call, notifyOwner>>

\* Mutant: a raised limit waits for the next push, pop or completion.
SetThrottleLimitOnly(th, limit) ==
    /\ CanCall(th, "setThrottleLimit")
    /\ q' = [q EXCEPT !.maxExecuting = limit]
    /\ UNCHANGED <<task, comp, call, notifyOwner>>

SetThrottleLimit(th, limit) ==
    LET Q1 == [q EXCEPT !.maxExecuting = limit]
        Q2 == PadExecutingQueue(Q1)
    IN  /\ CanCall(th, "setThrottleLimit")
        /\ q' = Q2
        /\ task' = Schedule(task, Scheduled(Q1, Q2))
        /\ UNCHANGED <<comp, call, notifyOwner>>

SetOptions(th, options) ==
    /\ CanCall(th, "setOptions")
    /\ q' = [q EXCEPT !.options = options]
    /\ UNCHANGED <<task, comp, call, notifyOwner>>

\* observer is FALSE for a null proxy, whose limit is 0
SetNotifyCallback(th, observer, limit, mask, delivery) ==
    LET Q1 == [q EXCEPT !.observer = observer, !.eventsMask = mask,
                        !.delivery = delivery,
                        !.maxReadyOrExecuting = IF observer THEN limit ELSE 0]
        Q2 == PadExecutingQueue(Q1)
    IN  /\ CanCall(th, "setNotifyCallback")
        /\ q' = Q2
        /\ task' = Schedule(task, Scheduled(Q1, Q2))
        /\ UNCHANGED <<comp, call, notifyOwner>>

\* the observer's owner disconnects its proxy: tryAcquireRef() fails from now on
DisconnectObserver ==
    /\ "disconnect" \in Calls
    /\ q.observer
    /\ q' = [q EXCEPT !.observer = FALSE]
    /\ UNCHANGED <<task, comp, call, notifyOwner>>

-----------------------------------------------------------------------------
Complete(w) == \E t \in Tasks, failed \in BOOLEAN : NotifyReady(w, t, failed)

WorkerStep(w) ==
    \/ Complete(w)
    \/ OnReady(w)
    \/ BeginCallback(w)
    \/ EndCallback(w)
    \/ ValidateCandidate(w)

\* m_cvReady may also wake a thread spuriously, so a sleeper needs not be notified
Wake(th) == WakeGetFirstReady(th) \/ WakeWait(th) \/ WakeFlush(th)

ClientCall(th) ==
    \/ \E t \in Tasks, isBack, dontSchedule \in BOOLEAN : Push(th, t, isBack, dontSchedule)
    \/ \E op \in {"pop", "top"}, wait \in BOOLEAN : GetFirstReady(th, op, wait)
    \/ \E t \in Tasks, prioritize \in BOOLEAN : Wait(th, t, prioritize, FALSE)
    \/ \E t \in Tasks : Wait(th, t, TRUE, TRUE)
    \/ \E t \in Tasks : Prioritize(th, t)
    \/ Flush(th)
    \/ \E wait \in BOOLEAN : CancelAll(th, wait)
    \/ Dispose(th)
    \/ \E t \in Tasks : Cancel(th, t)
    \/ \E limit \in ThrottleLimits : SetThrottleLimit(th, limit)
    \/ \E options \in Options : SetOptions(th, options)
    \/ \E observer \in BOOLEAN, limit \in ObserverLimits, mask \in EventMasks,
          delivery \in Deliveries : SetNotifyCallback(th, observer, limit, mask, delivery)

Next ==
    \/ \E w \in Workers : WorkerStep(w)
    \/ \E th \in Threads : Wake(th)
    \/ \E th \in Threads : ClientCall(th)
    \/ DisconnectObserver

(***************************************************************************)
(* Fairness: a thread pool thread runs, tasks and callbacks end, and a     *)
(* thread that was notified gets the lock and evaluates its predicate.     *)
(* The application is never required to make another call.                 *)
(***************************************************************************)
Fairness ==
    /\ \A w \in Workers : WF_vars(WorkerStep(w))
    /\ \A th \in Threads : WF_vars(call[th].notified /\ Wake(th))

Spec == Init /\ [][Next]_vars

FairSpec == Spec /\ Fairness

-----------------------------------------------------------------------------
(***************************************************************************)
(* Properties.                                                             *)
(***************************************************************************)

OwnerQueues == {"None", "Pending", "Executing", "Ready"}

QueueType ==
    [pending: Seq(Tasks), executing: Seq(Tasks), ready: Seq(Tasks),
     owner: [Tasks -> OwnerQueues],
     executingCount: Nat, readyCount: Nat,
     activeWorkGeneration: Nat,
     lastPublishedGeneration: Nat, lastCandidateGeneration: Nat,
     maxExecuting: Nat, maxReadyOrExecuting: Nat,
     options: SUBSET KeepFlags,
     observer: BOOLEAN, eventsMask: SUBSET Events,
     delivery: {"Concurrent", "Serialized"}, disposed: BOOLEAN]

TaskType ==
    [state: {"Created", "Running", "PendingCompletion", "Completed"},
     failed: BOOLEAN, cancelRequested: BOOLEAN]

CompType ==
    [pc: {"idle", "onReady", "notify", "callback", "validate"},
     task: Tasks \cup {Null}, event: Events \cup {"none"},
     serialize: BOOLEAN, candidate: Nat]

CallType ==
    [op: {"none", "pop", "top", "wait", "flush", "cancelAll", "dispose"},
     task: Tasks \cup {Null}, nothrowIfFailed: BOOLEAN, discardReady: BOOLEAN,
     notified: BOOLEAN]

\* The type of every member of the queue, of the tasks and of the threads; the two
\* counters of the queue are std::size_t and must never be decremented below 0.
TypeOK ==
    /\ q \in QueueType
    /\ task \in [Tasks -> TaskType]
    /\ comp \in [Workers -> CompType]
    /\ call \in [Threads -> CallType]
    /\ notifyOwner \in Workers \cup {Null}

NoDuplicates(s) == \A i, j \in 1..Len(s) : s[i] = s[j] => i = j

ListHolds(s, owner, name) ==
    /\ NoDuplicates(s)
    /\ \A t \in Tasks : IsIn(s, t) <=> owner[t] = name

ListsConsistent(Q) ==
    /\ ListHolds(Q.pending, Q.owner, "Pending")
    /\ ListHolds(Q.executing, Q.owner, "Executing")
    /\ ListHolds(Q.ready, Q.owner, "Ready")
    /\ Q.executingCount = Len(Q.executing)
    /\ Q.readyCount = Len(Q.ready)

\* A task is in exactly the list its TaskInfo names, once, and m_executingCount and
\* m_readyCount, which every operation adjusts by hand, equal the lengths of their
\* lists: the assertions of isEmptyInternal(), clearQueue() and the destructor.
Consistent == ListsConsistent(q)

\* A task runs, or is between its notifyReady() and onReady(), exactly while the queue
\* holds it as executing; and then onReady() is called once, by one worker: it is not
\* lost and not repeated whatever continuations, restarts and cancellations do.
OneCompletionPerRun ==
    /\ \A t \in Tasks :
          /\ q.owner[t] = "Executing" => task[t].state \in {"Running", "PendingCompletion"}
          /\ task[t].state = "Running" => q.owner[t] = "Executing"
    /\ \A t \in Tasks :
          q.owner[t] = "Executing" /\ task[t].state = "PendingCompletion"
             <=> \E w \in Workers : comp[w].pc = "onReady" /\ comp[w].task = t
    /\ \A v, w \in Workers :
          /\ comp[v].pc = "onReady" /\ comp[w].pc = "onReady"
          /\ comp[v].task = comp[w].task
          => v = w

\* Without an observer's limit no task is left pending while there is room for it:
\* every operation that frees a place or changes a limit pads the executing queue.
WorkConserving ==
    q.pending # <<>> /\ q.maxReadyOrExecuting = 0
        => q.maxExecuting # 0 /\ Len(q.executing) >= q.maxExecuting

\* A thread asleep in pop(), top(), wait(), flush(), cancelAll() or dispose() that
\* nobody has notified yet can rely on a task that is executing, whose completion will
\* notify it: cancel() and a self continuation, which do not notify, leave no thread
\* asleep behind them.  This is for observers without a limit: pop() and wait() free a
\* place of that limit and neither pad the executing queue afterwards nor notify.
NoStrandedWaiter ==
    \A th \in Threads :
        call[th].op # "none" /\ ~call[th].notified => q.executing # <<>>

\* dispose() returns only when no task is in the queue and no completion is on its way
\* to onReady(): the proxy it disconnects is not needed any more.
DisposedIsQuiescent ==
    q.disposed =>
        /\ IsEmptyInternal(q)
        /\ \A w \in Workers : comp[w].pc # "onReady"
        /\ \A t \in Tasks : task[t].state # "Running"

\* If the latest drain of the queue has not been published and the queue is drained
\* now, the worker that saw it drain is still going to validate and publish it: the
\* final AllTasksCompleted is not lost.  (Observers without a limit.)
DrainIsReported ==
    Drained(q) /\ q.lastPublishedGeneration # q.lastCandidateGeneration
        => \E w \in Workers : comp[w].candidate = q.lastCandidateGeneration

\* DeliverySerialized: never two serialized callbacks at once, whichever
\* registrations they were bound under, and m_notifyOwner names the one that runs.
SerializedExclusive ==
    \A w \in Workers :
        comp[w].pc = "callback" /\ comp[w].serialize <=> notifyOwner = w

WithinLimits(Q) ==
    /\ Q.maxExecuting # 0 => Len(Q.executing) <= Q.maxExecuting
    /\ Q.maxReadyOrExecuting # 0
          => Len(Q.ready) + Len(Q.executing) <= Q.maxReadyOrExecuting

\* A step that schedules a task ends within both limits, also when the limits were
\* lowered below the current load before it, and when a completing task schedules its
\* continuation while it is itself still counted.
ThrottleRespected ==
    [][Scheduled(q, q') # {} => WithinLimits(q')]_vars

\* Tasks are scheduled in the order of the pending queue: no task is scheduled by a
\* step that leaves one ahead of it pending.
NoOvertaking ==
    [][\A i, j \in 1..Len(q.pending) :
          i < j /\ q'.owner[q.pending[j]] = "Executing"
             => q'.owner[q.pending[i]] # "Pending"]_vars

\* Every blocked call returns when tasks end and stop continuing themselves: a
\* completion wakes it although the observer's callbacks are serialized and onReady()
\* of a self continuation wakes nobody.
BlockedCallsReturn ==
    \A th \in Threads : call[th].op # "none" ~> call[th].op = "none"
=============================================================================
