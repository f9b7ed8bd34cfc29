--------------------------- MODULE AsyncExecutor ----------------------------
(***************************************************************************)
(* bl::detail::AsyncExecutorImplT: asynchronous operations executed by a   *)
(* limited number of reusable executor tasks on the queue m_workers.  An   *)
(* executor task keeps its place in that queue from call to call until a   *)
(* terminating call, posted when the operation is cancelled or released,   *)
(* completes it.                                                           *)
(*                                                                         *)
(* Lock sections are actions: m_lock of the task, m_executeLock held by an *)
(* onExecute() across the callback, m_lock of the operation held across    *)
(* cancel(), and m_lock of the executor held across releaseOperation().    *)
(* The owner of an operation makes its own calls one at a time, as         *)
(* TcpBlockTransferServer does under its task lock; its callback may make  *)
(* any of them.                                                            *)
(***************************************************************************)
EXTENDS Naturals, Sequences, FiniteSets, SequencesExt

CONSTANTS
    Operations,     \* operation objects, pooled
    Tasks,          \* executor tasks, pooled in the ready queue of m_workers
    Calls,          \* names for calls of asyncBegin(); each is used once
    None,
    Limit,          \* the throttle limit of m_workers, maxConcurrentTasks
    Kinds           \* how operation states may execute: see ScheduleCall

ASSUME ConstantsAssumption ==
    /\ Limit \in Nat \ {0}
    /\ None \notin Tasks \cup Calls
    /\ Kinds \subseteq {"execute", "task", "throws"}

VARIABLES
    owner,      \* what the owner of every operation is doing, and its last call
    op,         \* m_task of every operation
    task,       \* the members of every executor task, and how many onExecute()
                \* are posted for it
    exec,       \* every task: the onExecute() that holds m_executeLock
    workers,    \* m_workers
    call,       \* what became of every call
    disposing   \* "no", "flushing" inside dispose(), or "done"

vars == <<owner, op, task, exec, workers, call, disposing>>

-----------------------------------------------------------------------------
(* State                                                                   *)

\* resetState() of the executor task: a call of the operation and the terminating
\* one are expected.
ResetTask ==
    [assigned |-> FALSE, callsExpected |-> 2, remaining |-> 1, stopped |-> FALSE,
     cancelPending |-> FALSE, callback |-> None, posted |-> 0,
     opTask |-> "none", newCall |-> FALSE]

NoExec == [pc |-> "free", call |-> None, stopped |-> FALSE]

Init ==
    /\ owner = [o \in Operations |-> [stage |-> "none", call |-> None, tail |-> "none"]]
    /\ op = [o \in Operations |-> None]
    /\ task = [t \in Tasks |-> ResetTask]
    /\ exec = [t \in Tasks |-> NoExec]
    /\ workers = [pending |-> <<>>, executing |-> {}, ready |-> <<>>]
    /\ call = [c \in Calls |-> "none"]
    /\ disposing = "no"

\* releaseOperation() holds the lock of the executor while it cancels the task, and
\* dispose() to its end.
ExecutorLockFree ==
    disposing = "no" /\ \A o \in Operations : owner[o].stage # "releasing"

-----------------------------------------------------------------------------
(* Scheduling calls of a task                                              *)

\* scheduleAsyncCall(): post onExecute() to the completion queue.
ScheduleAsyncCall(r, increment) ==
    [r EXCEPT !.posted = @ + 1,
              !.callsExpected = IF increment THEN @ + 1 ELSE @,
              !.remaining = IF increment THEN @ + 1 ELSE @]

\* scheduleCall(): the operation state makes a task of its own, fails to, or is to be
\* executed by onExecute().  A task that was stopped asks for none.
ScheduleCall(r, new, kind) ==
    IF r.stopped \/ kind = "execute" THEN ScheduleAsyncCall(r, new)
    ELSE IF kind = "throws" THEN ScheduleAsyncCall([r EXCEPT !.opTask = "done"], new)
    ELSE [r EXCEPT !.opTask = "running", !.newCall = new]

HasRoom(w) == Cardinality(w.executing) < Limit

\* push_back(): executed at once if the queue has room.
PushBack(w, t) ==
    IF HasRoom(w) THEN [w EXCEPT !.executing = @ \cup {t}]
    ELSE [w EXCEPT !.pending = Append(@, t)]

\* onReady() of the queue: t becomes ready and the first pending task is executed.
TaskCompletes(w, t) ==
    [pending |-> IF w.pending = <<>> THEN <<>> ELSE Tail(w.pending),
     executing |-> (w.executing \ {t}) \cup (IF w.pending = <<>> THEN {} ELSE {Head(w.pending)}),
     ready |-> Append(w.ready, t)]

-----------------------------------------------------------------------------
(* The interface                                                           *)

\* createOperation()
CreateOperation(o) ==
    /\ owner[o].stage = "none"
    /\ ExecutorLockFree
    /\ owner' = [owner EXCEPT ![o].stage = "idle"]
    /\ UNCHANGED <<op, task, exec, workers, call, disposing>>

\* asyncBegin() of an operation without a task: the first ready task is reused, or a
\* new one is made when there is none.
AsyncBegin(o, c, kind) ==
    /\ owner[o].stage = "idle" /\ op[o] = None
    /\ ExecutorLockFree
    /\ call[c] = "none"
    /\ \E t \in Tasks :
          /\ IF workers.ready # <<>> THEN t = Head(workers.ready)
             ELSE t \notin workers.executing /\ ~Contains(workers.pending, t)
          /\ LET w == [workers EXCEPT !.ready = IF @ = <<>> THEN @ ELSE Tail(@)]
                 r == [ResetTask EXCEPT !.assigned = TRUE, !.callback = c]
             IN  /\ workers' = PushBack(w, t)
                 /\ task' = [task EXCEPT ![t] =
                       IF HasRoom(w) THEN ScheduleCall(r, FALSE, kind) ELSE r]
          /\ op' = [op EXCEPT ![o] = t]
    /\ owner' = [owner EXCEPT ![o].stage = "waiting", ![o].call = c]
    /\ call' = [call EXCEPT ![c] = "requested"]
    /\ UNCHANGED <<exec, disposing>>

\* asyncBegin() of an operation that has its task already: requestNewAsyncCall().
\* ensureNoCallsPending() throws unless m_remainingToExecute is zero.
AsyncBeginAgain(o, c, kind) ==
    LET t == op[o]
    IN  /\ owner[o].stage = "idle" /\ t # None
        /\ ExecutorLockFree
        /\ call[c] = "none"
        /\ task[t].remaining = 0
        /\ task' = [task EXCEPT ![t] =
              ScheduleCall([@ EXCEPT !.callback = c], TRUE, kind)]
        /\ owner' = [owner EXCEPT ![o].stage = "waiting", ![o].call = c]
        /\ call' = [call EXCEPT ![c] = "requested"]
        /\ UNCHANGED <<op, exec, workers, disposing>>

\* Mutant: a task whose operation runs a task is stopped by that task's cancellation.
RequestCancelForgets(r) ==
    IF r.stopped \/ r.opTask # "none" THEN r
    ELSE ScheduleAsyncCall([r EXCEPT !.stopped = TRUE], FALSE)

\* Mutant: the terminating call is posted while the operation's task runs.
RequestCancelAtOnce(r) ==
    IF r.stopped THEN r
    ELSE ScheduleAsyncCall([r EXCEPT !.stopped = TRUE], FALSE)

\* The lock section of requestCancel(): post the terminating call, or leave that to
\* onExecute() while the operation has a task of its own.
RequestCancel(r) ==
    IF r.stopped THEN r
    ELSE IF r.opTask # "none" THEN [r EXCEPT !.cancelPending = TRUE]
    ELSE ScheduleAsyncCall([r EXCEPT !.stopped = TRUE], FALSE)

\* resetState() of an operation up to the lock section of requestCancel().
ResetState(o, stage, end) ==
    LET t == op[o]
    IN  IF t = None
        THEN owner' = [owner EXCEPT ![o] = [stage |-> end, call |-> None, tail |-> "none"]]
             /\ UNCHANGED task
        ELSE /\ owner' = [owner EXCEPT ![o].stage = stage, ![o].tail =
                    IF task[t].stopped THEN "none"
                    ELSE IF task[t].opTask # "none" THEN "cancelTask" ELSE "prioritize"]
             /\ task' = [task EXCEPT ![t] = RequestCancel(@)]

\* cancel(), by the owner of the operation.
CancelOperation(o) ==
    /\ owner[o].stage \in {"idle", "waiting"}
    /\ ResetState(o, "cancelling", "cancelled")
    /\ call' = [c \in Calls |->
          IF owner[o].stage = "waiting" /\ c = owner[o].call THEN "cancelled" ELSE call[c]]
    /\ UNCHANGED <<op, exec, workers, disposing>>

\* releaseOperation(), once the callback was called or the operation cancelled.
ReleaseOperation(o) ==
    /\ owner[o].stage \in {"idle", "cancelled"}
    /\ ExecutorLockFree
    /\ ResetState(o, "releasing", "none")
    /\ UNCHANGED <<op, exec, workers, call, disposing>>

\* Mutant: a cancelled operation leaves its task running.
EndResetLeavesTask(o) ==
    /\ owner[o].stage \in {"cancelling", "releasing"}
    /\ op' = [op EXCEPT ![o] = None]
    /\ owner' = [owner EXCEPT ![o] =
          [stage |-> IF @.stage = "cancelling" THEN "cancelled" ELSE "none",
           call |-> None, tail |-> "none"]]
    /\ UNCHANGED <<task, exec, workers, call, disposing>>

\* The rest of resetState(): the task of the operation is cancelled, unless it has
\* handed over to a continuation meanwhile, or the executor task is moved to the front
\* of the pending queue if the lock of the queue is free.
EndReset(o) ==
    LET t == op[o]
        running == owner[o].tail = "cancelTask" /\ task[t].opTask = "running"
                      /\ task[t].callback = owner[o].call
    IN  /\ owner[o].stage \in {"cancelling", "releasing"}
        /\ \/ running /\ task' = [task EXCEPT ![t].opTask = "cancelled"]
           \/ ~running /\ UNCHANGED task
        /\ \/ UNCHANGED workers
           \/ /\ owner[o].tail = "prioritize"
              /\ \E i \in DOMAIN workers.pending :
                    /\ workers.pending[i] = t
                    /\ workers' = [workers EXCEPT !.pending = <<t>> \o RemoveAt(@, i)]
        /\ op' = [op EXCEPT ![o] = None]
        /\ owner' = [owner EXCEPT ![o] =
              [stage |-> IF @.stage = "cancelling" THEN "cancelled" ELSE "none",
               call |-> None, tail |-> "none"]]
        /\ UNCHANGED <<exec, call, disposing>>

-----------------------------------------------------------------------------
(* Execution                                                               *)

\* onOperationTaskReady(): the task of the operation has a continuation, which takes its
\* place.  That changes something only once the cancellation was requested: nobody has
\* cancelled the continuation, and who still holds its predecessor will cancel that.
ContinueOperationTask(t) ==
    /\ task[t].opTask \in {"running", "cancelled"} /\ task[t].cancelPending
    /\ task' = [task EXCEPT ![t].opTask = "continued"]
    /\ UNCHANGED <<owner, op, exec, workers, call, disposing>>

\* onOperationTaskReady(): the task of the operation, or its last continuation, completed.
OnOperationTaskReady(t) ==
    /\ task[t].opTask \in {"running", "cancelled", "continued"}
    /\ task' = [task EXCEPT ![t] = ScheduleAsyncCall([@ EXCEPT !.opTask = "done"], @.newCall)]
    /\ UNCHANGED <<owner, op, exec, workers, call, disposing>>

\* The lock section of onExecute() for a call: the callback is captured, and the
\* terminating call is posted if cancellation was put off.
Captured(r) ==
    LET c == [r EXCEPT !.callback = None, !.opTask = "none"]
    IN  IF r.cancelPending
        THEN ScheduleAsyncCall([c EXCEPT !.cancelPending = FALSE, !.stopped = TRUE], FALSE)
        ELSE c

\* onExecute() acquires m_executeLock, then the task lock for as long as it takes to
\* tell a call from the terminating one.
OnExecute(t) ==
    LET r == [task[t] EXCEPT !.posted = @ - 1, !.callsExpected = @ - 1]
    IN  /\ task[t].posted > 0
        /\ exec[t].pc = "free"
        /\ IF r.callsExpected > 0
           THEN /\ task' = [task EXCEPT ![t] = Captured(r)]
                /\ exec' = [exec EXCEPT ![t] =
                      [pc |-> "call", call |-> r.callback, stopped |-> r.stopped]]
           ELSE /\ task' = [task EXCEPT ![t] = [r EXCEPT !.assigned = FALSE]]
                /\ exec' = [exec EXCEPT ![t] = [NoExec EXCEPT !.pc = "terminate"]]
        /\ UNCHANGED <<owner, op, workers, call, disposing>>

\* Mutant: m_remainingToExecute is decremented after the callback returned.
CallBackBeforeCount(t) ==
    LET c == exec[t].call
    IN  /\ exec[t].pc = "call"
        /\ exec' = [exec EXCEPT ![t].pc = "callback"]
        /\ call' = [call EXCEPT ![c] = IF exec[t].stopped THEN "aborted" ELSE "executed"]
        /\ owner' = [o \in Operations |->
              IF owner[o].stage = "waiting" /\ owner[o].call = c
              THEN [owner[o] EXCEPT !.stage = "idle"] ELSE owner[o]]
        /\ UNCHANGED <<op, task, workers, disposing>>

\* The operation is executed, unless the task was stopped before; then the callback
\* is called.
CallBack(t) ==
    LET c == exec[t].call
    IN  /\ exec[t].pc = "call"
        /\ exec' = [exec EXCEPT ![t].pc = "callback"]
        /\ task' = [task EXCEPT ![t].remaining = @ - 1]
        /\ call' = [call EXCEPT ![c] = IF exec[t].stopped THEN "aborted" ELSE "executed"]
        /\ owner' = [o \in Operations |->
              IF owner[o].stage = "waiting" /\ owner[o].call = c
              THEN [owner[o] EXCEPT !.stage = "idle"] ELSE owner[o]]
        /\ UNCHANGED <<op, workers, disposing>>

\* The callback returned, or notifyReady() did: m_executeLock is released.
ReturnFromExecute(t) ==
    /\ exec[t].pc \in {"callback", "leave"}
    /\ exec' = [exec EXCEPT ![t] = NoExec]
    /\ UNCHANGED <<owner, op, task, workers, call, disposing>>

\* notifyReady() after the terminating call: the queue completes the task and executes
\* the first pending one.
Terminate(t, kind) ==
    /\ exec[t].pc = "terminate"
    /\ exec' = [exec EXCEPT ![t].pc = "leave"]
    /\ workers' = TaskCompletes(workers, t)
    /\ task' = [u \in Tasks |-> IF u \in workers'.executing \ workers.executing
                                THEN ScheduleCall(task[u], FALSE, kind) ELSE task[u]]
    /\ UNCHANGED <<owner, op, call, disposing>>

-----------------------------------------------------------------------------
(* dispose()                                                               *)

\* No operation may be active.  Tasks that are pending are discarded, those that are
\* executing were told to stop when their operation was reset.
Dispose ==
    /\ ExecutorLockFree
    /\ \A o \in Operations : owner[o].stage \in {"none", "cancelled"}
    /\ disposing' = "flushing"
    /\ workers' = [workers EXCEPT !.pending = <<>>]
    /\ UNCHANGED <<owner, op, task, exec, call>>

\* Mutant: dispose() discards what is posted to the completion queue.
DisposeEndsEarly ==
    /\ disposing = "flushing"
    /\ workers.executing = {}
    /\ disposing' = "done"
    /\ workers' = [workers EXCEPT !.ready = <<>>]
    /\ task' = [t \in Tasks |-> [task[t] EXCEPT !.posted = 0]]
    /\ UNCHANGED <<owner, op, exec, call>>

\* m_workers is empty and the completion tasks have all been executed.
DisposeEnds ==
    /\ disposing = "flushing"
    /\ workers.executing = {}
    /\ \A t \in Tasks : task[t].posted = 0 /\ exec[t].pc = "free"
    /\ disposing' = "done"
    /\ workers' = [workers EXCEPT !.ready = <<>>]
    /\ UNCHANGED <<owner, op, task, exec, call>>

-----------------------------------------------------------------------------
ExecuteStep(t) ==
    OnExecute(t) \/ CallBack(t) \/ ReturnFromExecute(t) \/ (\E k \in Kinds : Terminate(t, k))

Next ==
    \/ \E o \in Operations :
          \/ CreateOperation(o)
          \/ \E c \in Calls, k \in Kinds : AsyncBegin(o, c, k) \/ AsyncBeginAgain(o, c, k)
          \/ CancelOperation(o)
          \/ ReleaseOperation(o)
          \/ EndReset(o)
    \/ \E t \in Tasks :
          ContinueOperationTask(t) \/ OnOperationTaskReady(t) \/ ExecuteStep(t)
    \/ Dispose
    \/ DisposeEnds

Spec == Init /\ [][Next]_vars

\* Posted calls are executed, callbacks and calls of the interface return, and the task
\* of an operation ends once it is cancelled; so does one it continues with after the
\* cancellation was requested, although nobody cancels that one.  Nothing is assumed of
\* owners, and an operation's task that nobody cancels may run for ever.
FairSpec ==
    /\ Spec
    /\ \A t \in Tasks :
          /\ WF_vars(ExecuteStep(t))
          /\ WF_vars(task[t].opTask \in {"cancelled", "continued"} /\ OnOperationTaskReady(t))
    /\ \A o \in Operations : WF_vars(EndReset(o))
    /\ WF_vars(DisposeEnds)

-----------------------------------------------------------------------------
(* Properties                                                              *)

\* The types of the variables.
TypeOK ==
    /\ owner \in [Operations -> [stage: {"none", "idle", "waiting", "cancelled",
                                         "cancelling", "releasing"},
                                 call: Calls \cup {None},
                                 tail: {"none", "cancelTask", "prioritize"}]]
    /\ op \in [Operations -> Tasks \cup {None}]
    /\ task \in [Tasks -> [assigned: BOOLEAN, callsExpected: Nat, remaining: Nat,
                           stopped: BOOLEAN, cancelPending: BOOLEAN,
                           callback: Calls \cup {None}, posted: Nat,
                           opTask: {"none", "running", "cancelled", "continued", "done"},
                           newCall: BOOLEAN]]
    /\ exec \in [Tasks -> [pc: {"free", "call", "callback", "terminate", "leave"},
                           call: Calls \cup {None}, stopped: BOOLEAN]]
    /\ workers \in [pending: Seq(Tasks), executing: SUBSET Tasks, ready: Seq(Tasks)]
    /\ call \in [Calls -> {"none", "requested", "cancelled", "executed", "aborted"}]
    /\ disposing \in {"no", "flushing", "done"}

\* The terminating call is the last: when a task is back in the ready queue, where the
\* next operation takes it from, nothing of the last one is posted for it or running.
ReadyTaskIsIdle ==
    \A t \in ToSet(workers.ready) :
        /\ task[t].posted = 0 /\ task[t].opTask = "none"
        /\ task[t].callback = None /\ ~task[t].assigned
        /\ exec[t].pc \in {"leave", "free"}
        /\ \A o \in Operations : op[o] = t => owner[o].stage \in {"cancelling", "releasing"}

\* An owner whose callback was called may begin the next call or release the operation,
\* also from within the callback: ensureNoCallsPending() does not throw.
OwnerMayContinue ==
    \A o \in Operations :
        owner[o].stage = "idle" /\ op[o] # None =>
            /\ task[op[o]].remaining = 0
            /\ task[op[o]].assigned /\ ~task[op[o]].stopped

\* "Once you schedule an async operation the only guarantee is that the callback will
\* eventually be called": dispose() leaves no call without its callback.
DisposedIsQuiet ==
    disposing = "done" => \A c \in Calls : call[c] \notin {"requested", "cancelled"}

\* Every call is answered once, an uncancelled one by executing it, and a cancelled one
\* even when every place in the queue is taken for ever.
Contract == INSTANCE AsyncContract
KeepsPromise == Contract!Spec

\* m_cancelPending, "the task would then be left running in the executing queue,
\* holding one of the concurrency slots until the executor is disposed": a task that no
\* operation refers to any more leaves its place.
PlaceIsFreed ==
    \A t \in Tasks :
        t \in workers.executing /\ (\A o \in Operations : op[o] # t)
            ~> t \notin workers.executing
=============================================================================
