# A TLA+ verification of swblocks-baselib

swblocks-baselib is a header-only C++ library for asynchronous, task based
systems. This directory holds TLA+ models of its core, the TLC configurations
that check them on small instances, and theorems about them that TLAPS checks.
`PROJECT.json` lists components, runs, mutants, findings, hazards, theorems and
the source lines each definition stands for. Paths below are relative to
`src/src/include/baselib/` of the repository.

## 1. Inventory

### The parts of the system

| Part | State | Operations | Interacts with |
|---|---|---|---|
| Execution queue (`tasks/ExecutionQueueImpl.h`) | pending, executing and ready lists, two counts, two limits, options, observer, generations | push, pop, top, wait, prioritize, flush, cancel, cancelAll, dispose, setThrottleLimit, setOptions, setNotifyCallback; onReady on completion | starts tasks, is called back by them on worker threads, calls the observer |
| Task life cycle (`tasks/TaskBase.h`) | Created, Running, PendingCompletion, Completed; exception; cancel flag; notify-called flag; finish continuation | scheduleNothrow, notifyReady, requestCancel, setCompletedState, continuationTask | thread pool (post), queue (ready callback) |
| Timer, external completion and retryable tasks (`tasks/TaskBase.h`) | timer armed, handler pending; wrapped task and retry count | schedule, fire, cancel, runNow, continuation | asio timers, task life cycle |
| Multi operation task (`tasks/MultiOperationTask.h`) | operations in flight | begin, end, fail | task life cycle |
| Thread pool (`core/ThreadPoolImpl.h`) | threads, count of ready threads, service and work object, shutting-down flag, last exception | resize, aioService, dispose, thread loop, exception callback | asio io_service; every task |
| Object pool (`core/Pool.h`) | free list | tryGet, put | executor, queue (TaskInfo recycling) |
| Object model (`core/ObjModel.h`) | reference counts, proxies | acquire, release, connect, disconnect | every observer |
| Endpoint selector, watchdog (`core/`) | positions and retry times; deadline | next, reset; progress, expire | TCP tasks |
| Asynchronous executor (`async/`) | operations, the executor task of each, counts of calls expected and remaining, worker and completion queues | createOperation, asyncBegin, cancel, releaseOperation, dispose; onExecute | execution queues, the pool of operations, the servers that own operations |
| Reactive units (`reactive/`) | subscriptions with an events queue each, completed, stop, error and disposed flags | subscribe, unsubscribe, dispose, dispatchException; run with onNext, onError, onCompleted | timer task, one execution queue per observer, the observers |
| TCP and SSL tasks (`tasks/Tcp*.h`) | sockets, shutdown in progress | connect, accept, read, write, shutdown | asio, task life cycle |
| Messaging (`messaging/`) | completion queue of blocks, connections, peers | schedule, complete, forward, reconnect | TCP tasks, executor |
| HTTP, transfer, security, data, loader, command line, JNI | see `PROJECT.json` | | |

Everything above the tasks is built on the execution queue: the executor, the
reactive units, the messaging servers and the applications all push tasks to it
and rely on wait(), flush() and dispose(). It is modelled first.

### What is hard about the execution queue

* Completions run on thread pool threads and interleave with every operation.
* Two counts are kept beside the lists and adjusted by hand in a dozen places.
* `padExecutingQueueNothrow()` must be called by every operation that frees a
  place, changes a limit or adds a task; nobody else will do it later.
* Threads in five different calls sleep on one condition variable, and two
  operations (cancel() and a self continuation) change the state and notify
  nobody.
* A task may continue itself or another task; the continuation is scheduled
  while the completing task is still counted.
* Observer callbacks run outside of the lock; the AllTasksCompleted event is
  decided before them and validated after them.
* dispose() sleeps with the lock released.

### What is hard above it

* The retryable task changes the task it wraps between the attempts; a
  cancellation that arrives during the change reaches a task that is over.
* The executor calls back the owner of an operation from a thread that is still
  executing it; the owner may begin, cancel or release at once, and the task of
  the operation is reused for another one.
* The thread pool creates threads, waits for them, stops and joins them while
  they wait for each other, and its constructor may fail with threads running.
* An observable sends events that execute later, concurrently with it, and its
  observers refuse them, throw, unsubscribe or dispose of it meanwhile.

The list, with lines, is under "hazards" in `PROJECT.json`. What makes the
component correct: lists, owners and counts agree; onReady() runs once per run
of a task; the limits are respected and their places used; tasks start in the
order of the pending queue; no sleeper is forgotten; the last drain is
reported; serialized callbacks exclude each other; dispose() is final.

## 2. The model

`ExecutionQueue.tla` models `ExecutionQueueImplT` and the part of `TaskBaseT`
the queue drives.

| Variable | Code |
|---|---|
| `q` | the members `m_lock` protects: `m_pending`, `m_executing`, `m_ready` as sequences, `owner` for the `TaskInfo::OwnerQueue` of each task ("None": the task has no TaskInfo), `m_executingCount`, `m_readyCount`, the three generations, the two limits, `m_options`, the observer with its mask and delivery policy, and `disposed` for a null `m_observerThis` |
| `task` | `m_state`, whether `m_exception` is set, `m_cancelRequested` |
| `comp` | for each worker thread where it is between the end of a task's body and the end of onReady(): about to enter onReady(), about to notify, in a callback, about to validate a candidate |
| `call` | for each thread the call in which it sleeps on `m_cvReady`, and whether it was notified since it fell asleep |
| `notifyOwner` | the holder of `m_lockNotify`, `m_notifyOwner` |

Every section of code under `m_lock` is one action, with everything it calls:
the padding at the end of a push, the starting of the tasks that were padded,
the notification of the sleepers. `PadExecutingQueue` states the result of the
padding loop in closed form (`PadCount` is the number of its iterations).
A call that blocks is two actions, one up to the sleep and one (`Wake...`) for
the evaluation of its predicate, which may be spurious and then falls asleep
again.

Abstractions. The body of a task is a step that succeeds or fails at some time
(`NotifyReady`). Exceptions are a flag. `continuationTask()` is a choice from
the constant `Continuations`. The pool of TaskInfo objects, names, log messages
and the pure observers (`size()`, `isEmpty()`, `scanQueue()`) are left out.
`prioritize()` is only modelled where it does something. A callback may call
back into the queue when `Reentrant` is true. The application respects the
contract that a task is pushed only when it is not pending or executing (the
code throws otherwise and changes nothing) and that the queue is not used after
dispose().

`MaxGeneration` bounds `m_activeWorkGeneration`, that is, the number of pushes
and continuations of a behaviour. No other bound is needed.

`MCExecutionQueue.tla` defines the values of the constants that a .cfg cannot
write.

### The tasks

`TaskContract.tla` is what the queue relies on: between two schedules a task
calls its ready callback exactly once (`Task.h`). `NotifyReady` of
`ExecutionQueue` is a task that keeps it.

`MultiOperationTask.tla` models `MultiOperationTaskT` over `TaskBaseT`.

| Variable | Code |
|---|---|
| `base` | `m_state`, `m_exception`, `m_notifyCalled`, `m_cbReady`, `m_cancelRequested` |
| `acct` | the members `m_operationsLock` protects |
| `handler` | for each operation where its handler is: in flight, queued on the pool, in its body (the task lock is held), before the accounting, before initiateClose(), before notifyReady(), before the ready callback. Two more handlers: `starter`, the notification scheduleNothrow() posts when it fails, and `finisher`, the handler of the finish continuation |
| `scheduling` | the gap between the reset of the accounting and the base class's scheduleNothrow() |
| `history` | what happened in the run, only read by the properties (and `finishing`, by which the derived task knows that its shutdown has been started) |

What the derived task does is a choice, restricted by what the mix-in asks of
it: a body that finds the task open leaves an operation in flight, and the
handlers check the error code and the cancellation first. isClosing() and
beginOperation() are two steps of a body, so an operation may be begun after
initiateClose() has run. The error a task ends with carries its expected flag;
onTaskStoppedNothrow() is the default, which returns its argument; the finish
continuation happens at most once per run and its asynchronous part is the gap
before the step of `finisher`. `MaxRuns` bounds the restarts.

`TimerTask.tla` models `TimerTaskBaseT` over `TaskBaseT`. The asio timer is a
set of waits, each armed, queued, or on its way to the completion, so that a
second handler in flight would be a state of the model. `Expire` and the
effect of a cancelled wait are external. `MaxRuns` bounds the restarts and
`Waits` only has to be larger than one.

`RetryableTask.tla` models `RetryableWrapperTaskT` over `WrapperTaskBaseT` and
the part of the queue that drives it: schedule, ask for a continuation, schedule
again or complete. `wrapper` holds its members, `wrapped` the task it forwards
to (work, a continuation of it, or the timer of the sleep), `stage` where the
queue is, `canceller` each thread that calls requestCancel(), which sets the
latch and forwards in two steps. `Decide` is the section of continuationTask()
under the lock. The work the factory makes is assumed not to override
scheduleEvenIfAlreadyCanceled(), so that TaskBase refuses to start it when it was
cancelled before (`TaskBase.h`, lines 1196 to 1206); the timer of the sleep is
started regardless, as `TimerTaskBaseT` overrides it.

### The asynchronous executor

`AsyncContract.tla` is the promise of `AsyncExecutor.h` and `AsyncOperation.h`:
every call is answered once, an uncancelled one by executing it, and a cancelled
one is answered in the end. `AsyncExecutor.tla` models `AsyncExecutorImplT`:

| Variable | Code |
|---|---|
| `owner` | for each operation what its owner may do next, and its call in progress |
| `op` | `m_task` of the operation |
| `task` | the members of `ExecutorTaskT`: `m_callsExpected`, `m_remainingToExecute`, `m_stopped`, `m_cancelPending`, `m_callback`, the calls of onExecute() in the completion queue, the task of the operation state |
| `exec` | where the holder of `m_executeLock` of each task is |
| `workers` | `m_workers`: pending, executing and ready tasks, with the limit `Limit` |
| `call` | the variable of the contract |

Operations are pooled objects: after releaseOperation() one may be created
again. The owner makes one call of an operation at a time, as the servers of the
repository do. `Limit`, the sets of operations, tasks and calls bound the
instance; each call is made once. The task of an operation may have continuations,
which onOperationTaskReady() schedules by itself. One task and what it continues with
are the same in the model until the cancellation of the call was requested; after that
a continuation is a task of its own, which nobody cancels (`ContinueOperationTask`).

### The thread pool

`ThreadPool.tla` models `ThreadPoolImplT`: `stage` is the life of the object,
`pool` its members, `thread` the place of each thread in run(), `caller` what a
thread outside of the pool does, `jobs` the handlers that were posted. A thread
that waits for `m_cvNotifyReady` is a caller whose step has a guard. A handler
may throw; the exception callback handles the exception or not. `Overlaps` says
which calls may overlap a dispose(); the callers in the repository allow
themselves none, resize() aside. `MaxThreads` and `MaxJobs` bound it.

### Observables

`Observable.tla` models `ObservableBaseT`: `obs` its members, `sub` the
subscriptions with an abstraction of their events queue (pending events, the one
that executes, the number of failed ones), `lock` what the holder of `m_lock` is
doing and to which subscriptions it has still to do it, `seen` the calls each
observer got (a value, an error, the completion) and whether it threw. The lock section of run() or dispose() is one step per
subscription because cancelling an event waits for its callback. The derived
class, whose loop is external, emits a value, waits, finishes or throws.
`MaxSubscriptions`, `MaxValues` and `MaxFaults` (how often observers throw or
refuse a value) bound it; at the bound of values emission is refused, as by a
full queue.

## 3. Runs

| Run | Instance | Shows |
|---|---|---|
| `eq_events` | 2 tasks, 2 workers, 2 generations, throttle 1, observers replaced and disconnected, both delivery policies, callbacks that call back, dispose(), cancelAll(), cancelling waits, continuations to itself and continuations that throw | TypeOK, Consistent, OneCompletionPerRun, DrainIsReported, SerializedExclusive, DisposedIsQuiescent, NoStrandedWaiter (with callbacks that sleep in the queue) |
| `eq_limits` | 3 tasks, 4 generations, throttle 0, 1, 2 and observer limit 0, 2 changed at any time | WorkConserving, ThrottleRespected, NoOvertaking |
| `eq_live` | 2 clients that push, pop, wait, flush and cancel, a serialized observer, continuations to itself and to another task, 2 generations, no callbacks into the queue, fairness | BlockedCallsReturn |
| `mot_core` | 3 operations, 2 runs, failing starts and finish continuations, fairness | CountMatches, FinishAfterOperations, OutcomeIsFirstFailure, ClosingTaskCompletes |
| `mot_partial` | 2 operations, 2 runs, scheduleTask() that fails half way | TypeOK, KeepsContract (refinement of `TaskContract`) |
| `mot_late_close` | violation | CloseOncePerRun |
| `timer` | 3 waits, 3 runs, fairness of the pool, none of the timer | OneHandler, CancelCompletes, WakeUpNotLost |
| `retryable` | 3 attempts, 2 cancelling threads, 1 continuation of the work, a verification callback, fairness | AttemptsUsed, OutcomeIsOfWork, NoAttemptAfterCancel, CancelCompletes |
| `async_executor` | 2 operations, 2 executor tasks, 3 calls, limit 1, operation states that execute, make a task with continuations or throw, fairness | ReadyTaskIsIdle, OwnerMayContinue, DisposedIsQuiet, KeepsPromise (refinement of `AsyncContract`), PlaceIsFreed |
| `thread_pool` | 3 threads, 2 callers, 1 handler, fairness | TypeOK, ServiceOutlivesUse, NoThreadLost, PoolOutlivesThreads, CallsReturn |
| `observable` | 2 subscriptions, events limit 1, 1 value, 1 fault, fairness | UnsubscribedIsQuiet, DisposedIsDelivered, CallsAreInOrder, EndedIsDelivered, OnlyFailedAreErased, DisposeReturns |
| `observable_failed` | violation: 1 subscription, events limit 2, 3 values | FailedGetsNoMore |

Why the instances are large enough. Two tasks under a throttle of one give a
pending task beside an executing one, a continuation that finds the place taken
and a self continuation that goes behind another task; three tasks let one
overtake another while a third executes. Two clients give two sleepers with
different predicates; two workers give two completions in flight, a candidate
that is overtaken by another and two callbacks at once. Two generations let
both tasks be under way, or one be run again after it was ready, cancelled or
continued while the other never was; four, with three tasks in `eq_limits`, let
all of them be queued and one be run again. Three operations give two that end while one begins another; two
runs let what is left of one run meet the next. Two operations that share two
executor tasks under a limit of one let a task be reused while another operation
waits for the place, and three calls let an operation be continued and cancelled.
Two cancelling threads and three attempts let a cancellation arrive on either side
of every swap of the wrapped task. Three threads and two callers let two resizes
wait for different counts, or one race dispose(). Two subscriptions let dispose()
finish with one observer and wait for another; one value and a limit of one make
run() find a full queue; one fault is an observer that throws or a value that is
refused. (With a limit of two and two values only the safety properties of
`Observable` were checked; they hold.) Every property has a mutant of the code in
`PROJECT.json` that breaks it on the same instance.

The type invariants of `AsyncExecutor` and `Observable` (`TypeOK`) are proved
(section 4); no run lists them.

Deadlock is checked in `eq_limits` and `eq_live`. `eq_events` switches it off
because the queue is not used after dispose(), and the other runs because a
completed task may never be scheduled again, and an executor, a pool or an
observable may stay idle or is over.

Fairness (`Fairness`). A worker that can take a step takes one: the thread pool
runs, task bodies and callbacks end. A thread that was notified gets the lock
and evaluates its predicate. Nothing is assumed of spurious wakeups or of
further calls by the application. A task that continues itself for ever keeps
waiters for ever; the bound on the generations ends every such loop, which is
the assumption under which `BlockedCallsReturn` is stated.

The handlers of a multi operation task are fair, and so are its operations:
every operation ends. For timer tasks only the pool is fair; nothing is assumed
of the expiry of a timer, so `CancelCompletes` says that a cancellation does not
wait for the delay. A retryable task assumes the same of its sleep: work ends, the
queue makes its steps, but no sleep elapses, so its `CancelCompletes` says that a
cancelled sequence completes without waiting.

The executor assumes that the threads of the pool execute what is posted to the
completion queue and that callbacks return. It assumes nothing of owners, and the
task of an operation that is not cancelled may run for ever; `PlaceIsFreed` and the
fairness of `AsyncContract` hold regardless. A task
that was cancelled ends; that its continuations end, which a cancellation does not
reach (see the observations), is an assumption about the tasks of applications. The threads of the thread pool are
scheduled and handlers return (dispose() gives a thread one minute). The events of
an observable execute (weak fairness); the lock of the observable is fair in the
sense that the loop of run(), a pending unsubscribe() and the retries of dispose(),
which take it in turns, each get it again and again (strong fairness: a weak one
would let the poll of dispose() find the lock taken for ever). Observers do not
refuse values for ever: `MaxFaults` bounds how often.

### Findings

* `mot_late_close`: onOperationCompleted() decides to call initiateClose() under
  the accounting lock and calls it after. The last operation, the completion and
  a restart may come in between; the call then cancels the operations of the
  next run.
* `observable_failed`: checkSubscribersQueues() takes the failed task of an
  observer out of its queue and unsubscribes it without waiting. When the next
  event executes already the subscription is kept, and nothing shows any more that
  it failed: an observable that ignores the failures of its observers goes on
  sending it values.

### Observations

Behaviours of the model a reader of the code may want to know. No property
says otherwise, and no run is listed for them.

* `ExecutionQueue.h` (line 79) says that without continuations to other tasks
  nothing is added to the pending queue except by push_back() or push_front().
  onReady() appends a task that is its own continuation to it.
* With an observer's `maxReadyOrExecuting()`, pop() and wait() pad the executing
  queue before they remove the ready task and notify nobody afterwards. A thread
  that waits for a pending task sleeps on although there is room for it, until
  some other operation pads the queue.
* When scheduleTask() of a multi operation task throws after it began operations
  the task completes while they are in flight, against the rule stated at the top
  of `MultiOperationTask.h` (line 45). `mot_partial` shows that the contract with
  the queue still holds.
* An attempt of an observable's dispose() that has reset the queue of one observer
  may have to wait for another. run() goes on meanwhile, and may send the first
  observer a value after its onCompleted(); `CallsAreInOrder` is stated for
  behaviours without dispose().
* An observer that never threw may be erased while dispose() is under way, and is
  then not told. The first attempt cancels its event, schedules onCompleted() behind
  it and tries again 50 ms later. When that event is an onCompleted() or onError()
  that has not started, it fails with operation_aborted; run(), which goes on between
  the attempts, takes that for a failure of the observer and erases the subscription,
  with the onCompleted() that was pending, although the comment there (line 652) gives
  "the observer would never be notified otherwise" as the reason to schedule it again.
  TLC reaches this in sixteen states with one subscription and no faults. So
  `OnlyFailedAreErased` is stated for behaviours without dispose(), and
  `DisposedIsDelivered` for the observers that are still subscribed when dispose()
  ends.
* The comment in tryFlushObserversEventQueues() (`ObservableBase.h`, line 638) says
  "For each observer", but the code does nothing for a subscription that has no
  events queue (line 649). Nothing was ever sent to such an observer, and it is not
  told that the observable is gone; `DisposedIsDelivered` leaves it out.
* requestCancel() of an executor task cancels the task of the operation that is
  current. When that task has ended already its continuation is scheduled all the same
  and is not cancelled ("the best we can do", `AsyncExecutorImpl.h`, line 587). If
  such a continuation runs until it is cancelled, TLC finds `PlaceIsFreed` violated:
  the place in the workers queue is held for ever.
* An observer that refuses a value for ever keeps dispose() polling for ever.
* asyncBegin() for a further call of an operation whose state makes a task leaves
  `m_remainingToExecute` at zero until that task is ready: in this time
  ensureNoCallsPending() would let a second call through. The servers of the
  repository make one call of an operation at a time.
* Two overlapping dispose() calls of the thread pool, or a caller that still uses
  the reference aioService() returned, meet a service that has been reset:
  `ServiceOutlivesUse` is violated with `Overlaps = {"dispose"}` or `{"use"}`.
  The comment that dispose() must be idempotent is about calls one after the other.
* An exception that reaches a pool thread during the shutdown is not offered to the
  exception callback and terminates the process.

## 4. Proofs

`ExecutionQueueProofs.tla`, from the single assumption `ConstantsAssumption`
(types of the constants, a task is not null, workers are not clients), for any
sets of tasks and threads and any limits:

| Theorem | Property |
|---|---|
| `TypeCorrect` | `TypeOK` |
| `ListsStayConsistent` | `Consistent` |
| `CompletionExactlyOnce` | `OneCompletionPerRun` |
| `QueueIsWorkConserving` | `WorkConserving` |
| `DisposeIsFinal` | `DisposedIsQuiescent` |
| `WaitersHaveHope` | `NoStrandedWaiter`, when `ObserverLimits` is `{0}` |

The argument. The first part of the module is about sequences without
duplicates (unlinking, inserting, splitting). The second gives each operator
that changes the queue a lemma: it keeps `QOK` (type and `Consistent`), and says
what it does to the owners. `PadLemma` is the important one: after the padding
a task is pending only if a limit is reached. The third defines the inductive
invariant `IInv`. `Consistent` needs the types and, for completions, that the
completing task is executing, which is `OneCompletionPerRun`; that in turn needs
that onReady() never finds the queue disposed, which follows from the queue
being empty after dispose(); `NoStrandedWaiter` needs `WorkConserving`: a thread
that falls asleep because a task is pending knows that the limit is reached and
so that some task executes. Two predicates keep the case analysis short:
`Quiet(Q, R)` says that a lock section completed no task, and `RunsFollow` that
exactly the tasks that became executing were started; `QuietStep`, `CallStep`
and `CompletionRuns` derive the invariant from them once, and every action has a
lemma that establishes them.

`ExecutionQueueOrderProofs.tla` extends that module and proves, from the same
assumption:

| Theorem | Property |
|---|---|
| `LimitsAreRespected` | `ThrottleRespected` (action property) |
| `TasksStartInOrder` | `NoOvertaking` (action property) |
| `CallbacksAreSerialized` | `SerializedExclusive` |
| `FinalDrainIsReported` | `DrainIsReported`, when `ObserverLimits` is `{0}` |

A lock section of the code changes the queue several times: it unlinks or pushes
tasks, then pads, and a completion does so with the completing task still counted.
Neither action property holds of the parts separately, so the module gives relations
between two states of the queue that compose: `Prepared` (what precedes the padding:
no task starts, no pending task overtakes another), `Orderly` (a step that starts a
prefix of the pending tasks, within the limits) and `Calm` (nothing starts);
`Respects` is what the two properties ask of the section as a whole. Each operator
gets one of them, each action its `Respects`. For the notifications the inductive
invariant `ReportInv` adds to `IInv` that generations are ordered,
`m_lastPublishedGeneration <= m_lastCandidateGeneration <= m_activeWorkGeneration`:
without it a worker could find its candidate published before it formed it.
`DrainIsReported` needs the hypothesis, and needs `WorkConserving` for it: without
an observer's limit a queue with pending tasks has executing ones, so that only a
completion drains it, and that one forms the candidate. With a limit, cancel(),
flush() or a wait that cancels can drain a queue that executes nothing, and the code
forms no candidate then: with `ObserverLimits = {1}` TLC finds `DrainIsReported`
violated in eight states.

`MultiOperationTaskProofs.tla`, from `ConstantsAssumption` of `MultiOperationTask`,
for any number of operations and of runs:

| Theorem | Property | Hypothesis |
|---|---|---|
| `TypeCorrect` | `TypeOK` | |
| `ImplementsContract` | `KeepsContract` (refinement of `TaskContract`) | |
| `CountCorrect` | `CountMatches` | `StartsWhole` |
| `FinishCorrect` | `FinishAfterOperations` | `StartsWhole` |
| `OutcomeCorrect` | `OutcomeIsFirstFailure` | `StartsWhole` |

`StartsWhole` says that scheduleTask() starts the task or fails before it began an
operation. The code demands it of the derived task (the rule at the top of
`MultiOperationTask.h`), and what it would break the base task does not check; the
first two theorems hold without it. They rest on `BaseInv`: of all handlers, those
that an earlier run left behind included, at most one is in the ready callback, in
state PendingCompletion, and `m_notifyCalled` says whether the run is over. For the
accounting the core is `TerminalKnown`: at most one handler is on the path that
closes, notifies and calls back, and while one is, or between runs, no operation is
outstanding; so the handler that takes the count to zero is the last one, and what
it carries is the first failure (`ErrorKnown`).

`AsyncExecutorProofs.tla`, from `ConstantsAssumption` of `AsyncExecutor`, for any
number of operations, executor tasks and calls, and any limit: `ReadyCorrect`
(`ReadyTaskIsIdle`), `OwnerCorrect` (`OwnerMayContinue`), `DisposeCorrect`
(`DisposedIsQuiet`), `TypeCorrect` (`TypeOK`) and `KeepsContract`: every step is a
step of `AsyncContract`, which is `KeepsPromise` without its fairness. The
invariant relates the three counts of an executor task to what is outstanding
(`Counted`): `m_callsExpected` is the terminating call and the call that is due, and
also the calls posted or executing and those still to be posted;
`m_remainingToExecute` is the call due or executing. None of the properties follows
without the other parts: a task that is not told to stop belongs to exactly one
operation (`OwnersKnown`), a call that was not answered is held by exactly one task
(`CallsKnown`), and a task is in one list of the workers queue (`ListsKnown`).

`ObservableProofs.tla`, from `ConstantsAssumption` of `Observable`, for any number
of subscriptions, any limit of the events queues, any number of values and of
observers that throw:

| Theorem | Property |
|---|---|
| `TypeCorrect` | `TypeOK` |
| `UnsubscribeCorrect` | `UnsubscribedIsQuiet` |
| `DisposeCorrect` | `DisposedIsDelivered` |
| `OrderCorrect` | `CallsAreInOrder` (action property) |
| `ErasedCorrect` | `OnlyFailedAreErased` (action property) |
| `EndCorrect` | `EndedIsDelivered` (action property) |

First come lemmas about the operators on an events queue (`PushFacts`, `FlushFacts`,
`AfterReadyFacts`), then what each action does to the subscription it works on. The
invariant has, for each subscription, `Known`: what was scheduled and called agrees
with the state of the observable (`Scheduled`); events are queued in the order
IObserver promises (`InOrder`); without dispose() nothing of a queue fails but an
onNext() that threw (`FailuresKnown`); and a promised onCompleted() that was not
called is on its way, or what cancelled it has made the queue fail, which takes the
subscription away (`Completion`). `DisposeKnown` is the invariant of the loop of a
dispose() attempt: every subscription it has passed that has something to be told
was told, unless the attempt has already noticed that it must try again. What has to
be told is not in the subscription's flags alone, since an observer that was only
sent values was promised nothing before dispose(). `PromisesKnown` closes the gap: an
observer that was called has its events queue still, or its completion was
scheduled (`HadQueue`), and a dispose() attempt schedules the completion of everybody
it passes who has a queue (`Reached`), before it takes the queue away. Observers
that run() erases meanwhile are outside of the theorem (see the observations).

`TimerTaskProofs.tla`, from `ConstantsAssumption` of `TimerTask` (a finite,
nonempty set of waits): `TimerHasOneHandler` proves `OneHandler`. The inductive
invariant adds the types and `StateMatches`: where the handler is determines
`m_state`, and `m_notifyCalled` is set exactly when the task has completed; that
is what excludes the second branch of notifyReadyImpl() and a completion that
meets a running task.

`RetryableTaskProofs.tla`, from `ConstantsAssumption` of `RetryableTask`, for any
number of cancelling threads and of retries: `RetriesAreExact` (`AttemptsUsed`),
`WorkIsReported` (`OutcomeIsOfWork`) and `CancelIsLatched` (`NoAttemptAfterCancel`,
an action property). The inductive invariant adds two facts. `CancelKnown`: a
request that returned is in the latch, and in the work that is about to be
scheduled, so neither the next decision nor the next schedule can miss it.
`CountKnown`: the wrapper sleeps exactly between attempts, and
`m_currentRetryCount` is behind the number of attempts by the one under way.

`ThreadPoolProofs.tla`, from `BoundsAssumption` and `CallersAssumption` (finitely
many callers), for any number of threads, handlers and callers, and under the
hypothesis `Overlaps = {}`, the use for which the properties hold: `TypeCorrect`
(`TypeOK`), `ServiceIsSafe` (`ServiceOutlivesUse`), `ThreadsStay` (`NoThreadLost`)
and `PoolIsSafe` (`PoolOutlivesThreads`). The core of the invariant is
`ThreadsOwned`: a thread that runs is in `m_threads` or somebody joins it, and what
resize() adds after the flip of the state never enters the loop. With one disposer
at a time (`CallersKnown`), nobody is left in the service when it is reset.
`ServiceKnown` says that the first thread counted has created service and work, and
`StageKnown` that constructor and destructor are alone, and that `m_threads` is
empty while they join.

Only model-checked: the liveness properties (`BlockedCallsReturn`,
`ClosingTaskCompletes`, `CancelCompletes`, `WakeUpNotLost`, `PlaceIsFreed`,
`CallsReturn`, `DisposeReturns`) and the fairness part of the refinement
`KeepsPromise`, which are out of the prover's reach; and of course
`CloseOncePerRun` and `FailedGetsNoMore`, which the runs refute. Every other
property of a run is a theorem, with the hypotheses named above.

## 5. Plan

Modelled so far, in this order: the execution queue, timer and multi operation
tasks, the retryable task, the thread pool, the executor, observables. Next:

1. ExternalCompletionTask and the plain wrapper tasks as refinements of
   `TaskContract`.
2. The proxy of the object model with connect, disconnect and tryAcquireRef,
   refining the flag `observer` of `ExecutionQueue`.
3. `MessageBlockCompletionQueue` and the forwarding backend, `EndpointSelector`,
   `AuthorizationCache`, `Watchdog`.
4. Proofs of what these add; `NoStrandedWaiter` and `DrainIsReported` for
   observers with a limit, as far as the code keeps them; the refinement of
   `TaskContract` by `TimerTask` and `RetryableTask`.

## 6. Not modelled

Parsing and formatting, file system and network I/O, logging, OpenSSL and JNI
wrappers, data models and the applications: they keep no concurrent state of
their own or are out of reach of a state machine of this size. Of the modelled
parts: what the operations of the executor and the observers do; the pool of
executor operation objects, which are taken and returned under its lock; asio,
which is modelled by what the code relies on (a handler posted is executed once,
a cancelled wait reports operation_aborted); unsubscribe() called from within an
observer's own callback, which an assertion forbids; the text of exceptions. The
components that are left out, each with its reason, are listed in `PROJECT.json`.
