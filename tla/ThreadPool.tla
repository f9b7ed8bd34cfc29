----------------------------- MODULE ThreadPool -----------------------------
(***************************************************************************)
(* bl::ThreadPoolImplT: a pool that grows, and whose threads run one       *)
(* asio::io_service which the first of them creates and dispose() resets.  *)
(*                                                                         *)
(* Sections under m_lock are actions; the condition variable wait releases *)
(* it.  What threads and callers read without it (m_shuttingDown in        *)
(* resize(), aioService() and handleException(), m_ioservice before run()) *)
(* is read in an action of its own.  The exception that lastException()    *)
(* returns is left out, and the one minute dispose() waits for a thread.   *)
(***************************************************************************)
EXTENDS Naturals, FiniteSets

CONSTANTS
    Callers,
    MaxThreads,     \* bound on the threads ever created
    MaxJobs,        \* bound on the handlers posted and not executed
    Overlaps        \* what callers may be doing when dispose() is called: "dispose",
                    \* "use" of the reference aioService() returned

Threads == 1..MaxThreads    \* in the order of their creation

ASSUME BoundsAssumption == MaxThreads \in Nat \ {0} /\ MaxJobs \in Nat
ASSUME CallersAssumption == IsFiniteSet(Callers)

VARIABLES
    stage,      \* "constructing", "alive", "destroying", "destroyed"; or "terminated",
                \* the process is
    pool,       \* m_ioservice, m_work, m_shuttingDown, m_threadsReady, m_threads, and
                \* how many threads were created
    thread,     \* where every thread is in run()
    caller,     \* what every caller is doing
    jobs        \* the handlers posted

vars == <<stage, pool, thread, caller, jobs>>

Idle == [pc |-> "idle", count |-> 0, joining |-> {}]

\* The constructor calls createThreads().
Init ==
    /\ stage = "constructing"
    /\ pool = [service |-> "none", work |-> FALSE, shuttingDown |-> FALSE,
               threadsReady |-> 0, threads |-> {}, created |-> 0]
    /\ thread = [t \in Threads |-> "none"]
    /\ \E c \in Callers, n \in Threads :
          caller = [d \in Callers |-> IF d = c THEN [Idle EXCEPT !.pc = "create", !.count = n]
                                      ELSE Idle]
    /\ jobs = 0

\* Nothing happens in a process that was terminated.
At(t, places) == stage # "terminated" /\ thread[t] \in places
In(c, place) == stage # "terminated" /\ caller[c].pc = place

-----------------------------------------------------------------------------
(* run()                                                                   *)

\* Mutant: a thread that starts while the pool is disposed is not counted.
EnterLoopUncounted(t) ==
    /\ At(t, {"started", "again"})
    /\ IF pool.shuttingDown
       THEN /\ thread' = [thread EXCEPT ![t] = "exited"]
            /\ UNCHANGED pool
       ELSE /\ thread' = [thread EXCEPT ![t] = "unlocked"]
            /\ pool' = [pool EXCEPT !.service = IF @ = "none" THEN "live" ELSE @, !.work = TRUE,
                                    !.threadsReady = @ + IF thread[t] = "started" THEN 1 ELSE 0]
    /\ UNCHANGED <<stage, caller, jobs>>

\* Mutant: a thread runs the service of a pool that is disposed.
EnterLoopLate(t) ==
    /\ At(t, {"started", "again"})
    /\ pool' = [pool EXCEPT !.service = IF @ = "none" THEN "live" ELSE @,
                            !.threadsReady = @ + IF thread[t] = "started" THEN 1 ELSE 0]
    /\ thread' = [thread EXCEPT ![t] = "unlocked"]
    /\ UNCHANGED <<stage, caller, jobs>>

\* Mutant: a thread is counted again after an exception.
EnterLoopCountsAgain(t) ==
    /\ At(t, {"started", "again"})
    /\ LET create == ~pool.shuttingDown /\ pool.service = "none"
       IN  pool' = [pool EXCEPT !.service = IF create THEN "live" ELSE @,
                                !.work = create \/ @,
                                !.threadsReady = @ + 1]
    /\ thread' = [thread EXCEPT ![t] = IF pool.shuttingDown THEN "exited" ELSE "unlocked"]
    /\ UNCHANGED <<stage, caller, jobs>>

\* The lock section of the loop: the service is created once, the thread is counted in
\* its first pass, and it leaves if the pool is being disposed.
EnterLoop(t) ==
    /\ At(t, {"started", "again"})
    /\ LET create == ~pool.shuttingDown /\ (pool.service = "none" \/ ~pool.work)
       IN  pool' = [pool EXCEPT !.service = IF create THEN "live" ELSE @,
                                !.work = create \/ @,
                                !.threadsReady = @ + IF thread[t] = "started" THEN 1 ELSE 0]
    /\ thread' = [thread EXCEPT ![t] = IF pool.shuttingDown THEN "exited" ELSE "unlocked"]
    /\ UNCHANGED <<stage, caller, jobs>>

\* m_ioservice -> run(), without the lock.
Run(t) ==
    /\ At(t, {"unlocked"})
    /\ thread' = [thread EXCEPT ![t] = "run"]
    /\ UNCHANGED <<stage, pool, caller, jobs>>

\* run() of the service returns when it was stopped or has no work left.
RunReturns(t) ==
    /\ At(t, {"run"})
    /\ pool.service = "stopped" \/ (~pool.work /\ jobs = 0)
    /\ thread' = [thread EXCEPT ![t] = "exited"]
    /\ UNCHANGED <<stage, pool, caller, jobs>>

ExecuteHandler(t) ==
    /\ At(t, {"run"}) /\ pool.service = "live" /\ jobs > 0
    /\ thread' = [thread EXCEPT ![t] = "handler"]
    /\ jobs' = jobs - 1
    /\ UNCHANGED <<stage, pool, caller>>

HandlerEnds(t) ==
    /\ At(t, {"handler"})
    /\ \E pc \in {"run", "threw"} : thread' = [thread EXCEPT ![t] = pc]
    /\ UNCHANGED <<stage, pool, caller, jobs>>

\* handleException() ignores the callback once the pool is being disposed; then run()
\* rethrows in its BL_NOEXCEPT block, which terminates the process.
HandleException(t) ==
    /\ At(t, {"threw"})
    /\ IF pool.shuttingDown
       THEN stage' = "terminated" /\ UNCHANGED thread
       ELSE thread' = [thread EXCEPT ![t] = "callback"] /\ UNCHANGED stage
    /\ UNCHANGED <<pool, caller, jobs>>

\* Mutant: a thread leaves after an exception that m_ehCB handled.
EhCallbackLeaves(t) ==
    /\ At(t, {"callback"})
    /\ thread' = [thread EXCEPT ![t] = "exited"]
    /\ UNCHANGED <<stage, pool, caller, jobs>>

\* m_ehCB: the thread goes on, or the exception was not handled.
EhCallback(t) ==
    /\ At(t, {"callback"})
    /\ \/ thread' = [thread EXCEPT ![t] = "again"] /\ UNCHANGED stage
       \/ stage' = "terminated" /\ UNCHANGED thread
    /\ UNCHANGED <<pool, caller, jobs>>

-----------------------------------------------------------------------------
(* createThreads() and resize()                                            *)

\* resize() reads m_shuttingDown.
Resize(c, n) ==
    /\ stage = "alive" /\ caller[c] = Idle
    /\ ~pool.shuttingDown
    /\ caller' = [caller EXCEPT ![c] = [Idle EXCEPT !.pc = "resize", !.count = n]]
    /\ UNCHANGED <<stage, pool, thread, jobs>>

\* size(): there may be enough threads.
ReadSize(c) ==
    /\ In(c, "resize")
    /\ caller' = [caller EXCEPT ![c] =
          IF @.count > Cardinality(pool.threads) THEN [@ EXCEPT !.pc = "create"] ELSE Idle]
    /\ UNCHANGED <<stage, pool, thread, jobs>>

\* Mutant: a constructor that fails leaves the threads it created.
CreateThreadsLeaks(c, k) ==
    LET new == 1..k
        enough == k = caller[c].count
    IN  /\ In(c, "create") /\ stage = "constructing" /\ k <= caller[c].count
        /\ pool' = [pool EXCEPT !.threads = new, !.created = k]
        /\ thread' = [t \in Threads |-> IF t \in new THEN "started" ELSE "none"]
        /\ caller' = [caller EXCEPT ![c] = IF enough THEN [@ EXCEPT !.pc = "wait"] ELSE Idle]
        /\ stage' = IF enough THEN stage ELSE "destroyed"
        /\ UNCHANGED jobs

\* createThreads(): k threads are created, enough of them or as many as could be before
\* creation threw.  The constructor that fails disposes of the pool.
CreateThreads(c, k) ==
    LET new == (pool.created + 1)..(pool.created + k)
        size == Cardinality(pool.threads)
    IN  /\ In(c, "create")
        /\ new \subseteq Threads
        /\ k = 0 \/ size + k <= caller[c].count
        /\ pool' = [pool EXCEPT !.threads = @ \cup new, !.created = @ + k]
        /\ thread' = [t \in Threads |-> IF t \in new THEN "started" ELSE thread[t]]
        /\ caller' = [caller EXCEPT ![c] =
              IF size >= @.count THEN Idle
              ELSE IF size + k = @.count THEN [@ EXCEPT !.pc = "wait"]
              ELSE IF stage = "constructing" THEN [Idle EXCEPT !.pc = "dispose"]
              ELSE Idle]
        /\ UNCHANGED <<stage, jobs>>

\* The wait for m_cvNotifyReady ends.
WaitReady(c) ==
    /\ In(c, "wait")
    /\ pool.threadsReady >= caller[c].count
    /\ caller' = [caller EXCEPT ![c] = Idle]
    /\ stage' = IF stage = "constructing" THEN "alive" ELSE stage
    /\ UNCHANGED <<pool, thread, jobs>>

-----------------------------------------------------------------------------
(* aioService()                                                            *)

\* aioService() reads m_shuttingDown and returns a reference to the service.
AioService(c) ==
    /\ stage = "alive" /\ caller[c] = Idle
    /\ ~pool.shuttingDown
    /\ "use" \in Overlaps \/ \A d \in Callers : caller[d].pc # "dispose"
    /\ jobs + Cardinality({d \in Callers : caller[d].pc = "use"}) < MaxJobs
    /\ caller' = [caller EXCEPT ![c] = [Idle EXCEPT !.pc = "use"]]
    /\ UNCHANGED <<stage, pool, thread, jobs>>

\* The caller posts a handler.
Post(c) ==
    /\ In(c, "use")
    /\ jobs' = jobs + 1
    /\ caller' = [caller EXCEPT ![c] = Idle]
    /\ UNCHANGED <<stage, pool, thread>>

-----------------------------------------------------------------------------
(* disposeInternal()                                                       *)

\* An owner calls dispose().  Nobody uses the service or disposes of the pool at the
\* same time, except as Overlaps allows.
Dispose(c) ==
    /\ stage = "alive" /\ caller[c] = Idle
    /\ \A d \in Callers :
          /\ caller[d].pc = "use" => "use" \in Overlaps
          /\ caller[d].pc \in {"dispose", "join"} => "dispose" \in Overlaps
    /\ caller' = [caller EXCEPT ![c] = [Idle EXCEPT !.pc = "dispose"]]
    /\ UNCHANGED <<stage, pool, thread, jobs>>

\* The destructor, when nobody refers to the pool.
Destroy(c) ==
    /\ stage = "alive" /\ \A d \in Callers : caller[d] = Idle
    /\ stage' = "destroying"
    /\ caller' = [caller EXCEPT ![c] = [Idle EXCEPT !.pc = "dispose"]]
    /\ UNCHANGED <<pool, thread, jobs>>

\* The first lock section: the flip of the state, and the threads are swapped out.
ShutDown(c) ==
    /\ In(c, "dispose")
    /\ pool' = [pool EXCEPT !.shuttingDown = TRUE, !.work = FALSE, !.threads = {},
                            !.service = IF @ = "none" THEN @ ELSE "stopped"]
    /\ caller' = [caller EXCEPT ![c].pc = "join", ![c].joining = pool.threads]
    /\ UNCHANGED <<stage, thread, jobs>>

\* The threads were joined; the second lock section resets the service.
JoinAndReset(c) ==
    /\ In(c, "join")
    /\ \A t \in caller[c].joining : thread[t] = "exited"
    /\ pool' = [pool EXCEPT !.service = "none"]
    /\ caller' = [caller EXCEPT ![c] = Idle]
    /\ stage' = IF stage = "alive" THEN stage ELSE "destroyed"
    /\ UNCHANGED <<thread, jobs>>

-----------------------------------------------------------------------------
ThreadStep(t) ==
    \/ EnterLoop(t) \/ Run(t) \/ RunReturns(t)
    \/ ExecuteHandler(t) \/ HandlerEnds(t) \/ HandleException(t) \/ EhCallback(t)

\* What a caller does until its call returns.
CallStep(c) ==
    \/ ReadSize(c) \/ (\E k \in 0..MaxThreads : CreateThreads(c, k)) \/ WaitReady(c)
    \/ Post(c) \/ ShutDown(c) \/ JoinAndReset(c)

Next ==
    \/ \E t \in Threads : ThreadStep(t)
    \/ \E c \in Callers :
          \/ CallStep(c)
          \/ \E n \in Threads : Resize(c, n)
          \/ AioService(c) \/ Dispose(c) \/ Destroy(c)

Spec == Init /\ [][Next]_vars

\* Threads are scheduled and handlers return, within the minute dispose() allows them;
\* nobody has to make a call.
FairSpec ==
    /\ Spec
    /\ \A t \in Threads : WF_vars(ThreadStep(t))
    /\ \A c \in Callers : WF_vars(CallStep(c))

-----------------------------------------------------------------------------
(* Properties                                                              *)

\* The types of the variables.  Every thread is counted as ready at most once.
TypeOK ==
    /\ stage \in {"constructing", "alive", "destroying", "destroyed", "terminated"}
    /\ pool \in [service: {"none", "live", "stopped"}, work: BOOLEAN, shuttingDown: BOOLEAN,
                 threadsReady: 0..pool.created, threads: SUBSET Threads, created: 0..MaxThreads]
    /\ thread \in [Threads -> {"none", "started", "again", "unlocked", "run", "handler",
                               "threw", "callback", "exited"}]
    /\ caller \in [Callers -> [pc: {"idle", "resize", "create", "wait", "use", "dispose", "join"},
                               count: 0..MaxThreads, joining: SUBSET Threads]]
    /\ jobs \in 0..MaxJobs

\* "The I/O service object is about to be destroyed, so we must neither re-create nor
\* run it here": whoever holds a reference to the service holds it while it exists,
\* a thread that resize() created during or after dispose() too.
ServiceOutlivesUse ==
    /\ \A t \in Threads : thread[t] \in {"unlocked", "run", "handler"} => pool.service # "none"
    /\ \A c \in Callers : caller[c].pc = "use" => pool.service # "none"

\* Until dispose() a constructed pool has a service with work and all its threads:
\* neither run() of the service nor an exception the callback handled ends one, and the
\* assertion of aioService() holds.
NoThreadLost ==
    stage = "alive" /\ ~pool.shuttingDown =>
        /\ pool.service = "live" /\ pool.work
        /\ pool.threads # {}
        /\ \A t \in pool.threads : thread[t] \notin {"none", "exited"}

\* "They would continue using the lock and the condition variable of the destroyed
\* object": no thread does, whether the constructor failed half way or resize() created
\* threads that dispose() did not join.
PoolOutlivesThreads ==
    stage = "destroyed" => \A t \in Threads : thread[t] \in {"none", "exited"}

\* resize() and dispose() return, resize() also when it raced with another or with
\* dispose(), unless an exception terminates the process.
CallsReturn ==
    \A c \in Callers : caller[c].pc # "idle" ~> caller[c].pc = "idle" \/ stage = "terminated"
=============================================================================
