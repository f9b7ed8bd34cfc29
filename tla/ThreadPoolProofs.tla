-------------------------- MODULE ThreadPoolProofs --------------------------
(***************************************************************************)
(* Proofs about ThreadPool, for any number of threads, handlers and        *)
(* callers, when calls do not overlap a dispose() as Overlaps would let    *)
(* them: the use the pool is made for.                                     *)
(***************************************************************************)
EXTENDS ThreadPool, FiniteSetTheorems, TLAPS

(***************************************************************************)
(* Threads that have passed the lock section of the loop and not left it.  *)
(***************************************************************************)
Entered == {"again", "unlocked", "run", "handler", "threw", "callback"}

(***************************************************************************)
(* The threads m_threadsReady counts, and the callers about to post.       *)
(***************************************************************************)
Counted == {t \in Threads : thread[t] \notin {"none", "started"}}
Users == {c \in Callers : caller[c].pc = "use"}

(***************************************************************************)
(* The counters of the pool.                                               *)
(***************************************************************************)
CountsKnown ==
    /\ \A t \in Threads : thread[t] = "none" <=> t > pool.created
    /\ pool.threadsReady = Cardinality(Counted)
    /\ jobs + Cardinality(Users) <= MaxJobs

(***************************************************************************)
(* A thread that runs is in m_threads or somebody joins it.  Those that    *)
(* resize() adds during or after dispose() do not enter the loop.          *)
(***************************************************************************)
ThreadsOwned ==
    /\ \A t \in Threads : thread[t] \notin {"none", "exited"} =>
          \/ t \in pool.threads
          \/ \E c \in Callers : caller[c].pc = "join" /\ t \in caller[c].joining
    /\ \A t \in pool.threads :
          /\ thread[t] # "none"
          /\ ~pool.shuttingDown => thread[t] # "exited"
          /\ pool.shuttingDown => thread[t] \in {"started", "exited"}

(***************************************************************************)
(* Until dispose() the service is there, with work, once a thread entered. *)
(***************************************************************************)
ServiceKnown ==
    /\ ~pool.shuttingDown => pool.service # "stopped"
    /\ ~pool.shuttingDown /\ pool.threadsReady > 0 => pool.service = "live" /\ pool.work
    /\ \A t \in Threads :
          thread[t] \in Entered => pool.threadsReady > 0

(***************************************************************************)
(* Who calls, and in which part of the life of the pool.                   *)
(***************************************************************************)
CallersKnown ==
    /\ \A c, d \in Callers :
          caller[c].pc \in {"dispose", "join"} =>
             /\ caller[d].pc # "use"
             /\ caller[d].pc \in {"dispose", "join"} => c = d
    /\ \A c \in Callers :
          /\ caller[c].pc = "join" => pool.shuttingDown
          /\ caller[c].pc \in {"resize", "create", "wait"} => caller[c].count > 0
          /\ caller[c].pc = "use" => ~pool.shuttingDown /\ pool.threadsReady > 0

StageKnown ==
    /\ stage \in {"constructing", "destroying"} =>
          /\ \A c, d \in Callers : caller[c] # Idle /\ caller[d] # Idle => c = d
          /\ \A c \in Callers :
                /\ caller[c].pc \notin {"resize", "use"}
                /\ caller[c].pc \in {"create", "wait"} =>
                      stage = "constructing" /\ ~pool.shuttingDown
                /\ caller[c].pc = "create" => pool.threads = {}
                /\ caller[c].pc = "wait" => pool.threads # {}
                /\ caller[c].pc = "join" => pool.threads = {}
    /\ stage = "alive" /\ ~pool.shuttingDown => pool.threads # {} /\ pool.threadsReady > 0
    /\ stage = "destroyed" => \A c \in Callers : caller[c] = Idle

IInv ==
    /\ TypeOK /\ CountsKnown /\ ThreadsOwned /\ ServiceKnown /\ CallersKnown /\ StageKnown
    /\ ServiceOutlivesUse /\ PoolOutlivesThreads

-----------------------------------------------------------------------------
(***************************************************************************)
(* Counting.  Threads are created in the order of their numbers, so those  *)
(* that are counted are among the first n.                                 *)
(***************************************************************************)
LEMMA CountedBound ==
    ASSUME NEW n \in 0..MaxThreads, NEW f,
           \A t \in Threads : f[t] = "none" <=> t > n
    PROVE  /\ IsFiniteSet({t \in Threads : f[t] \notin {"none", "started"}})
           /\ Cardinality({t \in Threads : f[t] \notin {"none", "started"}}) \in 0..n
<1> DEFINE S == {t \in Threads : f[t] \notin {"none", "started"}}
<1>1. IsFiniteSet(1..n) /\ Cardinality(1..n) = n
  BY BoundsAssumption, FS_Interval
<1>2. S \subseteq 1..n
  BY BoundsAssumption DEF Threads
<1>3. IsFiniteSet(S) /\ Cardinality(S) <= n
  BY <1>1, <1>2, FS_Subset
<1>4. Cardinality(S) \in Nat
  BY <1>3, FS_CardinalityType
<1> QED
  BY <1>3, <1>4, BoundsAssumption

(***************************************************************************)
(* One more thread is counted when it leaves the place where it started.   *)
(***************************************************************************)
LEMMA CountedOneMore ==
    ASSUME NEW t \in Threads, NEW S, NEW T, IsFiniteSet(S), t \notin S, T = S \cup {t}
    PROVE  Cardinality(T) = Cardinality(S) + 1
BY FS_AddElement

(***************************************************************************)
(* Callers that are about to post are finitely many.                       *)
(***************************************************************************)
LEMMA UsersFinite ==
    ASSUME NEW f
    PROVE  /\ IsFiniteSet({c \in Callers : f[c].pc = "use"})
           /\ Cardinality({c \in Callers : f[c].pc = "use"}) \in Nat
<1>1. {c \in Callers : f[c].pc = "use"} \subseteq Callers
  OBVIOUS
<1>2. IsFiniteSet({c \in Callers : f[c].pc = "use"})
  BY <1>1, CallersAssumption, FS_Subset
<1> QED
  BY <1>2, FS_CardinalityType

-----------------------------------------------------------------------------
(***************************************************************************)
(* Steps of the threads.                                                   *)
(***************************************************************************)
LEMMA EnterLoopInvariant == ASSUME IInv, NEW t \in Threads, EnterLoop(t) PROVE IInv'
<1> USE BoundsAssumption, CallersAssumption
<1> DEFINE create == ~pool.shuttingDown /\ (pool.service = "none" \/ ~pool.work)
           counted == IF thread[t] = "started" THEN 1 ELSE 0
           place == IF pool.shuttingDown THEN "exited" ELSE "unlocked"
<1>1. /\ pool.service \in {"none", "live", "stopped"} /\ pool.work \in BOOLEAN
      /\ pool.shuttingDown \in BOOLEAN /\ pool.threads \subseteq Threads
      /\ pool.created \in 0..MaxThreads /\ pool.threadsReady \in 0..pool.created
      /\ thread \in [Threads -> {"none", "started", "again", "unlocked", "run", "handler",
                               "threw", "callback", "exited"}]
  BY DEF IInv, TypeOK
<1>2. /\ thread[t] \in {"started", "again"}
      /\ thread' = [thread EXCEPT ![t] = place]
      /\ stage' = stage /\ caller' = caller /\ jobs' = jobs
  BY DEF EnterLoop, At
<1>3. /\ pool' = [pool EXCEPT !.service = IF create THEN "live" ELSE pool.service,
                              !.work = create \/ pool.work,
                              !.threadsReady = pool.threadsReady + counted]
  BY DEF EnterLoop
<1>4. /\ pool'.service = (IF create THEN "live" ELSE pool.service)
      /\ pool'.work = (create \/ pool.work)
      /\ pool'.threadsReady = pool.threadsReady + counted
      /\ pool'.shuttingDown = pool.shuttingDown
      /\ pool'.threads = pool.threads /\ pool'.created = pool.created
  BY <1>3 DEF IInv, TypeOK
<1>5. CountsKnown'
  <2>1. \A u \in Threads : thread'[u] = "none" <=> u > pool'.created
    BY <1>1, <1>2, <1>4 DEF IInv, CountsKnown
  <2>2. IsFiniteSet(Counted)
    BY <1>1, CountedBound DEF IInv, CountsKnown, Counted
  <2>3. Cardinality(Counted') = pool'.threadsReady
    <3>1. CASE thread[t] = "started"
      <4>1. t \notin Counted /\ Counted' = Counted \cup {t}
        BY <1>1, <1>2, <3>1 DEF Counted
      <4> QED
        BY <4>1, <2>2, <3>1, <1>4, CountedOneMore DEF IInv, CountsKnown
    <3>2. CASE thread[t] = "again"
      <4>1. Counted' = Counted
        BY <1>1, <1>2, <3>2 DEF Counted
      <4> QED
        BY <4>1, <3>2, <1>4, <1>1 DEF IInv, CountsKnown
    <3> QED
      BY <1>2, <3>1, <3>2
  <2> QED
    BY <2>1, <2>3, <1>2 DEF IInv, CountsKnown, Users
<1>6. pool'.threadsReady \in 0..pool'.created
  BY <1>5, <1>4, <1>1, CountedBound DEF CountsKnown, Counted
<1>7. TypeOK'
  BY <1>1, <1>2, <1>3, <1>4, <1>6 DEF IInv, TypeOK
<1>8. ThreadsOwned'
  BY <1>1, <1>2, <1>4 DEF IInv, ThreadsOwned
<1>9. ServiceKnown' /\ ServiceOutlivesUse'
  <2>1. ~pool'.shuttingDown => pool'.service = "live" /\ pool'.work
    BY <1>1, <1>4 DEF IInv, ServiceKnown
  <2>2. pool'.threadsReady > 0
    BY <1>1, <1>2, <1>4 DEF IInv, ServiceKnown, Entered
  <2>3. pool.service # "none" => pool'.service # "none"
    BY <1>4
  <2> QED
    BY <1>1, <1>2, <1>4, <2>1, <2>2, <2>3
       DEF IInv, ServiceKnown, ServiceOutlivesUse, CallersKnown
<1>10. CallersKnown' /\ StageKnown' /\ PoolOutlivesThreads'
  BY <1>1, <1>2, <1>4 DEF IInv, CallersKnown, StageKnown, PoolOutlivesThreads
<1> QED
  BY <1>5, <1>7, <1>8, <1>9, <1>10 DEF IInv

(***************************************************************************)
(* A thread that is in the loop moves on, and changes nothing else but the *)
(* handlers posted.  It leaves only when the pool is being disposed.       *)
(***************************************************************************)
LEMMA ThreadMoves ==
    ASSUME IInv, NEW t \in Threads, NEW place \in Entered \cup {"exited"},
           thread[t] \in Entered, thread' = [thread EXCEPT ![t] = place],
           place = "exited" => pool.shuttingDown,
           place \in {"unlocked", "run", "handler"} =>
              thread[t] \in {"unlocked", "run", "handler"},
           UNCHANGED <<stage, pool, caller>>, jobs' \in 0..jobs
    PROVE  IInv'
<1> USE BoundsAssumption, CallersAssumption
<1>1. /\ jobs \in 0..MaxJobs
      /\ thread \in [Threads -> {"none", "started", "again", "unlocked", "run", "handler",
                               "threw", "callback", "exited"}]
  BY DEF IInv, TypeOK
<1>2. TypeOK'
  BY <1>1 DEF IInv, TypeOK, Entered
<1>3. CountsKnown'
  <2>1. Counted' = Counted
    BY <1>1 DEF Counted, Entered
  <2>2. Cardinality(Users) \in Nat /\ Users' = Users
    BY UsersFinite DEF Users
  <2>3. jobs' + Cardinality(Users) <= MaxJobs
    BY <1>1, <2>2 DEF IInv, CountsKnown
  <2> QED
    BY <1>1, <2>1, <2>2, <2>3 DEF IInv, CountsKnown, Entered
<1>4. ThreadsOwned'
  BY <1>1 DEF IInv, ThreadsOwned, Entered
<1>5. ServiceKnown' /\ ServiceOutlivesUse'
  BY <1>1 DEF IInv, ServiceKnown, ServiceOutlivesUse, Entered
<1>6. CallersKnown' /\ StageKnown'
  BY DEF IInv, CallersKnown, StageKnown
<1>7. PoolOutlivesThreads'
  BY <1>1 DEF IInv, PoolOutlivesThreads, Entered
<1> QED
  BY <1>2, <1>3, <1>4, <1>5, <1>6, <1>7 DEF IInv

(***************************************************************************)
(* The process is terminated.                                              *)
(***************************************************************************)
LEMMA Terminates ==
    ASSUME IInv, stage' = "terminated", UNCHANGED <<pool, thread, caller, jobs>>
    PROVE  IInv'
<1>1. TypeOK' /\ StageKnown' /\ PoolOutlivesThreads'
  BY DEF IInv, TypeOK, StageKnown, PoolOutlivesThreads
<1>2. CountsKnown' /\ ThreadsOwned' /\ ServiceKnown' /\ CallersKnown'
  BY DEF IInv, CountsKnown, Counted, Users, ThreadsOwned, ServiceKnown, CallersKnown
<1>3. ServiceOutlivesUse'
  BY DEF IInv, ServiceOutlivesUse
<1> QED
  BY <1>1, <1>2, <1>3 DEF IInv

(***************************************************************************)
(* A thread in run() of the service: it leaves when the service is stopped *)
(* or has no work, which is only so once the pool is being disposed.       *)
(***************************************************************************)
LEMMA ThreadStepInvariant == ASSUME IInv, NEW t \in Threads, ThreadStep(t) PROVE IInv'
<1>1. jobs \in 0..MaxJobs /\ pool.threadsReady \in Nat
  BY BoundsAssumption DEF IInv, TypeOK
<1>2. thread[t] \in Entered /\ ~pool.shuttingDown => pool.service = "live" /\ pool.work
  BY <1>1 DEF IInv, ServiceKnown
<1>3. jobs \in 0..jobs
  BY <1>1, BoundsAssumption
<1>4. CASE EnterLoop(t)
  BY <1>4, EnterLoopInvariant
<1>5. CASE Run(t)
  <2>1. /\ thread[t] = "unlocked" /\ thread' = [thread EXCEPT ![t] = "run"]
        /\ UNCHANGED <<stage, pool, caller, jobs>>
    BY <1>5 DEF Run, At
  <2> QED
    BY <2>1, <1>3, ThreadMoves DEF Entered
<1>6. CASE RunReturns(t)
  <2>1. /\ thread[t] = "run" /\ thread' = [thread EXCEPT ![t] = "exited"]
        /\ UNCHANGED <<stage, pool, caller, jobs>>
    BY <1>6 DEF RunReturns, At
  <2>2. pool.shuttingDown
    BY <1>6, <2>1, <1>2 DEF RunReturns, Entered
  <2> QED
    BY <2>1, <2>2, <1>3, ThreadMoves DEF Entered
<1>7. CASE ExecuteHandler(t)
  <2>1. /\ thread[t] = "run" /\ thread' = [thread EXCEPT ![t] = "handler"]
        /\ UNCHANGED <<stage, pool, caller>>
        /\ jobs > 0 /\ jobs' = jobs - 1
    BY <1>7 DEF ExecuteHandler, At
  <2>2. jobs' \in 0..jobs
    BY <2>1, <1>1, BoundsAssumption
  <2> QED
    BY <2>1, <2>2, ThreadMoves DEF Entered
<1>8. CASE HandlerEnds(t)
  <2>1. PICK place \in {"run", "threw"} : thread' = [thread EXCEPT ![t] = place]
    BY <1>8 DEF HandlerEnds
  <2>2. thread[t] = "handler" /\ UNCHANGED <<stage, pool, caller, jobs>>
    BY <1>8 DEF HandlerEnds, At
  <2> QED
    BY <2>1, <2>2, <1>3, ThreadMoves DEF Entered
<1>9. CASE HandleException(t)
  <2>1. thread[t] = "threw" /\ UNCHANGED <<pool, caller, jobs>>
    BY <1>9 DEF HandleException, At
  <2>2. CASE stage' = "terminated" /\ UNCHANGED thread
    BY <2>1, <2>2, Terminates
  <2>3. CASE thread' = [thread EXCEPT ![t] = "callback"] /\ UNCHANGED stage
    BY <2>1, <2>3, <1>3, ThreadMoves DEF Entered
  <2> QED
    BY <1>9, <2>2, <2>3 DEF HandleException
<1>10. CASE EhCallback(t)
  <2>1. thread[t] = "callback" /\ UNCHANGED <<pool, caller, jobs>>
    BY <1>10 DEF EhCallback, At
  <2>2. CASE stage' = "terminated" /\ UNCHANGED thread
    BY <2>1, <2>2, Terminates
  <2>3. CASE thread' = [thread EXCEPT ![t] = "again"] /\ UNCHANGED stage
    BY <2>1, <2>3, <1>3, ThreadMoves DEF Entered
  <2> QED
    BY <1>10, <2>2, <2>3 DEF EhCallback
<1> QED
  BY <1>4, <1>5, <1>6, <1>7, <1>8, <1>9, <1>10 DEF ThreadStep

-----------------------------------------------------------------------------
(***************************************************************************)
(* Steps of the callers.                                                   *)
(***************************************************************************)
CallerType ==
    [pc: {"idle", "resize", "create", "wait", "use", "dispose", "join"},
     count: 0..MaxThreads, joining: SUBSET Threads]

LEMMA IdleTyped == Idle \in CallerType /\ Idle.pc = "idle"
BY BoundsAssumption DEF Idle, CallerType

LEMMA PlaceTyped ==
    ASSUME NEW r \in CallerType,
           NEW pc \in {"idle", "resize", "create", "wait", "use", "dispose", "join"}
    PROVE  /\ [r EXCEPT !.pc = pc] \in CallerType
           /\ [r EXCEPT !.pc = pc].pc = pc /\ [r EXCEPT !.pc = pc].count = r.count
           /\ [r EXCEPT !.pc = pc].joining = r.joining
BY DEF CallerType

LEMMA CountTyped ==
    ASSUME NEW r \in CallerType, NEW n \in 0..MaxThreads,
           NEW pc \in {"idle", "resize", "create", "wait", "use", "dispose", "join"}
    PROVE  /\ [r EXCEPT !.pc = pc, !.count = n] \in CallerType
           /\ [r EXCEPT !.pc = pc, !.count = n].pc = pc
           /\ [r EXCEPT !.pc = pc, !.count = n].count = n
BY DEF CallerType

(***************************************************************************)
(* The users that are left when a caller that is none goes on as one that  *)
(* is none.                                                                *)
(***************************************************************************)
LEMMA SameUsers ==
    ASSUME NEW f \in [Callers -> CallerType], NEW c \in Callers, NEW r,
           f[c].pc # "use", r.pc # "use"
    PROVE  {d \in Callers : [f EXCEPT ![c] = r][d].pc = "use"}
              = {d \in Callers : f[d].pc = "use"}
OBVIOUS

(***************************************************************************)
(* A caller that neither touches the pool nor joins threads.               *)
(***************************************************************************)
LEMMA CallerMoves ==
    ASSUME IInv, NEW c \in Callers, NEW r \in CallerType,
           caller' = [caller EXCEPT ![c] = r],
           caller[c].pc # "join", r.pc # "join",
           stage' \in {stage, "alive", "destroying"}, UNCHANGED <<pool, thread>>,
           jobs' \in 0..MaxJobs, jobs' + Cardinality(Users') <= MaxJobs,
           CallersKnown', StageKnown'
    PROVE  IInv'
<1> USE BoundsAssumption, CallersAssumption
<1>1. caller \in [Callers -> CallerType]
  BY DEF IInv, TypeOK, CallerType
<1>2. caller' \in [Callers -> CallerType]
  BY <1>1
<1>3. TypeOK'
  BY <1>2 DEF IInv, TypeOK, CallerType
<1>4. CountsKnown' /\ ServiceKnown'
  BY DEF IInv, CountsKnown, Counted, ServiceKnown
<1>5. ThreadsOwned'
  BY <1>1 DEF IInv, ThreadsOwned
<1>6. ServiceOutlivesUse'
  <2>1. \A d \in Callers : caller'[d].pc = "use" => pool.service # "none"
    BY DEF IInv, CallersKnown, ServiceKnown
  <2> QED
    BY <2>1 DEF IInv, ServiceOutlivesUse
<1>7. PoolOutlivesThreads'
  BY DEF IInv, PoolOutlivesThreads
<1> QED
  BY <1>3, <1>4, <1>5, <1>6, <1>7 DEF IInv

(***************************************************************************)
(* The same for one that is not about to post and will not be.             *)
(***************************************************************************)
LEMMA CallerGoesOn ==
    ASSUME IInv, NEW c \in Callers, NEW r \in CallerType,
           caller' = [caller EXCEPT ![c] = r],
           caller[c].pc \notin {"join", "use"}, r.pc \notin {"join", "use"},
           stage' \in {stage, "alive", "destroying"}, UNCHANGED <<pool, thread, jobs>>,
           CallersKnown', StageKnown'
    PROVE  IInv'
<1>1. caller \in [Callers -> CallerType] /\ jobs \in 0..MaxJobs
  BY DEF IInv, TypeOK, CallerType
<1>2. Users' = Users
  BY <1>1, SameUsers DEF Users
<1>3. jobs' + Cardinality(Users') <= MaxJobs
  BY <1>2 DEF IInv, CountsKnown
<1> QED
  BY <1>1, <1>3, CallerMoves

LEMMA ResizeInvariant ==
    ASSUME IInv, NEW c \in Callers, NEW n \in Threads, Resize(c, n)
    PROVE  IInv'
<1> DEFINE r == [Idle EXCEPT !.pc = "resize", !.count = n]
<1>1. caller \in [Callers -> CallerType]
  BY DEF IInv, TypeOK, CallerType
<1>2. /\ stage = "alive" /\ caller[c] = Idle /\ ~pool.shuttingDown
      /\ caller' = [caller EXCEPT ![c] = r]
      /\ UNCHANGED <<stage, pool, thread, jobs>>
  BY DEF Resize
<1>3. r \in CallerType /\ r.pc = "resize" /\ r.count = n /\ n > 0 /\ Idle.pc = "idle"
  <2>1. n \in 0..MaxThreads /\ n > 0
    BY BoundsAssumption DEF Threads
  <2> QED
    BY <2>1, IdleTyped, CountTyped
<1> HIDE DEF r
<1>4. CallersKnown'
  BY <1>1, <1>2, <1>3 DEF IInv, CallersKnown
<1>5. StageKnown'
  BY <1>1, <1>2, <1>3 DEF IInv, StageKnown
<1> QED
  BY <1>2, <1>3, <1>4, <1>5, CallerGoesOn

LEMMA ReadSizeInvariant ==
    ASSUME IInv, NEW c \in Callers, ReadSize(c)
    PROVE  IInv'
<1>1. caller \in [Callers -> CallerType]
  BY DEF IInv, TypeOK, CallerType
<1>2. /\ caller[c].pc = "resize" /\ stage # "terminated"
      /\ UNCHANGED <<stage, pool, thread, jobs>>
  BY DEF ReadSize, In
<1>3. PICK r \in {[caller[c] EXCEPT !.pc = "create"], Idle} :
         caller' = [caller EXCEPT ![c] = r]
  BY DEF ReadSize
<1>4. /\ r \in CallerType
      /\ \/ r = Idle
         \/ r.pc = "create" /\ r.count = caller[c].count
  <2>1. /\ [caller[c] EXCEPT !.pc = "create"] \in CallerType
        /\ [caller[c] EXCEPT !.pc = "create"].pc = "create"
        /\ [caller[c] EXCEPT !.pc = "create"].count = caller[c].count
    <3>1. caller[c] \in CallerType
      BY <1>1
    <3> QED
      BY <3>1, PlaceTyped, Zenon
  <2>2. CASE r = [caller[c] EXCEPT !.pc = "create"]
    BY <2>1, <2>2, Zenon
  <2>3. CASE r = Idle
    BY <2>3, IdleTyped
  <2> QED
    BY <2>2, <2>3, Zenon
<1>5. Idle.pc = "idle"
  BY DEF Idle
<1>6. stage \notin {"constructing", "destroying", "destroyed"}
  BY <1>2, <1>5 DEF IInv, StageKnown
<1>7. CallersKnown'
  BY <1>1, <1>2, <1>3, <1>4, <1>5 DEF IInv, CallersKnown
<1>8. StageKnown'
  BY <1>1, <1>2, <1>3, <1>4, <1>5, <1>6 DEF IInv, StageKnown
<1> QED
  BY <1>2, <1>3, <1>4, <1>5, <1>7, <1>8, CallerGoesOn

LEMMA WaitReadyInvariant ==
    ASSUME IInv, NEW c \in Callers, WaitReady(c)
    PROVE  IInv'
<1>1. caller \in [Callers -> CallerType] /\ pool.threadsReady \in Nat
  BY BoundsAssumption DEF IInv, TypeOK, CallerType
<1>2. /\ caller[c].pc = "wait" /\ stage # "terminated"
      /\ pool.threadsReady >= caller[c].count
      /\ caller' = [caller EXCEPT ![c] = Idle]
      /\ stage' = (IF stage = "constructing" THEN "alive" ELSE stage)
      /\ UNCHANGED <<pool, thread, jobs>>
  BY DEF WaitReady, In
<1>3. Idle \in CallerType /\ Idle.pc = "idle"
  BY BoundsAssumption DEF Idle, CallerType, Threads
<1>4. pool.threadsReady > 0
  BY <1>1, <1>2, BoundsAssumption DEF IInv, CallersKnown, CallerType
<1>5. CallersKnown'
  BY <1>1, <1>2, <1>3 DEF IInv, CallersKnown
<1>6. StageKnown'
  BY <1>1, <1>2, <1>3, <1>4 DEF IInv, StageKnown
<1> QED
  BY <1>2, <1>3, <1>5, <1>6, CallerGoesOn

(***************************************************************************)
(* One caller more is about to post, within the bound on the handlers.     *)
(***************************************************************************)
LEMMA AioServiceInvariant ==
    ASSUME Overlaps = {}, IInv, NEW c \in Callers, AioService(c)
    PROVE  IInv'
<1> DEFINE r == [Idle EXCEPT !.pc = "use"]
<1>1. caller \in [Callers -> CallerType] /\ jobs \in 0..MaxJobs
  BY DEF IInv, TypeOK, CallerType
<1>2. /\ stage = "alive" /\ caller[c] = Idle /\ ~pool.shuttingDown
      /\ \A d \in Callers : caller[d].pc # "dispose"
      /\ jobs + Cardinality(Users) < MaxJobs
      /\ caller' = [caller EXCEPT ![c] = r]
      /\ UNCHANGED <<stage, pool, thread, jobs>>
  BY DEF AioService, Users
<1>3. r \in CallerType /\ r.pc = "use" /\ Idle.pc = "idle"
  BY BoundsAssumption DEF Idle, CallerType, Threads
<1> HIDE DEF r
<1>4. Users' = Users \cup {c} /\ c \notin Users
  BY <1>1, <1>2, <1>3 DEF Users
<1>5. IsFiniteSet(Users) /\ Cardinality(Users) \in Nat
  BY UsersFinite DEF Users
<1>6. Cardinality(Users') = Cardinality(Users) + 1
  BY <1>4, <1>5, CountedOneMore, FS_AddElement
<1>7. jobs' + Cardinality(Users') <= MaxJobs
  BY <1>1, <1>2, <1>5, <1>6, BoundsAssumption
<1>8. CallersKnown'
  BY <1>1, <1>2, <1>3 DEF IInv, CallersKnown, StageKnown
<1>9. StageKnown'
  BY <1>1, <1>2, <1>3 DEF IInv, StageKnown
<1> QED
  BY <1>1, <1>2, <1>3, <1>7, <1>8, <1>9, CallerMoves

LEMMA PostInvariant ==
    ASSUME IInv, NEW c \in Callers, Post(c)
    PROVE  IInv'
<1>1. caller \in [Callers -> CallerType] /\ jobs \in 0..MaxJobs
  BY DEF IInv, TypeOK, CallerType
<1>2. /\ caller[c].pc = "use" /\ jobs' = jobs + 1
      /\ caller' = [caller EXCEPT ![c] = Idle]
      /\ UNCHANGED <<stage, pool, thread>>
  BY DEF Post, In
<1>3. Idle \in CallerType /\ Idle.pc = "idle"
  BY BoundsAssumption DEF Idle, CallerType, Threads
<1>4. Users' = Users \ {c} /\ c \in Users
  BY <1>1, <1>2, <1>3 DEF Users
<1>5. IsFiniteSet(Users) /\ Cardinality(Users) \in Nat
  BY UsersFinite DEF Users
<1>6. Cardinality(Users') = Cardinality(Users) - 1 /\ Cardinality(Users') \in Nat
  BY <1>4, <1>5, FS_RemoveElement, UsersFinite DEF Users
<1>7. jobs' \in 0..MaxJobs /\ jobs' + Cardinality(Users') <= MaxJobs
  BY <1>1, <1>2, <1>5, <1>6, BoundsAssumption DEF IInv, CountsKnown
<1>8. CallersKnown'
  BY <1>1, <1>2, <1>3 DEF IInv, CallersKnown
<1>9. StageKnown'
  BY <1>1, <1>2, <1>3 DEF IInv, StageKnown
<1> QED
  BY <1>2, <1>3, <1>7, <1>8, <1>9, CallerMoves

LEMMA DisposeInvariant ==
    ASSUME Overlaps = {}, IInv, NEW c \in Callers, Dispose(c)
    PROVE  IInv'
<1> DEFINE r == [Idle EXCEPT !.pc = "dispose"]
<1>1. caller \in [Callers -> CallerType]
  BY DEF IInv, TypeOK, CallerType
<1>2. /\ stage = "alive" /\ caller[c] = Idle
      /\ \A d \in Callers : caller[d].pc \notin {"use", "dispose", "join"}
      /\ caller' = [caller EXCEPT ![c] = r]
      /\ UNCHANGED <<stage, pool, thread, jobs>>
  BY DEF Dispose
<1>3. r \in CallerType /\ r.pc = "dispose" /\ Idle.pc = "idle"
  BY IdleTyped, PlaceTyped
<1> HIDE DEF r
<1>4. CallersKnown'
  BY <1>1, <1>2, <1>3 DEF IInv, CallersKnown
<1>5. StageKnown'
  BY <1>1, <1>2, <1>3 DEF IInv, StageKnown
<1> QED
  BY <1>2, <1>3, <1>4, <1>5, CallerGoesOn

LEMMA DestroyInvariant ==
    ASSUME IInv, NEW c \in Callers, Destroy(c)
    PROVE  IInv'
<1> DEFINE r == [Idle EXCEPT !.pc = "dispose"]
<1>1. caller \in [Callers -> CallerType]
  BY DEF IInv, TypeOK, CallerType
<1>2. /\ stage = "alive" /\ \A d \in Callers : caller[d] = Idle
      /\ stage' = "destroying"
      /\ caller' = [caller EXCEPT ![c] = r]
      /\ UNCHANGED <<pool, thread, jobs>>
  BY DEF Destroy
<1>3. r \in CallerType /\ r.pc = "dispose" /\ Idle.pc = "idle"
  BY IdleTyped, PlaceTyped
<1> HIDE DEF r
<1>4. CallersKnown'
  BY <1>1, <1>2, <1>3 DEF IInv, CallersKnown
<1>5. StageKnown'
  BY <1>1, <1>2, <1>3 DEF IInv, StageKnown
<1> QED
  BY <1>2, <1>3, <1>4, <1>5, CallerGoesOn

(***************************************************************************)
(* The flip of the state: the threads of the pool become those that the    *)
(* caller joins.                                                           *)
(***************************************************************************)
LEMMA ShutDownInvariant ==
    ASSUME IInv, NEW c \in Callers, ShutDown(c)
    PROVE  IInv'
<1> USE BoundsAssumption, CallersAssumption
<1> DEFINE r == [[caller[c] EXCEPT !.pc = "join"] EXCEPT !.joining = pool.threads]
           service == IF pool.service = "none" THEN "none" ELSE "stopped"
<1>1. /\ caller \in [Callers -> CallerType] /\ caller[c] \in CallerType
      /\ jobs \in 0..MaxJobs /\ pool.threads \subseteq Threads
      /\ pool.service \in {"none", "live", "stopped"}
  BY DEF IInv, TypeOK, CallerType
<1>2. /\ stage # "terminated" /\ caller[c].pc = "dispose"
      /\ caller' = [caller EXCEPT ![c].pc = "join", ![c].joining = pool.threads]
      /\ UNCHANGED <<stage, thread, jobs>>
  BY DEF ShutDown, In
<1>3. /\ pool' = [pool EXCEPT !.shuttingDown = TRUE, !.work = FALSE, !.threads = {},
                              !.service = service]
  BY DEF ShutDown
<1>4. /\ pool'.shuttingDown = TRUE /\ pool'.threads = {} /\ pool'.service = service
      /\ pool'.created = pool.created /\ pool'.threadsReady = pool.threadsReady
  BY <1>3 DEF IInv, TypeOK
<1>5. /\ caller' \in [Callers -> CallerType]
      /\ caller'[c].pc = "join" /\ caller'[c].joining = pool.threads
      /\ \A d \in Callers : d # c => caller'[d] = caller[d]
  BY <1>1, <1>2 DEF CallerType
<1>6. TypeOK'
  <2>1. pool' \in [service: {"none", "live", "stopped"}, work: BOOLEAN,
                   shuttingDown: BOOLEAN, threadsReady: 0..pool'.created,
                   threads: SUBSET Threads, created: 0..MaxThreads]
    BY <1>1, <1>3, <1>4 DEF IInv, TypeOK
  <2> QED
    BY <1>2, <1>5, <2>1 DEF IInv, TypeOK, CallerType
<1>7. CountsKnown'
  <2>1. Counted' = Counted /\ Users' = Users
    BY <1>2, <1>5 DEF Counted, Users
  <2> QED
    BY <1>2, <1>4, <2>1 DEF IInv, CountsKnown
<1>8. ThreadsOwned'
  BY <1>1, <1>2, <1>4, <1>5 DEF IInv, ThreadsOwned
<1>9. ServiceKnown' /\ ServiceOutlivesUse'
  BY <1>1, <1>2, <1>4, <1>5 DEF IInv, ServiceKnown, ServiceOutlivesUse
<1>10. CallersKnown'
  BY <1>1, <1>2, <1>4, <1>5 DEF IInv, CallersKnown
<1>11. StageKnown'
  <2>1. Idle.pc = "idle"
    BY IdleTyped
  <2> QED
    BY <1>1, <1>2, <1>4, <1>5, <2>1 DEF IInv, StageKnown
<1>12. PoolOutlivesThreads'
  BY <1>2 DEF IInv, PoolOutlivesThreads
<1> QED
  BY <1>6, <1>7, <1>8, <1>9, <1>10, <1>11, <1>12 DEF IInv

(***************************************************************************)
(* When the threads are joined nobody is left who uses the service: nobody *)
(* else joins, and the threads created since do not enter the loop.  When  *)
(* the pool is destroyed there are no such threads.                        *)
(***************************************************************************)
LEMMA JoinAndResetInvariant ==
    ASSUME IInv, NEW c \in Callers, JoinAndReset(c)
    PROVE  IInv'
<1> USE BoundsAssumption, CallersAssumption
<1>1. /\ caller \in [Callers -> CallerType] /\ jobs \in 0..MaxJobs
      /\ stage \in {"constructing", "alive", "destroying", "destroyed", "terminated"}
  BY DEF IInv, TypeOK, CallerType
<1>2. /\ stage # "terminated" /\ caller[c].pc = "join"
      /\ \A t \in caller[c].joining : thread[t] = "exited"
      /\ caller' = [caller EXCEPT ![c] = Idle]
      /\ stage' = (IF stage = "alive" THEN stage ELSE "destroyed")
      /\ pool' = [pool EXCEPT !.service = "none"]
      /\ UNCHANGED <<thread, jobs>>
  BY DEF JoinAndReset, In
<1>3. /\ pool'.shuttingDown = pool.shuttingDown /\ pool'.threads = pool.threads
      /\ pool'.service = "none" /\ pool'.work = pool.work
      /\ pool'.created = pool.created /\ pool'.threadsReady = pool.threadsReady
  BY <1>2 DEF IInv, TypeOK
<1>4. /\ caller' \in [Callers -> CallerType] /\ caller'[c] = Idle
      /\ \A d \in Callers : d # c => caller'[d] = caller[d]
  BY <1>1, <1>2, IdleTyped
<1>5. /\ pool.shuttingDown
      /\ \A d \in Callers : caller[d].pc # "use"
      /\ \A d \in Callers : caller[d].pc = "join" => d = c
  BY <1>2 DEF IInv, CallersKnown
<1>6. \A t \in Threads :
         thread[t] \notin {"none", "exited"} => t \in pool.threads /\ thread[t] = "started"
  BY <1>2, <1>5 DEF IInv, ThreadsOwned
<1>7. TypeOK'
  <2>1. pool' \in [service: {"none", "live", "stopped"}, work: BOOLEAN,
                   shuttingDown: BOOLEAN, threadsReady: 0..pool'.created,
                   threads: SUBSET Threads, created: 0..MaxThreads]
    BY <1>2, <1>3 DEF IInv, TypeOK
  <2> QED
    BY <1>2, <1>4, <2>1 DEF IInv, TypeOK, CallerType
<1>8. CountsKnown'
  <2>1. Counted' = Counted /\ Users' = Users
    BY <1>2, <1>4, <1>5, IdleTyped DEF Counted, Users
  <2> QED
    BY <1>2, <1>3, <2>1 DEF IInv, CountsKnown
<1>9. ThreadsOwned'
  BY <1>2, <1>3, <1>6 DEF IInv, ThreadsOwned
<1>10. ServiceKnown'
  BY <1>2, <1>3, <1>5 DEF IInv, ServiceKnown
<1>11. ServiceOutlivesUse'
  BY <1>2, <1>4, <1>5, <1>6, IdleTyped DEF ServiceOutlivesUse
<1>12. CallersKnown'
  BY <1>1, <1>2, <1>3, <1>4, IdleTyped DEF IInv, CallersKnown
<1>13. CASE stage = "alive"
  <2>1. stage' = "alive"
    BY <1>2, <1>13
  <2>2. StageKnown' /\ PoolOutlivesThreads'
    BY <2>1, <1>3, <1>5 DEF StageKnown, PoolOutlivesThreads
  <2> QED
    BY <2>2, <1>7, <1>8, <1>9, <1>10, <1>11, <1>12 DEF IInv
<1>14. CASE stage # "alive"
  <2>1. stage \in {"constructing", "destroying"} /\ stage' = "destroyed"
    BY <1>1, <1>2, <1>14, IdleTyped DEF IInv, StageKnown
  <2>2. pool.threads = {} /\ \A d \in Callers : caller'[d] = Idle
    BY <2>1, <1>2, <1>4, IdleTyped DEF IInv, StageKnown
  <2>3. StageKnown'
    BY <2>1, <2>2 DEF StageKnown
  <2>4. PoolOutlivesThreads'
    BY <2>2, <1>2, <1>6 DEF PoolOutlivesThreads
  <2> QED
    BY <2>3, <2>4, <1>7, <1>8, <1>9, <1>10, <1>11, <1>12 DEF IInv
<1> QED
  BY <1>13, <1>14

(***************************************************************************)
(* New threads have not been counted and are in m_threads.  Only a         *)
(* constructor that fails goes on to dispose of the pool.                  *)
(***************************************************************************)
LEMMA CreateThreadsInvariant ==
    ASSUME IInv, NEW c \in Callers, NEW k \in 0..MaxThreads, CreateThreads(c, k)
    PROVE  IInv'
<1> USE BoundsAssumption, CallersAssumption
<1> DEFINE new == (pool.created + 1)..(pool.created + k)
           size == Cardinality(pool.threads)
           waits == [caller[c] EXCEPT !.pc = "wait"]
           disposes == [Idle EXCEPT !.pc = "dispose"]
           next == IF size >= caller[c].count THEN Idle
                   ELSE IF size + k = caller[c].count THEN waits
                   ELSE IF stage = "constructing" THEN disposes
                   ELSE Idle
<1>1. /\ caller \in [Callers -> CallerType] /\ caller[c] \in CallerType
      /\ stage \in {"constructing", "alive", "destroying", "destroyed", "terminated"}
      /\ pool.created \in 0..MaxThreads /\ pool.threads \subseteq Threads
      /\ caller[c].count \in 0..MaxThreads /\ jobs \in 0..MaxJobs
      /\ thread \in [Threads -> {"none", "started", "again", "unlocked", "run", "handler",
                               "threw", "callback", "exited"}]
  BY DEF IInv, TypeOK, CallerType
<1>2. /\ stage # "terminated" /\ caller[c].pc = "create" /\ new \subseteq Threads
      /\ pool' = [pool EXCEPT !.threads = pool.threads \cup new, !.created = pool.created + k]
      /\ thread' = [t \in Threads |-> IF t \in new THEN "started" ELSE thread[t]]
      /\ caller' = [caller EXCEPT ![c] = next]
      /\ UNCHANGED <<stage, jobs>>
  BY DEF CreateThreads, In
<1>3. /\ pool'.shuttingDown = pool.shuttingDown /\ pool'.threads = pool.threads \cup new
      /\ pool'.service = pool.service /\ pool'.work = pool.work
      /\ pool'.created = pool.created + k /\ pool'.threadsReady = pool.threadsReady
  BY <1>2 DEF IInv, TypeOK
<1>4. stage \in {"constructing", "alive"} /\ caller[c].count > 0
  BY <1>1, <1>2, IdleTyped DEF IInv, StageKnown, CallersKnown
<1>5. stage = "constructing" => size = 0
  BY <1>2, <1>4, FS_EmptySet DEF IInv, StageKnown
<1>6. waits \in CallerType /\ waits.pc = "wait" /\ waits.count = caller[c].count
  BY <1>1, PlaceTyped, Zenon
<1>7. disposes \in CallerType /\ disposes.pc = "dispose"
  BY IdleTyped, PlaceTyped, Zenon
<1>8. PICK r \in CallerType :
         /\ caller' = [caller EXCEPT ![c] = r]
         /\ \/ r = Idle /\ stage = "alive"
            \/ /\ r.pc = "wait" /\ r.count = caller[c].count
               /\ stage = "constructing" => k > 0
            \/ r.pc = "dispose" /\ stage = "constructing"
  <2> HIDE DEF waits, disposes, size
  <2>1. CASE size >= caller[c].count
    <3>1. stage # "constructing"
      BY <1>1, <1>4, <1>5, <2>1
    <3>2. next = Idle
      BY <2>1
    <3> QED
      BY <1>2, <1>4, <3>1, <3>2, IdleTyped
  <2>2. CASE ~(size >= caller[c].count) /\ size + k = caller[c].count
    <3>1. stage = "constructing" => k > 0
      BY <1>4, <1>5, <2>2
    <3>2. next = waits
      BY <2>2
    <3> QED
      BY <1>2, <1>6, <3>1, <3>2
  <2>3. CASE ~(size >= caller[c].count) /\ size + k # caller[c].count
    <3>1. next = IF stage = "constructing" THEN disposes ELSE Idle
      BY <2>3
    <3> QED
      BY <1>2, <1>4, <1>7, <3>1, IdleTyped
  <2> QED
    BY <2>1, <2>2, <2>3
<1> HIDE DEF next, waits, disposes, size
<1>9. /\ caller' \in [Callers -> CallerType] /\ caller'[c] = r
      /\ \A d \in Callers : d # c => caller'[d] = caller[d]
  BY <1>1, <1>8
<1>10. pool.created + k \in 0..MaxThreads
  <2>1. CASE k = 0
    BY <1>1, <2>1
  <2>2. CASE k > 0
    <3>1. pool.created + k \in new
      BY <1>1, <2>2
    <3> QED
      BY <1>2, <3>1 DEF Threads
  <2> QED
    BY <2>1, <2>2
<1>11. \A t \in Threads :
          /\ t \in new => thread[t] = "none" /\ thread'[t] = "started"
          /\ t \notin new => thread'[t] = thread[t]
  BY <1>1, <1>2 DEF IInv, CountsKnown, Threads
<1>12. TypeOK'
  <2>1. pool' \in [service: {"none", "live", "stopped"}, work: BOOLEAN,
                   shuttingDown: BOOLEAN, threadsReady: 0..pool'.created,
                   threads: SUBSET Threads, created: 0..MaxThreads]
    <3>1. pool.threads \cup new \in SUBSET Threads
      BY <1>1, <1>2
    <3>2. pool.threadsReady \in 0..(pool.created + k)
      BY <1>1 DEF IInv, TypeOK
    <3> HIDE DEF new
    <3> QED
      BY <1>2, <1>3, <1>10, <3>1, <3>2 DEF IInv, TypeOK
  <2> QED
    BY <1>1, <1>2, <1>9, <2>1 DEF TypeOK, CallerType
<1>13. CountsKnown'
  <2>1. Counted' = Counted
    BY <1>11 DEF Counted
  <2>2. Users' = Users
    BY <1>2, <1>8, <1>9, IdleTyped DEF Users
  <2>3. \A t \in Threads : thread'[t] = "none" <=> t > pool'.created
    BY <1>1, <1>3, <1>11 DEF IInv, CountsKnown, Threads
  <2> QED
    BY <1>2, <1>3, <2>1, <2>2, <2>3 DEF IInv, CountsKnown
<1>14. ThreadsOwned'
  <2>1. \A t \in Threads : thread'[t] \notin {"none", "exited"} =>
           \/ t \in pool'.threads
           \/ \E d \in Callers : caller'[d].pc = "join" /\ t \in caller'[d].joining
    BY <1>2, <1>3, <1>9, <1>11 DEF IInv, ThreadsOwned
  <2>2. \A t \in pool'.threads :
           /\ thread'[t] # "none"
           /\ ~pool'.shuttingDown => thread'[t] # "exited"
           /\ pool'.shuttingDown => thread'[t] \in {"started", "exited"}
    BY <1>1, <1>2, <1>3, <1>11 DEF IInv, ThreadsOwned
  <2> QED
    BY <2>1, <2>2 DEF ThreadsOwned
<1>15. ServiceKnown' /\ ServiceOutlivesUse'
  BY <1>3, <1>8, <1>9, <1>11, IdleTyped
     DEF IInv, ServiceKnown, ServiceOutlivesUse, Entered
<1>16. CallersKnown'
  BY <1>1, <1>2, <1>3, <1>4, <1>8, <1>9, IdleTyped DEF IInv, CallersKnown, StageKnown
<1>17. StageKnown'
  <2>1. k > 0 => pool'.threads # {}
    BY <1>1, <1>3
  <2>2. pool.threads # {} => pool'.threads # {}
    BY <1>3
  <2> QED
    BY <1>1, <1>2, <1>3, <1>4, <1>8, <1>9, <2>1, <2>2, IdleTyped DEF IInv, StageKnown
<1>18. PoolOutlivesThreads'
  BY <1>2, <1>4 DEF PoolOutlivesThreads
<1> QED
  BY <1>12, <1>13, <1>14, <1>15, <1>16, <1>17, <1>18 DEF IInv

-----------------------------------------------------------------------------
(***************************************************************************)
(* Before the constructor has created a thread.                            *)
(***************************************************************************)
LEMMA InitInvariant == Init => IInv
<1> SUFFICES ASSUME Init PROVE IInv
  OBVIOUS
<1>1. PICK c \in Callers, n \in Threads :
         caller = [d \in Callers |->
                     IF d = c THEN [Idle EXCEPT !.pc = "create", !.count = n] ELSE Idle]
  BY DEF Init
<1> DEFINE r == [Idle EXCEPT !.pc = "create", !.count = n]
<1>2. n \in 0..MaxThreads /\ n > 0
  BY BoundsAssumption DEF Threads
<1>3. r \in CallerType /\ r.pc = "create" /\ r.count = n
  <2>1. n \in 0..MaxThreads
    BY <1>2
  <2> QED
    BY <2>1, IdleTyped, CountTyped, Zenon
<1> HIDE DEF r
<1>4. /\ caller \in [Callers -> CallerType]
      /\ \A d \in Callers : caller[d] = IF d = c THEN r ELSE Idle
  BY <1>1, <1>3, IdleTyped DEF r
<1>5. /\ stage = "constructing" /\ thread = [t \in Threads |-> "none"] /\ jobs = 0
      /\ pool = [service |-> "none", work |-> FALSE, shuttingDown |-> FALSE,
                 threadsReady |-> 0, threads |-> {}, created |-> 0]
  BY DEF Init
<1>6. TypeOK
  BY <1>4, <1>5, BoundsAssumption DEF TypeOK, CallerType
<1>7. CountsKnown
  <2>1. Counted = {} /\ Users = {}
    BY <1>3, <1>4, <1>5, IdleTyped DEF Counted, Users
  <2> QED
    BY <1>5, <2>1, FS_EmptySet, BoundsAssumption DEF CountsKnown, Threads
<1>8. ThreadsOwned /\ ServiceKnown /\ PoolOutlivesThreads
  BY <1>5 DEF ThreadsOwned, ServiceKnown, PoolOutlivesThreads, Entered
<1>9. CallersKnown /\ StageKnown /\ ServiceOutlivesUse
  BY <1>2, <1>3, <1>4, <1>5, IdleTyped DEF CallersKnown, StageKnown, ServiceOutlivesUse
<1> QED
  BY <1>6, <1>7, <1>8, <1>9 DEF IInv

(***************************************************************************)
(* Every step keeps the invariant.                                         *)
(***************************************************************************)
LEMMA NextInvariant == ASSUME Overlaps = {}, IInv, [Next]_vars PROVE IInv'
<1>1. CASE \E t \in Threads : ThreadStep(t)
  BY <1>1, ThreadStepInvariant
<1>2. CASE \E c \in Callers : CallStep(c)
  <2>1. PICK c \in Callers : CallStep(c)
    BY <1>2
  <2> QED
    BY <2>1, ReadSizeInvariant, CreateThreadsInvariant, WaitReadyInvariant, PostInvariant,
       ShutDownInvariant, JoinAndResetInvariant DEF CallStep
<1>3. CASE \E c \in Callers :
              \/ \E n \in Threads : Resize(c, n)
              \/ AioService(c) \/ Dispose(c) \/ Destroy(c)
  BY <1>3, ResizeInvariant, AioServiceInvariant, DisposeInvariant, DestroyInvariant
<1>4. CASE UNCHANGED vars
  <2> USE <1>4 DEF vars
  <2>1. TypeOK' /\ CountsKnown' /\ ThreadsOwned' /\ ServiceKnown'
    BY DEF IInv, TypeOK, CountsKnown, Counted, Users, ThreadsOwned, ServiceKnown
  <2>2. CallersKnown' /\ StageKnown' /\ ServiceOutlivesUse' /\ PoolOutlivesThreads'
    BY DEF IInv, CallersKnown, StageKnown, ServiceOutlivesUse, PoolOutlivesThreads
  <2> QED
    BY <2>1, <2>2 DEF IInv
<1> QED
  BY <1>1, <1>2, <1>3, <1>4 DEF Next

(***************************************************************************)
(* The invariant holds in every state of a pool that is not used while it  *)
(* is being disposed.                                                      *)
(***************************************************************************)
THEOREM Invariant == ASSUME Overlaps = {} PROVE Spec => []IInv
<1>1. Init => IInv
  BY InitInvariant
<1>2. IInv /\ [Next]_vars => IInv'
  BY NextInvariant
<1> QED
  BY <1>1, <1>2, PTL DEF Spec

-----------------------------------------------------------------------------
(***************************************************************************)
(* createThreads(): every thread is counted once, so m_threadsReady, which *)
(* it waits for, never runs ahead of the threads that were created.        *)
(***************************************************************************)
THEOREM TypeCorrect == ASSUME Overlaps = {} PROVE Spec => []TypeOK
<1>1. IInv => TypeOK
  BY DEF IInv
<1> QED
  BY <1>1, Invariant, PTL

(***************************************************************************)
(* disposeInternal() resets the I/O service when no thread runs it and     *)
(* nobody holds a reference to it.                                         *)
(***************************************************************************)
THEOREM ServiceIsSafe == ASSUME Overlaps = {} PROVE Spec => []ServiceOutlivesUse
<1>1. IInv => ServiceOutlivesUse
  BY DEF IInv
<1> QED
  BY <1>1, Invariant, PTL

(***************************************************************************)
(* run() goes on after exceptions that were handled and does not run out   *)
(* of work: until dispose() the pool keeps its service and its threads.    *)
(***************************************************************************)
THEOREM ThreadsStay == ASSUME Overlaps = {} PROVE Spec => []NoThreadLost
<1>1. IInv => NoThreadLost
  BY DEF IInv, StageKnown, ServiceKnown, ThreadsOwned, NoThreadLost
<1> QED
  BY <1>1, Invariant, PTL

(***************************************************************************)
(* The destructor and the constructor that fails leave no thread behind    *)
(* that would use the lock of the pool.                                    *)
(***************************************************************************)
THEOREM PoolIsSafe == ASSUME Overlaps = {} PROVE Spec => []PoolOutlivesThreads
<1>1. IInv => PoolOutlivesThreads
  BY DEF IInv
<1> QED
  BY <1>1, Invariant, PTL
=============================================================================
