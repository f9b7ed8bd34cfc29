--------------------- MODULE ExecutionQueueOrderProofs ---------------------
(***************************************************************************)
(* More proofs about ExecutionQueue: when tasks start (the limits, and the *)
(* order of the pending queue), and what observers are told (serialized    *)
(* callbacks, the final AllTasksCompleted).  They rest on the invariant    *)
(* and on the lemmas of ExecutionQueueProofs.                              *)
(***************************************************************************)
EXTENDS ExecutionQueueProofs

-----------------------------------------------------------------------------
(***************************************************************************)
(* When tasks start.  The lock sections of the code change the queue in    *)
(* several steps; the relations below say what each step does to the order *)
(* of the pending tasks, and compose.                                      *)
(***************************************************************************)

\* Task t is somewhere before task u in the pending queue.
Ahead(Q, t, u) ==
    \E i, j \in 1..Len(Q.pending) : i < j /\ Q.pending[i] = t /\ Q.pending[j] = u

\* What ThrottleRespected and NoOvertaking ask of a lock section from Q to R.
Respects(Q, R) ==
    /\ Scheduled(Q, R) # {} => WithinLimits(R)
    /\ \A t, u \in Tasks : Ahead(Q, t, u) /\ R.owner[u] = "Executing"
                              => R.owner[t] # "Pending"

\* A step that adds nothing to the pending queue, starts a prefix of it, keeps the
\* order of the rest, and starts tasks within the limits only.
Orderly(Q, R) ==
    /\ \A t \in Tasks : R.owner[t] = "Pending" => Q.owner[t] = "Pending"
    /\ \A t \in Tasks : R.owner[t] = "Executing" => Q.owner[t] \in {"Pending", "Executing"}
    /\ \A t, u \in Tasks : Ahead(Q, t, u) =>
          /\ R.owner[u] = "Executing" => R.owner[t] # "Pending"
          /\ R.owner[t] = "Pending" /\ R.owner[u] = "Pending" => Ahead(R, t, u)
    /\ WithinLimits(Q) \/ Scheduled(Q, R) # {} => WithinLimits(R)

\* A step before the padding: it starts nothing and keeps the pending tasks in order.
Prepared(Q, R) ==
    /\ \A t \in Tasks : R.owner[t] = "Executing" => Q.owner[t] = "Executing"
    /\ \A t, u \in Tasks : Ahead(Q, t, u) => Ahead(R, t, u)

\* A step after the padding: no task starts or becomes pending.
Calm(Q, R) ==
    /\ \A t \in Tasks : /\ R.owner[t] = "Executing" => Q.owner[t] = "Executing"
                        /\ R.owner[t] = "Pending" => Q.owner[t] = "Pending"
    /\ WithinLimits(Q) => WithinLimits(R)

(***************************************************************************)
(* Tasks that one is ahead of the other are pending.                       *)
(***************************************************************************)
LEMMA AheadPending ==
    ASSUME NEW Q, QOK(Q), NEW t \in Tasks, NEW u \in Tasks, Ahead(Q, t, u)
    PROVE  Q.owner[t] = "Pending" /\ Q.owner[u] = "Pending"
<1>1. IsIn(Q.pending, t) /\ IsIn(Q.pending, u)
  BY DEF Ahead, IsIn
<1>2. ListHolds(Q.pending, Q.owner, "Pending")
  BY QOKFields
<1> QED BY <1>1, <1>2 DEF ListHolds

(***************************************************************************)
(* Two orderly steps in a row are orderly.                                 *)
(***************************************************************************)
LEMMA OrderlyTransitive ==
    ASSUME NEW Q, NEW R, NEW S, Orderly(Q, R), Orderly(R, S)
    PROVE  Orderly(Q, S)
<1>1. ASSUME NEW t \in Tasks
      PROVE  /\ S.owner[t] = "Pending" => Q.owner[t] = "Pending"
             /\ S.owner[t] = "Executing" => Q.owner[t] \in {"Pending", "Executing"}
  BY DEF Orderly
<1>2. ASSUME NEW t \in Tasks, NEW u \in Tasks, Ahead(Q, t, u)
      PROVE  /\ S.owner[u] = "Executing" => S.owner[t] # "Pending"
             /\ S.owner[t] = "Pending" /\ S.owner[u] = "Pending" => Ahead(S, t, u)
  <2>1. /\ R.owner[u] = "Executing" => R.owner[t] # "Pending"
        /\ R.owner[t] = "Pending" /\ R.owner[u] = "Pending" => Ahead(R, t, u)
    BY <1>2 DEF Orderly
  <2>2. /\ S.owner[t] = "Pending" => R.owner[t] = "Pending"
        /\ S.owner[u] = "Pending" => R.owner[u] = "Pending"
        /\ S.owner[u] = "Executing" => R.owner[u] \in {"Pending", "Executing"}
    BY DEF Orderly
  <2>3. Ahead(R, t, u) =>
          /\ S.owner[u] = "Executing" => S.owner[t] # "Pending"
          /\ S.owner[t] = "Pending" /\ S.owner[u] = "Pending" => Ahead(S, t, u)
    BY DEF Orderly
  <2> QED BY <2>1, <2>2, <2>3
<1>3. WithinLimits(Q) \/ Scheduled(Q, S) # {} => WithinLimits(S)
  <2>1. Scheduled(Q, S) # {} => Scheduled(Q, R) # {} \/ Scheduled(R, S) # {}
    BY DEF Scheduled
  <2> QED BY <2>1 DEF Orderly
<1> QED BY <1>1, <1>2, <1>3 DEF Orderly

(***************************************************************************)
(* A section that prepares the queue and pads it starts tasks as it ought. *)
(***************************************************************************)
LEMMA PreparedRespects ==
    ASSUME NEW Q, NEW R, NEW S, Prepared(Q, R), Orderly(R, S)
    PROVE  Respects(Q, S)
<1>1. Scheduled(Q, S) # {} => Scheduled(R, S) # {}
  BY DEF Scheduled, Prepared
<1>2. Scheduled(Q, S) # {} => WithinLimits(S)
  BY <1>1 DEF Orderly
<1>3. \A t, u \in Tasks : Ahead(Q, t, u) /\ S.owner[u] = "Executing" => S.owner[t] # "Pending"
  BY DEF Orderly, Prepared
<1> QED BY <1>2, <1>3 DEF Respects

(***************************************************************************)
(* A section that ends with a calm step.                                   *)
(***************************************************************************)
LEMMA CalmRespects ==
    ASSUME NEW Q, NEW R, NEW S, Respects(Q, R), Calm(R, S)
    PROVE  Respects(Q, S)
<1>1. Scheduled(Q, S) # {} => Scheduled(Q, R) # {}
  BY DEF Scheduled, Calm
<1>2. Scheduled(Q, S) # {} => WithinLimits(S)
  BY <1>1 DEF Respects, Calm
<1>3. \A t, u \in Tasks : Ahead(Q, t, u) /\ S.owner[u] = "Executing" => S.owner[t] # "Pending"
  BY DEF Respects, Calm
<1> QED BY <1>2, <1>3 DEF Respects

(***************************************************************************)
(* A section that starts no task.                                          *)
(***************************************************************************)
LEMMA NothingStarted ==
    ASSUME NEW Q, QOK(Q), NEW R,
           \A t \in Tasks : R.owner[t] = "Executing" => Q.owner[t] = "Executing"
    PROVE  Respects(Q, R)
<1>1. Scheduled(Q, R) = {}
  BY DEF Scheduled
<1>2. ASSUME NEW t \in Tasks, NEW u \in Tasks, Ahead(Q, t, u) PROVE R.owner[u] # "Executing"
  BY <1>2, AheadPending
<1> QED BY <1>1, <1>2 DEF Respects

(***************************************************************************)
(* The limits, when the lists they count do not grow.                      *)
(***************************************************************************)
LEMMA LimitsKept ==
    ASSUME NEW Q, NEW R, QOK(Q), QOK(R), R.maxExecuting = Q.maxExecuting,
           R.maxReadyOrExecuting = Q.maxReadyOrExecuting,
           R.executingCount <= Q.executingCount,
           R.readyCount + R.executingCount <= Q.readyCount + Q.executingCount
    PROVE  WithinLimits(Q) => WithinLimits(R)
<1>1. /\ Q.executingCount \in Nat /\ Q.readyCount \in Nat
      /\ Q.executingCount = Len(Q.executing) /\ Q.readyCount = Len(Q.ready)
      /\ R.executingCount \in Nat /\ R.readyCount \in Nat
      /\ R.executingCount = Len(R.executing) /\ R.readyCount = Len(R.ready)
      /\ Q.maxExecuting \in Nat /\ Q.maxReadyOrExecuting \in Nat
  BY QOKFields
<1>2. /\ R.executingCount <= Q.executingCount
      /\ R.readyCount + R.executingCount <= Q.readyCount + Q.executingCount
  OBVIOUS
<1> DEFINE a == Q.executingCount
           b == Q.readyCount
           c == R.executingCount
           d == R.readyCount
           m == Q.maxExecuting
           k == Q.maxReadyOrExecuting
<1>3. /\ a \in Nat /\ b \in Nat /\ c \in Nat /\ d \in Nat /\ m \in Nat /\ k \in Nat
      /\ c <= a /\ d + c <= b + a
  BY <1>1, <1>2
<1>4. /\ WithinLimits(Q) <=> (m # 0 => a <= m) /\ (k # 0 => b + a <= k)
      /\ WithinLimits(R) <=> (m # 0 => c <= m) /\ (k # 0 => d + c <= k)
  BY <1>1 DEF WithinLimits
<1> HIDE DEF a, b, c, d, m, k
<1> QED BY <1>3, <1>4

(***************************************************************************)
(* padExecutingQueueNothrow() starts a prefix of the pending queue, as     *)
(* long as neither limit is reached.                                       *)
(***************************************************************************)
LEMMA PadOrderly ==
    ASSUME NEW Q, QOK(Q)
    PROVE  Orderly(Q, PadExecutingQueue(Q))
<1> DEFINE R == PadExecutingQueue(Q)
<1>1. PICK s \in Seq(Tasks) : s = Q.pending
  BY QOKFields
<1>2. Q \in QueueType /\ NoDuplicates(s)
  BY <1>1, QOKFields DEF QOK, ListHolds
<1>3. PICK n \in Nat : n = PadCount(Q)
  BY <1>2, PadCountLemma
<1>4. n <= Len(s) /\ \A m \in 0..(n - 1) : ~Throttled(Q, m)
  BY <1>1, <1>2, <1>3, PadCountLemma
<1>5. /\ R.pending = SubSeq(s, n + 1, Len(s))
      /\ R.executingCount = Q.executingCount + n
      /\ R.owner = [t \in Tasks |-> IF \E i \in 1..n : s[i] = t
                                    THEN "Executing" ELSE Q.owner[t]]
      /\ R.readyCount = Q.readyCount
  BY <1>1, <1>2, <1>3 DEF PadExecutingQueue, QueueType
<1>6. \A t \in Tasks : R.owner[t] = IF \E i \in 1..n : s[i] = t
                                    THEN "Executing" ELSE Q.owner[t]
  BY <1>5
<1>7. /\ QOK(R) /\ SameSettings(Q, R)
      /\ \A t \in Tasks : \/ R.owner[t] = Q.owner[t]
                          \/ Q.owner[t] = "Pending" /\ R.owner[t] = "Executing"
  BY PadLemma
<1> HIDE DEF R
<1>8. ASSUME NEW t \in Tasks, NEW u \in Tasks, Ahead(Q, t, u)
      PROVE  /\ R.owner[u] = "Executing" => R.owner[t] # "Pending"
             /\ R.owner[t] = "Pending" /\ R.owner[u] = "Pending" => Ahead(R, t, u)
  <2>1. PICK i \in 1..Len(s), j \in 1..Len(s) : i < j /\ s[i] = t /\ s[j] = u
    BY <1>1, <1>8 DEF Ahead
  <2>2. Q.owner[u] = "Pending" /\ Q.owner[t] = "Pending"
    BY <1>8, AheadPending
  <2>3. i <= n => R.owner[t] = "Executing"
    BY <1>6, <2>1
  <2>4. j <= n => R.owner[u] = "Executing"
    BY <1>6, <2>1
  <2>5. ASSUME R.owner[u] = "Executing" PROVE j <= n
    <3>1. PICK k \in 1..n : s[k] = u
      BY <1>6, <2>2, <2>5
    <3>2. k \in 1..Len(s)
      BY <1>4
    <3> QED BY <1>2, <2>1, <3>1, <3>2 DEF NoDuplicates
  <2>6. R.owner[u] = "Executing" => R.owner[t] # "Pending"
    BY <2>1, <2>3, <2>5
  <2>7. ASSUME R.owner[t] = "Pending", R.owner[u] = "Pending" PROVE Ahead(R, t, u)
    <3>1. i > n /\ j > n
      BY <2>3, <2>4, <2>7
    <3>2. /\ Len(R.pending) = Len(s) - n
          /\ \A k \in 1..(Len(s) - n) : R.pending[k] = s[n + k]
      <4>1. n + 1 \in 1..(Len(s) + 1) /\ Len(s) \in n..Len(s)
        BY <1>4
      <4> QED BY <1>4, <1>5, <4>1, SubSeqProperties
    <3>3. /\ i - n \in 1..(Len(s) - n) /\ j - n \in 1..(Len(s) - n) /\ i - n < j - n
          /\ n + (i - n) = i /\ n + (j - n) = j
      BY <1>4, <2>1, <3>1
    <3>4. R.pending[i - n] = t /\ R.pending[j - n] = u
      BY <2>1, <3>2, <3>3
    <3> QED BY <3>2, <3>3, <3>4 DEF Ahead
  <2> QED BY <2>6, <2>7
<1>9. Scheduled(Q, R) # {} => n > 0
  BY <1>6 DEF Scheduled
<1>10. /\ Q.executingCount \in Nat /\ Q.readyCount \in Nat
       /\ Q.maxExecuting \in Nat /\ Q.maxReadyOrExecuting \in Nat
  BY QOKFields
<1>11. ASSUME n > 0 PROVE WithinLimits(R)
  <2>1. ~Throttled(Q, n - 1)
    BY <1>4, <1>11
  <2>2. /\ Q.maxExecuting # 0 => Q.executingCount + n <= Q.maxExecuting
        /\ Q.maxReadyOrExecuting # 0
             => Q.readyCount + (Q.executingCount + n) <= Q.maxReadyOrExecuting
    <3> DEFINE e == Q.executingCount
               r == Q.readyCount
               m == Q.maxExecuting
               k == Q.maxReadyOrExecuting
    <3>1. e \in Nat /\ r \in Nat /\ m \in Nat /\ k \in Nat
      BY <1>10
    <3>2. ~(m # 0 /\ e + (n - 1) >= m) /\ ~(k # 0 /\ r + e + (n - 1) >= k)
      BY <2>1 DEF Throttled
    <3> HIDE DEF e, r, m, k
    <3>3. (m # 0 => e + n <= m) /\ (k # 0 => r + (e + n) <= k)
      BY <1>3, <3>1, <3>2
    <3> QED BY <3>3 DEF e, r, m, k
  <2>3. Len(R.executing) = Q.executingCount + n /\ Len(R.ready) = Q.readyCount
    BY <1>5, <1>7, QOKFields
  <2>4. R.maxExecuting = Q.maxExecuting /\ R.maxReadyOrExecuting = Q.maxReadyOrExecuting
    BY <1>7 DEF SameSettings
  <2> QED BY <2>2, <2>3, <2>4 DEF WithinLimits
<1>12. ASSUME n = 0 PROVE WithinLimits(Q) => WithinLimits(R)
  <2>1. R.executingCount = Q.executingCount /\ R.readyCount = Q.readyCount
    BY <1>5, <1>10, <1>12
  <2>2. R.maxExecuting = Q.maxExecuting /\ R.maxReadyOrExecuting = Q.maxReadyOrExecuting
    BY <1>7 DEF SameSettings
  <2> QED BY <1>7, <1>10, <2>1, <2>2, LimitsKept
<1> QED BY <1>7, <1>8, <1>9, <1>11, <1>12 DEF Orderly, R

(***************************************************************************)
(* Padding a queue that a limit stops starts nothing.                      *)
(***************************************************************************)
LEMMA PadThrottled ==
    ASSUME NEW Q, QOK(Q), Throttled(Q, 0)
    PROVE  Calm(Q, PadExecutingQueue(Q))
<1> DEFINE n == PadCount(Q)
<1>1. Q \in QueueType
  BY DEF QOK
<1>2. n \in 0..Len(Q.pending) /\ \A m \in 0..(n - 1) : ~Throttled(Q, m)
  BY <1>1, PadCountLemma
<1>3. n = 0
  <2> HIDE DEF n
  <2>1. n > 0 => 0 \in 0..(n - 1)
    BY <1>2
  <2> QED BY <1>2, <2>1
<1>4. PadExecutingQueue(Q).owner = [t \in Tasks |-> IF \E i \in 1..n : Q.pending[i] = t
                                                   THEN "Executing" ELSE Q.owner[t]]
  BY <1>1 DEF PadExecutingQueue, QueueType
<1> HIDE DEF n
<1>5. \A t \in Tasks : PadExecutingQueue(Q).owner[t] = Q.owner[t]
  BY <1>3, <1>4
<1>6. WithinLimits(Q) => WithinLimits(PadExecutingQueue(Q))
  BY PadOrderly DEF Orderly
<1> QED BY <1>5, <1>6 DEF Calm

(***************************************************************************)
(* The steps before the padding.                                           *)
(***************************************************************************)

(***************************************************************************)
(* What joins the pending queue does not change the order of the others.   *)
(***************************************************************************)
LEMMA AheadInsert ==
    ASSUME NEW Q, NEW R, QOK(Q), NEW t \in Tasks, NEW isBack \in BOOLEAN,
           R.pending = Insert(Q.pending, t, isBack), NEW a, NEW b, Ahead(Q, a, b)
    PROVE  Ahead(R, a, b)
<1>1. PICK s \in Seq(Tasks) : s = Q.pending
  BY QOKFields
<1>2. PICK i \in 1..Len(s), j \in 1..Len(s) : i < j /\ s[i] = a /\ s[j] = b
  BY <1>1 DEF Ahead
<1>3. PICK r : r = R.pending
  OBVIOUS
<1>4. CASE isBack
  <2>1. r = Append(s, t)
    BY <1>1, <1>3, <1>4 DEF Insert
  <2>2. i \in 1..Len(r) /\ j \in 1..Len(r) /\ r[i] = a /\ r[j] = b
    BY <1>2, <2>1
  <2> QED BY <1>2, <1>3, <2>2 DEF Ahead
<1>5. CASE ~isBack
  <2>1. r = <<t>> \o s
    BY <1>1, <1>3, <1>5 DEF Insert
  <2>2. /\ i + 1 \in 1..Len(r) /\ j + 1 \in 1..Len(r) /\ i + 1 < j + 1
        /\ r[i + 1] = a /\ r[j + 1] = b
    BY <1>2, <2>1
  <2> QED BY <1>3, <2>2 DEF Ahead
<1> QED BY <1>4, <1>5

(***************************************************************************)
(* pushInternalNoLock() links a task in front of the pending tasks or      *)
(* behind them.                                                            *)
(***************************************************************************)
LEMMA LinkPrepared ==
    ASSUME NEW Q, QOK(Q), NEW t \in Tasks, Q.owner[t] \in {"None", "Ready"},
           NEW isBack \in BOOLEAN, NEW dontSchedule \in BOOLEAN
    PROVE  QOK(Link(Q, t, isBack, dontSchedule)) /\ Prepared(Q, Link(Q, t, isBack, dontSchedule))
<1> DEFINE R == Link(Q, t, isBack, dontSchedule)
<1>1. /\ QOK(R)
      /\ R.owner = [Q.owner EXCEPT ![t] = IF dontSchedule THEN "Ready" ELSE "Pending"]
  BY LinkLemma
<1>2. Q \in QueueType /\ Q.owner \in [Tasks -> OwnerQueues]
  BY QOKFields DEF QOK
<1>3. dontSchedule => R.pending = Q.pending
  BY <1>2 DEF Link, QueueType
<1>4. ~dontSchedule => R.pending = Insert(Q.pending, t, isBack)
  BY <1>2 DEF Link, QueueType
<1> HIDE DEF R
<1>5. ASSUME NEW a, NEW b, Ahead(Q, a, b) PROVE Ahead(R, a, b)
  <2>1. CASE dontSchedule
    BY <1>3, <1>5, <2>1 DEF Ahead
  <2>2. CASE ~dontSchedule
    BY <1>4, <1>5, <2>2, AheadInsert
  <2> QED BY <2>1, <2>2
<1>6. \A u \in Tasks : R.owner[u] = "Executing" => Q.owner[u] = "Executing"
  BY <1>1, <1>2
<1> QED BY <1>1, <1>5, <1>6 DEF Prepared, R

(***************************************************************************)
(* A task that is its own continuation goes behind the pending tasks.      *)
(***************************************************************************)
LEMMA RequeuePrepared ==
    ASSUME NEW Q, QOK(Q), NEW t \in Tasks, Q.owner[t] = "Executing"
    PROVE  LET R == [MoveExecutingTaskToPendingQueue(Q, t)
                        EXCEPT !.activeWorkGeneration = @ + 1]
           IN  QOK(R) /\ Prepared(Q, R)
<1> DEFINE R == [MoveExecutingTaskToPendingQueue(Q, t) EXCEPT !.activeWorkGeneration = @ + 1]
<1>1. QOK(R) /\ R.owner = [Q.owner EXCEPT ![t] = "Pending"]
  BY RequeueLemma
<1>2. Q \in QueueType /\ Q.owner \in [Tasks -> OwnerQueues]
  BY QOKFields DEF QOK
<1>3. R.pending = Insert(Q.pending, t, TRUE)
  BY <1>2 DEF MoveExecutingTaskToPendingQueue, QueueType, Insert
<1> HIDE DEF R
<1>4. ASSUME NEW a, NEW b, Ahead(Q, a, b) PROVE Ahead(R, a, b)
  BY <1>3, <1>4, AheadInsert
<1>5. \A u \in Tasks : R.owner[u] = "Executing" => Q.owner[u] = "Executing"
  BY <1>1, <1>2
<1> QED BY <1>1, <1>4, <1>5 DEF Prepared, R

(***************************************************************************)
(* Preparing nothing.                                                      *)
(***************************************************************************)
LEMMA SamePrepared ==
    ASSUME NEW Q, NEW R, R.pending = Q.pending, R.owner = Q.owner
    PROVE  Prepared(Q, R)
BY DEF Prepared, Ahead

(***************************************************************************)
(* onReady() removes the completed task before it pads the queue.          *)
(***************************************************************************)
LEMMA FinishOrderly ==
    ASSUME NEW Q, QOK(Q), NEW t \in Tasks, Q.owner[t] = "Executing", NEW keep \in BOOLEAN
    PROVE  LET Q1 == [Q EXCEPT !.executingCount = @ - 1]
               R == IF keep THEN MoveTaskToReadyQueue(Q1, t) ELSE UnlinkAndDestroy(Q1, t)
           IN  QOK(R) /\ Orderly(Q, R)
<1> DEFINE Q1 == [Q EXCEPT !.executingCount = @ - 1]
           R == IF keep THEN MoveTaskToReadyQueue(Q1, t) ELSE UnlinkAndDestroy(Q1, t)
<1>1. /\ QOK(R) /\ SameSettings(Q, R)
      /\ R.owner = [Q.owner EXCEPT ![t] = IF keep THEN "Ready" ELSE "None"]
      /\ R.pending = Q.pending
  BY FinishLemma
<1>2. Q \in QueueType /\ Q.owner \in [Tasks -> OwnerQueues]
  BY QOKFields DEF QOK
<1>3. /\ R.executingCount = Q.executingCount - 1
      /\ R.readyCount = IF keep THEN Q.readyCount + 1 ELSE Q.readyCount
  BY <1>2 DEF MoveTaskToReadyQueue, UnlinkAndDestroy, QueueType
<1> HIDE DEF R
<1>4. \A u \in Tasks : /\ R.owner[u] = "Executing" => Q.owner[u] = "Executing"
                       /\ R.owner[u] = "Pending" => Q.owner[u] = "Pending"
  BY <1>1, <1>2
<1>5. ASSUME NEW a \in Tasks, NEW b \in Tasks, Ahead(Q, a, b)
      PROVE  R.owner[b] # "Executing" /\ Ahead(R, a, b)
  <2>1. Q.owner[b] = "Pending"
    BY <1>5, AheadPending
  <2>2. Ahead(R, a, b)
    BY <1>1, <1>5 DEF Ahead
  <2> QED BY <1>4, <2>1, <2>2
<1>6. WithinLimits(Q) => WithinLimits(R)
  <2>1. Q.executingCount \in Nat /\ Q.readyCount \in Nat
    BY QOKFields
  <2>2. R.executingCount <= Q.executingCount
    BY <1>3, <2>1
  <2>3. R.readyCount + R.executingCount <= Q.readyCount + Q.executingCount
    BY <1>3, <2>1
  <2>4. R.maxExecuting = Q.maxExecuting /\ R.maxReadyOrExecuting = Q.maxReadyOrExecuting
    BY <1>1 DEF SameSettings
  <2> QED BY <1>1, <2>2, <2>3, <2>4, LimitsKept
<1>7. Scheduled(Q, R) = {}
  BY <1>4 DEF Scheduled
<1> QED BY <1>1, <1>4, <1>5, <1>6, <1>7 DEF Orderly, R

(***************************************************************************)
(* The steps after the padding.                                            *)
(***************************************************************************)

(***************************************************************************)
(* Steps that remove tasks, and start none, are calm.                      *)
(***************************************************************************)
LEMMA ShrinkCalm ==
    ASSUME NEW Q, NEW R, QOK(Q), QOK(R), SameSettings(Q, R),
           R.executingCount = Q.executingCount, R.readyCount <= Q.readyCount,
           \A t \in Tasks : R.owner[t] \in {Q.owner[t], "None"}
    PROVE  Calm(Q, R)
<1>1. Q.executingCount \in Nat /\ Q.readyCount \in Nat /\ R.readyCount \in Nat
  BY QOKFields
<1>2. R.executingCount <= Q.executingCount
  BY <1>1
<1>3. R.readyCount + R.executingCount <= Q.readyCount + Q.executingCount
  BY <1>1
<1>4. R.maxExecuting = Q.maxExecuting /\ R.maxReadyOrExecuting = Q.maxReadyOrExecuting
  BY DEF SameSettings
<1>5. WithinLimits(Q) => WithinLimits(R)
  BY <1>2, <1>3, <1>4, LimitsKept
<1> QED BY <1>5 DEF Calm

(***************************************************************************)
(* pop() and wait() remove a ready task.                                   *)
(***************************************************************************)
LEMMA RemoveReadyCalm ==
    ASSUME NEW Q, QOK(Q), NEW t \in Tasks, Q.owner[t] = "Ready"
    PROVE  Calm(Q, RemoveReady(Q, t))
<1> DEFINE R == RemoveReady(Q, t)
<1>1. /\ QOK(R) /\ SameSettings(Q, R)
      /\ R.owner = [Q.owner EXCEPT ![t] = "None"]
      /\ R.executingCount = Q.executingCount
  BY RemoveReadyLemma
<1>2. Q \in QueueType /\ Q.owner \in [Tasks -> OwnerQueues] /\ Q.readyCount \in Nat
  BY QOKFields DEF QOK
<1>3. R.readyCount = Q.readyCount - 1
  BY <1>2 DEF RemoveReady, UnlinkAndDestroy, QueueType
<1> HIDE DEF R
<1>4. R.readyCount <= Q.readyCount
  BY <1>2, <1>3
<1>5. \A u \in Tasks : R.owner[u] \in {Q.owner[u], "None"}
  BY <1>1, <1>2
<1> QED BY <1>1, <1>4, <1>5, ShrinkCalm DEF R

(***************************************************************************)
(* wait() with cancel discards a pending task.                             *)
(***************************************************************************)
LEMMA DropPendingCalm ==
    ASSUME NEW Q, QOK(Q), NEW t \in Tasks, Q.owner[t] = "Pending"
    PROVE  Calm(Q, UnlinkAndDestroy(Q, t))
<1> DEFINE R == UnlinkAndDestroy(Q, t)
<1>1. /\ QOK(R) /\ SameSettings(Q, R)
      /\ R.owner = [Q.owner EXCEPT ![t] = "None"]
      /\ R.executingCount = Q.executingCount
  BY DropPendingLemma
<1>2. Q \in QueueType /\ Q.owner \in [Tasks -> OwnerQueues] /\ Q.readyCount \in Nat
  BY QOKFields DEF QOK
<1>3. R.readyCount = Q.readyCount
  BY <1>2 DEF UnlinkAndDestroy, QueueType
<1> HIDE DEF R
<1>4. R.readyCount <= Q.readyCount
  BY <1>2, <1>3
<1>5. \A u \in Tasks : R.owner[u] \in {Q.owner[u], "None"}
  BY <1>1, <1>2
<1> QED BY <1>1, <1>4, <1>5, ShrinkCalm DEF R

(***************************************************************************)
(* A queue that keeps its lists and its limits.                            *)
(***************************************************************************)
LEMMA ListsKeptCalm ==
    ASSUME NEW Q, NEW R, R.executing = Q.executing, R.ready = Q.ready, R.owner = Q.owner,
           R.maxExecuting = Q.maxExecuting, R.maxReadyOrExecuting = Q.maxReadyOrExecuting
    PROVE  Calm(Q, R)
BY DEF Calm, WithinLimits

LEMMA CalmTransitive ==
    ASSUME NEW Q, NEW R, NEW S, Calm(Q, R), Calm(R, S)
    PROVE  Calm(Q, S)
BY DEF Calm

(***************************************************************************)
(* pop() takes the first ready task, if there is one.                      *)
(***************************************************************************)
LEMMA TakeFirstCalm ==
    ASSUME NEW Q, QOK(Q), NEW remove \in BOOLEAN
    PROVE  Calm(Q, TakeFirst(Q, remove))
<1>1. CASE remove /\ Q.ready # <<>>
  <2>1. Q.ready \in Seq(Tasks) /\ ListHolds(Q.ready, Q.owner, "Ready")
    BY QOKFields
  <2>2. 1 \in 1..Len(Q.ready) /\ Q.ready[1] \in Tasks
    BY <1>1, <2>1
  <2>3. Q.owner[Q.ready[1]] = "Ready"
    BY <2>1, <2>2 DEF ListHolds, IsIn
  <2>4. TakeFirst(Q, remove) = RemoveReady(Q, Q.ready[1])
    BY <1>1 DEF TakeFirst
  <2> QED BY <2>2, <2>3, <2>4, RemoveReadyCalm
<1>2. CASE ~(remove /\ Q.ready # <<>>)
  BY <1>2, ListsKeptCalm DEF TakeFirst
<1> QED BY <1>1, <1>2

(***************************************************************************)
(* What follows the wait of flushInternal().                               *)
(***************************************************************************)
LEMMA FlushEndCalm ==
    ASSUME NEW Q, QOK(Q), NEW T, NEW op, NEW nothrowIfFailed, NEW discardReady
    PROVE  Calm(Q, FlushEnd(Q, T, op, nothrowIfFailed, discardReady))
<1> DEFINE throws == ~nothrowIfFailed /\ \E i \in 1..Len(Q.ready) : T[Q.ready[i]].failed
           Q1 == IF throws \/ discardReady THEN ClearReady(Q) ELSE Q
           R == [Q1 EXCEPT !.disposed = TRUE]
           C == ClearReady(Q)
<1>1. Calm(Q, C) /\ QOK(C)
  <2>1. /\ QOK(C) /\ SameSettings(Q, C)
        /\ \A u \in Tasks : C.owner[u] = IF Q.owner[u] = "Ready" THEN "None" ELSE Q.owner[u]
        /\ C.ready = <<>> /\ C.executingCount = Q.executingCount
    BY ClearReadyLemma
  <2> HIDE DEF C
  <2>2. C.readyCount = 0 /\ Q.readyCount \in Nat
    BY <2>1, QOKFields
  <2>3. C.readyCount <= Q.readyCount
    BY <2>2
  <2>4. \A u \in Tasks : C.owner[u] \in {Q.owner[u], "None"}
    BY <2>1
  <2> QED BY <2>1, <2>3, <2>4, ShrinkCalm
<1> HIDE DEF C, throws
<1>2. Calm(Q, Q1) /\ QOK(Q1)
  <2>1. Q1 = C \/ Q1 = Q
    BY DEF C
  <2> QED BY <1>1, <2>1, ListsKeptCalm
<1> HIDE DEF Q1
<1>3. Calm(Q1, R)
  <2>1. Q1 \in QueueType
    BY <1>2 DEF QOK
  <2>2. /\ R.executing = Q1.executing /\ R.ready = Q1.ready /\ R.owner = Q1.owner
        /\ R.maxExecuting = Q1.maxExecuting
        /\ R.maxReadyOrExecuting = Q1.maxReadyOrExecuting
    BY <2>1 DEF QueueType
  <2> QED BY <2>2, ListsKeptCalm
<1>4. Calm(Q, R)
  BY <1>2, <1>3, CalmTransitive
<1>5. FlushEnd(Q, T, op, nothrowIfFailed, discardReady) = IF op = "dispose" THEN R ELSE Q1
  BY DEF FlushEnd, Q1, throws
<1> QED BY <1>2, <1>4, <1>5

-----------------------------------------------------------------------------
(***************************************************************************)
(* Every step of the queue starts tasks as it ought.                       *)
(***************************************************************************)

(***************************************************************************)
(* Calls that pad the queue first.                                         *)
(***************************************************************************)
LEMMA PadRespects ==
    ASSUME NEW Q, QOK(Q)
    PROVE  Respects(Q, PadExecutingQueue(Q)) /\ QOK(PadExecutingQueue(Q))
<1>1. Prepared(Q, Q)
  BY DEF Prepared
<1>2. Orderly(Q, PadExecutingQueue(Q)) /\ QOK(PadExecutingQueue(Q))
  BY PadOrderly, PadLemma
<1> QED BY <1>1, <1>2, PreparedRespects

(***************************************************************************)
(* push_back() and push_front().                                           *)
(***************************************************************************)
LEMMA PushRespects ==
    ASSUME QOK(q), NEW th \in Threads, NEW t \in Tasks, NEW isBack \in BOOLEAN,
           NEW dontSchedule \in BOOLEAN, Push(th, t, isBack, dontSchedule)
    PROVE  Respects(q, q')
<1> DEFINE R == Link(q, t, isBack, dontSchedule)
<1>1. q.owner[t] \in {"None", "Ready"} /\ q' = PadExecutingQueue(R)
  BY DEF Push, PushInternalNoLock
<1>2. QOK(R) /\ Prepared(q, R)
  BY <1>1, LinkPrepared
<1> HIDE DEF R
<1> QED BY <1>1, <1>2, PadOrderly, PreparedRespects

(***************************************************************************)
(* setThrottleLimit() and setNotifyCallback() pad the queue under the new  *)
(* limits.                                                                 *)
(***************************************************************************)
LEMMA SettingRespects ==
    ASSUME NEW Q, QOK(Q), Q.owner = q.owner, Q.pending = q.pending, q' = PadExecutingQueue(Q)
    PROVE  Respects(q, q')
<1>1. Prepared(q, Q)
  BY SamePrepared
<1> QED BY <1>1, PadOrderly, PreparedRespects

LEMMA SetThrottleLimitRespects ==
    ASSUME QOK(q), NEW th \in Threads, NEW limit \in ThrottleLimits, SetThrottleLimit(th, limit)
    PROVE  Respects(q, q')
<1> DEFINE Q == [q EXCEPT !.maxExecuting = limit]
<1>1. q \in QueueType /\ ListsConsistent(q) /\ limit \in Nat
  BY ConstantsAssumption DEF QOK
<1>2. q' = PadExecutingQueue(Q)
  BY DEF SetThrottleLimit
<1>3. /\ Q \in QueueType /\ Q.pending = q.pending /\ Q.executing = q.executing
      /\ Q.ready = q.ready /\ Q.owner = q.owner /\ Q.executingCount = q.executingCount
      /\ Q.readyCount = q.readyCount
  BY <1>1 DEF QueueType
<1> HIDE DEF Q
<1>4. QOK(Q)
  BY <1>1, <1>3 DEF QOK, ListsConsistent
<1> QED BY <1>2, <1>3, <1>4, SettingRespects

LEMMA SetNotifyCallbackRespects ==
    ASSUME QOK(q), NEW th \in Threads, NEW observer \in BOOLEAN, NEW limit \in ObserverLimits,
           NEW mask \in EventMasks, NEW delivery \in Deliveries,
           SetNotifyCallback(th, observer, limit, mask, delivery)
    PROVE  Respects(q, q')
<1> DEFINE Q == [q EXCEPT !.observer = observer, !.eventsMask = mask,
                          !.delivery = delivery,
                          !.maxReadyOrExecuting = IF observer THEN limit ELSE 0]
<1>1. /\ q \in QueueType /\ ListsConsistent(q) /\ limit \in Nat
      /\ mask \in SUBSET Events /\ delivery \in {"Concurrent", "Serialized"}
  BY ConstantsAssumption DEF QOK
<1>2. q' = PadExecutingQueue(Q)
  BY DEF SetNotifyCallback
<1>3. /\ Q \in QueueType /\ Q.pending = q.pending /\ Q.executing = q.executing
      /\ Q.ready = q.ready /\ Q.owner = q.owner /\ Q.executingCount = q.executingCount
      /\ Q.readyCount = q.readyCount
  BY <1>1 DEF QueueType
<1> HIDE DEF Q
<1>4. QOK(Q)
  BY <1>1, <1>3 DEF QOK, ListsConsistent
<1> QED BY <1>2, <1>3, <1>4, SettingRespects

(***************************************************************************)
(* pop() and top().                                                        *)
(***************************************************************************)
LEMMA GetFirstReadyRespects ==
    ASSUME QOK(q), NEW th \in Threads, NEW op \in {"pop", "top"}, NEW wait \in BOOLEAN,
           GetFirstReady(th, op, wait)
    PROVE  Respects(q, q')
<1> DEFINE Q == PadExecutingQueue(q)
<1>1. Respects(q, Q) /\ QOK(Q)
  BY PadRespects
<1>2. q' = Q \/ q' = TakeFirst(Q, op = "pop")
  BY DEF GetFirstReady
<1> HIDE DEF Q
<1>3. Calm(Q, TakeFirst(Q, op = "pop"))
  BY <1>1, TakeFirstCalm
<1> QED BY <1>1, <1>2, <1>3, CalmRespects

(***************************************************************************)
(* wait(), waitNoPrioritize() and cancel() that waits.  A task is moved to *)
(* the front only when a limit keeps it pending, and the second padding    *)
(* then starts nothing.                                                    *)
(***************************************************************************)
LEMMA WaitRespects ==
    ASSUME QOK(q), NEW th \in Threads, NEW t \in Tasks, NEW prioritize \in BOOLEAN,
           NEW cancel \in BOOLEAN, Wait(th, t, prioritize, cancel)
    PROVE  Respects(q, q')
<1> DEFINE Q == PadExecutingQueue(q)
           F == PushToFront(Q, t)
<1>1. Respects(q, Q) /\ QOK(Q) /\ (Q.pending # <<>> => Throttled(Q, 0))
  BY PadRespects, PadLemma
<1>2. \/ q' = PadExecutingQueue(Q)
      \/ Q.owner[t] = "Pending" /\ q' = PadExecutingQueue(F)
      \/ Q.owner[t] = "Ready" /\ q' = RemoveReady(Q, t)
      \/ Q.owner[t] = "Pending" /\ q' = UnlinkAndDestroy(Q, t)
      \/ q' = Q
  <2> DEFINE sleeps == Q.owner[t] = "Executing" \/ (Q.owner[t] = "Pending" /\ ~cancel)
             front == IF prioritize /\ Q.owner[t] = "Pending" THEN F ELSE Q
  <2>1. q' = CASE sleeps -> PadExecutingQueue(front)
               [] Q.owner[t] = "Ready" -> RemoveReady(Q, t)
               [] Q.owner[t] = "Pending" /\ cancel -> UnlinkAndDestroy(Q, t)
               [] OTHER -> Q
    BY DEF Wait
  <2>2. CASE sleeps
    <3>1. q' = PadExecutingQueue(front)
      <4>1. ~(Q.owner[t] = "Ready") /\ ~(Q.owner[t] = "Pending" /\ cancel)
        BY <2>2
      <4> HIDE DEF sleeps, front, Q
      <4> QED BY <2>1, <2>2, <4>1
    <3> QED BY <3>1
  <2>3. ASSUME ~sleeps PROVE \/ Q.owner[t] = "Ready" /\ q' = RemoveReady(Q, t)
                             \/ Q.owner[t] = "Pending" /\ q' = UnlinkAndDestroy(Q, t)
                             \/ q' = Q
    <3> HIDE DEF sleeps, front, Q
    <3> QED BY <2>1, <2>3
  <2> QED BY <2>2, <2>3
<1> HIDE DEF Q
<1>3. ASSUME Q.owner[t] = "Pending" PROVE Calm(Q, PadExecutingQueue(F))
  <2>1. /\ QOK(F) /\ SameSettings(Q, F) /\ F.owner = Q.owner
        /\ F.executing = Q.executing /\ F.executingCount = Q.executingCount
        /\ F.readyCount = Q.readyCount
    BY <1>1, <1>3, PushToFrontLemma
  <2> HIDE DEF F
  <2>2. Throttled(Q, 0)
    BY <1>1, <1>3, PendingNonEmpty
  <2>3. Throttled(F, 0)
    BY <2>1, <2>2 DEF Throttled, SameSettings
  <2>4. Calm(Q, F)
    <3>1. Q.readyCount \in Nat
      BY <1>1, QOKFields
    <3> QED BY <1>1, <2>1, <3>1, ShrinkCalm
  <2>5. Calm(F, PadExecutingQueue(F))
    BY <2>1, <2>3, PadThrottled
  <2> QED BY <2>4, <2>5, CalmTransitive
<1>4. Respects(q, PadExecutingQueue(Q))
  <2>1. Orderly(q, Q)
    BY PadOrderly DEF Q
  <2>2. Orderly(Q, PadExecutingQueue(Q))
    BY <1>1, PadOrderly
  <2>3. Orderly(q, PadExecutingQueue(Q)) /\ Prepared(q, q)
    BY <2>1, <2>2, OrderlyTransitive DEF Prepared
  <2> QED BY <2>3, PreparedRespects
<1>5. Q.owner[t] = "Ready" => Calm(Q, RemoveReady(Q, t))
  BY <1>1, RemoveReadyCalm
<1>6. Q.owner[t] = "Pending" => Calm(Q, UnlinkAndDestroy(Q, t))
  BY <1>1, DropPendingCalm
<1> HIDE DEF F
<1> QED BY <1>1, <1>2, <1>3, <1>4, <1>5, <1>6, CalmRespects

LEMMA WakeWaitRespects ==
    ASSUME IInv, NEW th \in Threads, WakeWait(th)
    PROVE  Respects(q, q')
<1> DEFINE Q == PadExecutingQueue(q)
           t == call[th].task
<1>1. QOK(q) /\ t \in Tasks
  BY DEF IInv, CallOK, WakeWait
<1>2. Respects(q, Q) /\ QOK(Q)
  BY <1>1, PadRespects
<1>3. q' = IF Q.owner[t] = "Ready" THEN RemoveReady(Q, t) ELSE Q
  BY DEF WakeWait
<1> HIDE DEF Q, t
<1>4. Q.owner[t] = "Ready" => Calm(Q, RemoveReady(Q, t))
  BY <1>1, <1>2, RemoveReadyCalm
<1> QED BY <1>2, <1>3, <1>4, CalmRespects

(***************************************************************************)
(* flush(), cancelAll(), forceFlushNoThrow() and dispose().                *)
(***************************************************************************)
LEMMA FlushRespects ==
    ASSUME QOK(q), NEW th \in Threads, NEW op, NEW wait, NEW m, FlushInternal(th, op, wait, m)
    PROVE  Respects(q, q')
<1> DEFINE C == ClearPending(q)
           P == PadExecutingQueue(q)
           Q1 == IF m.discardPending THEN C ELSE P
<1>1. Respects(q, C) /\ QOK(C)
  <2>1. /\ QOK(C)
        /\ \A u \in Tasks : C.owner[u] = IF q.owner[u] = "Pending" THEN "None" ELSE q.owner[u]
    BY ClearPendingLemma
  <2>2. \A u \in Tasks : C.owner[u] = "Executing" => q.owner[u] = "Executing"
    BY <2>1
  <2> HIDE DEF C
  <2> QED BY <2>1, <2>2, NothingStarted
<1>2. Respects(q, P) /\ QOK(P)
  BY PadRespects
<1> HIDE DEF C, P
<1>3. Respects(q, Q1) /\ QOK(Q1)
  BY <1>1, <1>2
<1>4. \/ q' = Q1
      \/ \E T : q' = FlushEnd(Q1, T, op, m.nothrowIfFailed, m.discardReady)
  BY DEF FlushInternal, C, P
<1> HIDE DEF Q1
<1>5. ASSUME NEW T, q' = FlushEnd(Q1, T, op, m.nothrowIfFailed, m.discardReady)
      PROVE  Respects(q, q')
  <2>1. Calm(Q1, q')
    BY <1>3, <1>5, FlushEndCalm
  <2> QED BY <1>3, <2>1, CalmRespects
<1> QED BY <1>3, <1>4, <1>5

LEMMA WakeFlushRespects ==
    ASSUME QOK(q), NEW th \in Threads, WakeFlush(th)
    PROVE  Respects(q, q')
<1>1. \/ q' = q
      \/ q' = FlushEnd(q, task, call[th].op, call[th].nothrowIfFailed, call[th].discardReady)
  BY DEF WakeFlush
<1>2. \A t \in Tasks : q'.owner[t] = "Executing" => q.owner[t] = "Executing"
  BY <1>1, FlushEndCalm DEF Calm
<1> QED BY <1>2, NothingStarted

(***************************************************************************)
(* cancel() that does not wait, prioritize(), setOptions(), and a thread   *)
(* that wakes in pop() or top().                                           *)
(***************************************************************************)
LEMMA OthersRespect ==
    ASSUME QOK(q), NEW th \in Threads,
           \/ \E t \in Tasks : Cancel(th, t) \/ Prioritize(th, t)
           \/ \E options \in Options : SetOptions(th, options)
           \/ WakeGetFirstReady(th)
    PROVE  Respects(q, q')
<1>0. q \in QueueType /\ q.owner \in [Tasks -> OwnerQueues]
  BY QOKFields DEF QOK
<1>1. ASSUME NEW t \in Tasks, Cancel(th, t)
      PROVE  \A u \in Tasks : q'.owner[u] = "Executing" => q.owner[u] = "Executing"
  <2>1. /\ q.owner[t] = "Pending"
        /\ q' = MoveTaskToReadyQueue(q, t) \/ q' = UnlinkAndDestroy(q, t)
    BY <1>1 DEF Cancel
  <2>2. q'.owner = [q.owner EXCEPT ![t] = "Ready"] \/ q'.owner = [q.owner EXCEPT ![t] = "None"]
    BY <2>1, CancelKeepLemma, DropPendingLemma
  <2> QED BY <1>0, <2>2
<1>2. ASSUME NEW t \in Tasks, Prioritize(th, t) PROVE q'.owner = q.owner
  BY <1>2, PushToFrontLemma DEF Prioritize
<1>3. ASSUME NEW options \in Options, SetOptions(th, options) PROVE q'.owner = q.owner
  BY <1>0, <1>3 DEF SetOptions, QueueType
<1>4. ASSUME WakeGetFirstReady(th)
      PROVE  \A u \in Tasks : q'.owner[u] = "Executing" => q.owner[u] = "Executing"
  <2>1. q' = q \/ q' = TakeFirst(q, call[th].op = "pop")
    BY <1>4 DEF WakeGetFirstReady
  <2> QED BY <2>1, TakeFirstCalm DEF Calm
<1>5. \A u \in Tasks : q'.owner[u] = "Executing" => q.owner[u] = "Executing"
  BY <1>1, <1>2, <1>3, <1>4
<1> QED BY <1>5, NothingStarted

(***************************************************************************)
(* The part of onReady() that completes task t: P is the queue before the  *)
(* padding of a push of its continuation, and Q the queue after it.        *)
(***************************************************************************)
LEMMA CompleteTaskRespects ==
    ASSUME QOK(q), NEW w \in Workers, NEW t \in Tasks, NEW P, Prepared(q, P),
           NEW Q, QOK(Q), Orderly(P, Q), Q.owner[t] = "Executing", NEW T, NEW failed,
           CompleteTask(w, t, Q, T, failed)
    PROVE  Respects(q, q')
<1> DEFINE keep == KeepTask(Q, failed)
           Q1 == [Q EXCEPT !.executingCount = @ - 1]
           Q2 == IF keep THEN MoveTaskToReadyQueue(Q1, t) ELSE UnlinkAndDestroy(Q1, t)
           Q3 == PadExecutingQueue(Q2)
           R == [Q3 EXCEPT !.lastCandidateGeneration = Q3.activeWorkGeneration]
<1>1. q' = R \/ q' = Q3
  BY DEF CompleteTask
<1>2. keep \in BOOLEAN
  BY DEF KeepTask
<1>3. QOK(Q2) /\ Orderly(Q, Q2)
  <2> HIDE DEF keep
  <2> QED BY <1>2, FinishOrderly
<1> HIDE DEF Q2
<1>4. QOK(Q3) /\ Orderly(Q2, Q3)
  BY <1>3, PadOrderly, PadLemma
<1> HIDE DEF Q3
<1>5. Orderly(P, Q3)
  BY <1>3, <1>4, OrderlyTransitive
<1>6. Respects(q, Q3)
  BY <1>5, PreparedRespects
<1>7. Calm(Q3, R)
  <2>1. Q3 \in QueueType
    BY <1>4 DEF QOK
  <2>2. /\ R.executing = Q3.executing /\ R.ready = Q3.ready /\ R.owner = Q3.owner
        /\ R.maxExecuting = Q3.maxExecuting
        /\ R.maxReadyOrExecuting = Q3.maxReadyOrExecuting
    BY <2>1 DEF QueueType
  <2> QED BY <2>2, ListsKeptCalm
<1> HIDE DEF R
<1> QED BY <1>1, <1>6, <1>7, CalmRespects

(***************************************************************************)
(* onReady() in all its cases.                                             *)
(***************************************************************************)
LEMMA OnReadyRespects ==
    ASSUME IInv, NEW w \in Workers, OnReady(w)
    PROVE  Respects(q, q')
<1> DEFINE t == comp[w].task
<1>1. comp[w].pc = "onReady" /\ QOK(q)
  BY DEF OnReady, IInv
<1>2. t \in Tasks /\ q.owner[t] = "Executing"
  BY <1>1, CompletingTask
<1> HIDE DEF t
<1>3. Prepared(q, q) /\ Orderly(q, q)
  <2>1. Prepared(q, q)
    BY DEF Prepared
  <2>2. Scheduled(q, q) = {}
    BY DEF Scheduled
  <2>3. ASSUME NEW a \in Tasks, NEW b \in Tasks, Ahead(q, a, b) PROVE q.owner[b] = "Pending"
    BY <1>1, <2>3, AheadPending
  <2> QED BY <2>1, <2>2, <2>3 DEF Orderly
<1>4. ASSUME NEW throws, OnReadyDone(w, throws) PROVE Respects(q, q')
  <2>1. CompleteTask(w, t, q, task, task[t].failed \/ throws)
    BY <1>4 DEF OnReadyDone, t
  <2> QED BY <1>1, <1>2, <1>3, <2>1, CompleteTaskRespects
<1>5. ASSUME OnReadySelf(w) PROVE Respects(q, q')
  <2> DEFINE Q1 == [MoveExecutingTaskToPendingQueue(q, t) EXCEPT !.activeWorkGeneration = @ + 1]
  <2>1. q' = PadExecutingQueue(Q1)
    BY <1>5 DEF OnReadySelf, t
  <2>2. QOK(Q1) /\ Prepared(q, Q1)
    BY <1>1, <1>2, RequeuePrepared
  <2> HIDE DEF Q1
  <2> QED BY <2>1, <2>2, PadOrderly, PreparedRespects
<1>6. ASSUME NEW u \in Tasks, OnReadyOther(w, u) PROVE Respects(q, q')
  <2> DEFINE P == Link(q, u, FALSE, FALSE)
             Q == PadExecutingQueue(P)
             T == Schedule(task, Scheduled(q, Q))
  <2>1. /\ u # t /\ q.owner[u] \in {"None", "Ready"}
        /\ CompleteTask(w, t, Q, T, task[t].failed)
    BY <1>6 DEF OnReadyOther, PushInternalNoLock, t
  <2>2. QOK(P) /\ Prepared(q, P)
    <3>1. FALSE \in BOOLEAN
      OBVIOUS
    <3> QED BY <1>1, <2>1, <3>1, LinkPrepared
  <2>3. P.owner[t] = "Executing"
    <3>1. P.owner = [q.owner EXCEPT ![u] = "Pending"]
      <4>1. P.owner = [q.owner EXCEPT ![u] = IF FALSE THEN "Ready" ELSE "Pending"]
        BY <1>1, <2>1, LinkLemma
      <4> QED BY <4>1
    <3>2. q.owner \in [Tasks -> OwnerQueues]
      BY <1>1, QOKFields
    <3> HIDE DEF P
    <3> QED BY <1>2, <2>1, <3>1, <3>2
  <2> HIDE DEF P
  <2>4. QOK(Q) /\ Orderly(P, Q) /\ Q.owner[t] = "Executing"
    BY <1>2, <2>2, <2>3, PadLemma, PadOrderly
  <2> HIDE DEF Q, T
  <2> QED BY <1>1, <1>2, <2>1, <2>2, <2>4, CompleteTaskRespects
<1>7. CASE q' = q
  BY <1>1, <1>7, NothingStarted
<1> QED BY <1>4, <1>5, <1>6, <1>7 DEF OnReady

(***************************************************************************)
(* Every step.                                                             *)
(***************************************************************************)
LEMMA NextRespects == IInv /\ [Next]_vars => Respects(q, q')
<1> SUFFICES ASSUME IInv, [Next]_vars PROVE Respects(q, q')
  OBVIOUS
<1>0. QOK(q)
  BY DEF IInv
<1>1. ASSUME q'.owner = q.owner PROVE Respects(q, q')
  BY <1>0, <1>1, NothingStarted
<1>2. ASSUME NEW w \in Workers, WorkerStep(w) PROVE Respects(q, q')
  <2>1. CASE Complete(w)
    BY <1>1, <2>1 DEF Complete, NotifyReady
  <2>2. CASE OnReady(w)
    BY <2>2, OnReadyRespects
  <2>3. CASE BeginCallback(w)
    BY <1>1, <2>3 DEF BeginCallback
  <2>4. CASE EndCallback(w)
    BY <1>1, <2>4 DEF EndCallback
  <2>5. CASE ValidateCandidate(w)
    <3>1. q \in QueueType
      BY <1>0 DEF QOK
    <3>2. q' = [q EXCEPT !.lastPublishedGeneration = comp[w].candidate] \/ q' = q
      BY <2>5 DEF ValidateCandidate
    <3>3. q'.owner = q.owner
      BY <3>1, <3>2 DEF QueueType
    <3> QED BY <1>1, <3>3
  <2> QED BY <1>2, <2>1, <2>2, <2>3, <2>4, <2>5 DEF WorkerStep
<1>3. ASSUME NEW th \in Threads, Wake(th) PROVE Respects(q, q')
  BY <1>0, <1>3, OthersRespect, WakeWaitRespects, WakeFlushRespects DEF Wake
<1>4. ASSUME NEW th \in Threads, ClientCall(th) PROVE Respects(q, q')
  <2>1. ASSUME NEW t \in Tasks, NEW isBack \in BOOLEAN, NEW dontSchedule \in BOOLEAN,
               Push(th, t, isBack, dontSchedule) PROVE Respects(q, q')
    BY <1>0, <2>1, PushRespects
  <2>2. ASSUME NEW op \in {"pop", "top"}, NEW wait \in BOOLEAN, GetFirstReady(th, op, wait)
        PROVE  Respects(q, q')
    BY <1>0, <2>2, GetFirstReadyRespects
  <2>3. ASSUME NEW t \in Tasks, NEW prioritize \in BOOLEAN, NEW cancel \in BOOLEAN,
               Wait(th, t, prioritize, cancel) PROVE Respects(q, q')
    BY <1>0, <2>3, WaitRespects
  <2>4. CASE \/ \E t \in Tasks : Cancel(th, t) \/ Prioritize(th, t)
             \/ \E options \in Options : SetOptions(th, options)
    BY <1>0, <2>4, OthersRespect
  <2>5. CASE Flush(th) \/ Dispose(th) \/ \E wait \in BOOLEAN : CancelAll(th, wait)
    BY <1>0, <2>5, FlushRespects DEF Flush, Dispose, CancelAll
  <2>6. ASSUME NEW limit \in ThrottleLimits, SetThrottleLimit(th, limit) PROVE Respects(q, q')
    BY <1>0, <2>6, SetThrottleLimitRespects
  <2>7. ASSUME NEW observer \in BOOLEAN, NEW limit \in ObserverLimits, NEW mask \in EventMasks,
               NEW delivery \in Deliveries,
               SetNotifyCallback(th, observer, limit, mask, delivery) PROVE Respects(q, q')
    BY <1>0, <2>7, SetNotifyCallbackRespects
  <2> QED BY <1>4, <2>1, <2>2, <2>3, <2>4, <2>5, <2>6, <2>7 DEF ClientCall
<1>5. CASE DisconnectObserver
  <2>1. q'.owner = q.owner
    BY <1>0, <1>5 DEF DisconnectObserver, QOK, QueueType
  <2> QED BY <1>1, <2>1
<1>6. CASE UNCHANGED vars
  BY <1>1, <1>6 DEF vars
<1> QED BY <1>2, <1>3, <1>4, <1>5, <1>6 DEF Next

(***************************************************************************)
(* A step that schedules a task ends within both limits, however the       *)
(* limits were changed before it, and whichever continuations are          *)
(* scheduled while the completing task is still counted.                   *)
(***************************************************************************)
THEOREM LimitsAreRespected == Spec => ThrottleRespected
<1> DEFINE A == Scheduled(q, q') # {} => WithinLimits(q')
<1>1. IInv /\ [Next]_vars => [A]_vars
  BY NextRespects DEF Respects
<1> HIDE DEF A
<1>2. Spec => [][A]_vars
  BY <1>1, Invariance, PTL DEF Spec
<1> QED BY <1>2 DEF ThrottleRespected, A

(***************************************************************************)
(* No task is scheduled by a step that leaves one ahead of it pending.     *)
(***************************************************************************)
THEOREM TasksStartInOrder == Spec => NoOvertaking
<1> DEFINE A == \A i, j \in 1..Len(q.pending) :
                   i < j /\ q'.owner[q.pending[j]] = "Executing"
                      => q'.owner[q.pending[i]] # "Pending"
<1>1. ASSUME IInv, [Next]_vars PROVE A
  <2> SUFFICES ASSUME NEW i \in 1..Len(q.pending), NEW j \in 1..Len(q.pending), i < j,
                      q'.owner[q.pending[j]] = "Executing"
               PROVE  q'.owner[q.pending[i]] # "Pending"
    OBVIOUS
  <2>1. q.pending \in Seq(Tasks) /\ Respects(q, q')
    BY <1>1, NextRespects, QOKFields DEF IInv
  <2>2. q.pending[i] \in Tasks /\ q.pending[j] \in Tasks
    BY <2>1
  <2>3. Ahead(q, q.pending[i], q.pending[j])
    BY DEF Ahead
  <2> QED BY <2>1, <2>2, <2>3 DEF Respects
<1>2. IInv /\ [Next]_vars => [A]_vars
  BY <1>1
<1> HIDE DEF A
<1>3. Spec => [][A]_vars
  BY <1>2, Invariance, PTL DEF Spec
<1> QED BY <1>3 DEF NoOvertaking, A

-----------------------------------------------------------------------------
(***************************************************************************)
(* What the observer is told.                                              *)
(***************************************************************************)

\* m_lastPublishedGeneration is a candidate's, and that one is a generation of work.
GenerationsKnown(Q) ==
    /\ Q.lastPublishedGeneration <= Q.lastCandidateGeneration
    /\ Q.lastCandidateGeneration <= Q.activeWorkGeneration

\* The inductive invariant of the notifications.
ReportInv ==
    /\ IInv
    /\ SerializedExclusive
    /\ GenerationsKnown(q)
    /\ ObserverLimits \subseteq {0} => DrainIsReported

\* What a section that completes no task does: it publishes nothing, forms no
\* candidate, and does not drain a queue that was not drained.
ReportsNothing(Q, R) ==
    /\ R.lastPublishedGeneration = Q.lastPublishedGeneration
    /\ R.lastCandidateGeneration = Q.lastCandidateGeneration
    /\ R.activeWorkGeneration >= Q.activeWorkGeneration
    /\ Q.maxReadyOrExecuting = 0 /\ Drained(R) => Drained(Q)

(***************************************************************************)
(* The worker's place after a lock section keeps the candidate it formed.  *)
(***************************************************************************)
LEMMA AfterLockCandidate ==
    ASSUME NEW Q, NEW event, NEW candidate
    PROVE  /\ AfterLock(Q, event, candidate).candidate = candidate
           /\ AfterLock(Q, event, candidate).pc # "callback"
BY DEF AfterLock, Idle

(***************************************************************************)
(* A section that leaves the workers where they are keeps the invariant of *)
(* the notifications.                                                      *)
(***************************************************************************)
LEMMA NothingReported ==
    ASSUME ReportInv, IInv', ReportsNothing(q, q'), UNCHANGED <<comp, notifyOwner>>
    PROVE  ReportInv'
<1>1. SerializedExclusive'
  BY DEF ReportInv, SerializedExclusive
<1>2. GenerationsKnown(q')
  <2>1. q.activeWorkGeneration \in Nat /\ q'.activeWorkGeneration \in Nat
    BY QOKFields DEF ReportInv, IInv
  <2>2. q.lastCandidateGeneration \in Nat /\ q.lastPublishedGeneration \in Nat
    BY DEF ReportInv, IInv, QOK, QueueType
  <2> QED BY <2>1, <2>2 DEF ReportInv, GenerationsKnown, ReportsNothing
<1>3. ASSUME ObserverLimits \subseteq {0} PROVE DrainIsReported'
  <2>1. q.maxReadyOrExecuting = 0
    BY <1>3 DEF ReportInv, IInv, WaitersOK
  <2> QED BY <1>3, <2>1 DEF ReportInv, DrainIsReported, ReportsNothing
<1> QED BY <1>1, <1>2, <1>3 DEF ReportInv

(***************************************************************************)
(* Without an observer's limit the queue is drained by completions only:   *)
(* while a task is not ready, one is executing.                            *)
(***************************************************************************)
LEMMA QuietReports ==
    ASSUME NEW Q, NEW R, QOK(Q), WC(Q), QOK(R),
           \A t \in Tasks : Q.owner[t] = "Executing" => R.owner[t] = "Executing",
           R.lastPublishedGeneration = Q.lastPublishedGeneration,
           R.lastCandidateGeneration = Q.lastCandidateGeneration,
           R.activeWorkGeneration >= Q.activeWorkGeneration
    PROVE  ReportsNothing(Q, R)
<1>1. ASSUME Q.maxReadyOrExecuting = 0, ~Drained(Q) PROVE ~Drained(R)
  <2>1. HasPendingOrExecuting(Q)
    BY <1>1 DEF HasPendingOrExecuting, Drained
  <2>2. Q.executing # <<>>
    BY <1>1, <2>1, WaitersHope
  <2>3. /\ Q.executing \in Seq(Tasks) /\ ListHolds(Q.executing, Q.owner, "Executing")
        /\ R.executing \in Seq(Tasks) /\ ListHolds(R.executing, R.owner, "Executing")
    BY QOKFields
  <2>4. R.executing # <<>>
    BY <2>2, <2>3, ListNonEmpty
  <2> QED BY <2>4 DEF Drained
<1> QED BY <1>1 DEF ReportsNothing

(***************************************************************************)
(* The generations count pushes; nothing else changes them, but for        *)
(* onReady().                                                              *)
(***************************************************************************)
SameGenerations(Q, R) ==
    /\ R.lastPublishedGeneration = Q.lastPublishedGeneration
    /\ R.lastCandidateGeneration = Q.lastCandidateGeneration
    /\ R.activeWorkGeneration = Q.activeWorkGeneration

LEMMA ListsKeepGenerations ==
    ASSUME NEW Q, QOK(Q)
    PROVE  /\ SameGenerations(Q, PadExecutingQueue(Q))
           /\ SameGenerations(Q, ClearPending(Q))
           /\ SameGenerations(Q, ClearReady(Q))
           /\ \A t \in Tasks :
                 /\ Q.owner[t] = "Ready" => SameGenerations(Q, RemoveReady(Q, t))
                 /\ Q.owner[t] = "Pending" =>
                       /\ SameGenerations(Q, PushToFront(Q, t))
                       /\ SameGenerations(Q, UnlinkAndDestroy(Q, t))
                       /\ SameGenerations(Q, MoveTaskToReadyQueue(Q, t))
           /\ \A remove \in BOOLEAN : SameGenerations(Q, TakeFirst(Q, remove))
<1>1. SameGenerations(Q, PadExecutingQueue(Q))
  BY PadLemma DEF SameGenerations, SameSettings
<1>2. SameGenerations(Q, ClearPending(Q)) /\ SameGenerations(Q, ClearReady(Q))
  BY ClearPendingLemma, ClearReadyLemma DEF SameGenerations, SameSettings
<1>3. ASSUME NEW t \in Tasks, Q.owner[t] = "Ready" PROVE SameGenerations(Q, RemoveReady(Q, t))
  BY <1>3, RemoveReadyLemma DEF SameGenerations, SameSettings
<1>4. ASSUME NEW t \in Tasks, Q.owner[t] = "Pending"
      PROVE  /\ SameGenerations(Q, PushToFront(Q, t))
             /\ SameGenerations(Q, UnlinkAndDestroy(Q, t))
             /\ SameGenerations(Q, MoveTaskToReadyQueue(Q, t))
  <2>1. SameGenerations(Q, PushToFront(Q, t))
    BY <1>4, PushToFrontLemma DEF SameGenerations, SameSettings
  <2>2. SameGenerations(Q, UnlinkAndDestroy(Q, t))
    BY <1>4, DropPendingLemma DEF SameGenerations, SameSettings
  <2>3. SameGenerations(Q, MoveTaskToReadyQueue(Q, t))
    BY <1>4, CancelKeepLemma DEF SameGenerations, SameSettings
  <2> QED BY <2>1, <2>2, <2>3
<1>5. ASSUME NEW remove \in BOOLEAN PROVE SameGenerations(Q, TakeFirst(Q, remove))
  <2>1. CASE remove /\ Q.ready # <<>>
    <3>1. Q.ready \in Seq(Tasks) /\ ListHolds(Q.ready, Q.owner, "Ready")
      BY QOKFields
    <3>2. 1 \in 1..Len(Q.ready) /\ Q.ready[1] \in Tasks
      BY <2>1, <3>1
    <3>3. Q.owner[Q.ready[1]] = "Ready"
      BY <3>1, <3>2 DEF ListHolds, IsIn
    <3>4. TakeFirst(Q, remove) = RemoveReady(Q, Q.ready[1])
      BY <2>1 DEF TakeFirst
    <3> QED BY <1>3, <3>2, <3>3, <3>4
  <2>2. CASE ~(remove /\ Q.ready # <<>>)
    BY <2>2 DEF TakeFirst, SameGenerations
  <2> QED BY <2>1, <2>2
<1> QED BY <1>1, <1>2, <1>3, <1>4, <1>5

LEMMA SameTransitive ==
    ASSUME NEW Q, NEW R, NEW S, SameGenerations(Q, R), SameGenerations(R, S)
    PROVE  SameGenerations(Q, S)
BY DEF SameGenerations

LEMMA FlushEndGenerations ==
    ASSUME NEW Q, QOK(Q), NEW T, NEW op, NEW nothrowIfFailed, NEW discardReady
    PROVE  SameGenerations(Q, FlushEnd(Q, T, op, nothrowIfFailed, discardReady))
<1> DEFINE throws == ~nothrowIfFailed /\ \E i \in 1..Len(Q.ready) : T[Q.ready[i]].failed
           Q1 == IF throws \/ discardReady THEN ClearReady(Q) ELSE Q
           R == [Q1 EXCEPT !.disposed = TRUE]
<1>1. /\ QOK(ClearReady(Q)) /\ SameGenerations(Q, ClearReady(Q))
      /\ SameGenerations(Q, Q)
  BY ClearReadyLemma, ListsKeepGenerations DEF SameGenerations
<1> HIDE DEF throws
<1>2. QOK(Q1) /\ SameGenerations(Q, Q1)
  BY <1>1
<1> HIDE DEF Q1
<1>3. SameGenerations(Q, R)
  BY <1>2 DEF QOK, QueueType, SameGenerations
<1>4. FlushEnd(Q, T, op, nothrowIfFailed, discardReady) = IF op = "dispose" THEN R ELSE Q1
  BY DEF FlushEnd, Q1, throws
<1> QED BY <1>2, <1>3, <1>4

(***************************************************************************)
(* Tasks are scheduled or left as they are.                                *)
(***************************************************************************)
OnlyScheduled(T, U) == \A t \in Tasks : U[t].state \in {T[t].state, "Running"}

LEMMA ScheduleOnly ==
    ASSUME NEW T \in [Tasks -> TaskType], NEW S
    PROVE  Schedule(T, S) \in [Tasks -> TaskType] /\ OnlyScheduled(T, Schedule(T, S))
<1>1. ASSUME NEW t \in Tasks
      PROVE  Schedule(T, S)[t] \in TaskType /\ Schedule(T, S)[t].state \in {T[t].state, "Running"}
  BY DEF Schedule, TaskType
<1> QED BY <1>1 DEF Schedule, OnlyScheduled

(***************************************************************************)
(* A step that leaves the workers where they are, schedules tasks at most, *)
(* and keeps the generations but for new work.                             *)
(***************************************************************************)
LEMMA ClientReports ==
    ASSUME ReportInv, IInv', UNCHANGED <<comp, notifyOwner>>, OnlyScheduled(task, task'),
           q'.lastPublishedGeneration = q.lastPublishedGeneration,
           q'.lastCandidateGeneration = q.lastCandidateGeneration,
           q'.activeWorkGeneration >= q.activeWorkGeneration
    PROVE  ReportInv'
<1>1. /\ QOK(q) /\ WC(q) /\ QOK(q') /\ OneCompletionPerRun /\ OneCompletionPerRun'
      /\ task' \in [Tasks -> TaskType]
  BY DEF ReportInv, IInv
<1>2. ASSUME NEW t \in Tasks, q.owner[t] = "Executing" PROVE q'.owner[t] = "Executing"
  <2>1. CASE task'[t].state = "Running"
    BY <1>1, <2>1 DEF OneCompletionPerRun
  <2>2. CASE task'[t].state # "Running"
    <3>1. task'[t].state = task[t].state
      BY <2>2 DEF OnlyScheduled
    <3>2. task[t].state = "PendingCompletion"
      BY <1>1, <1>2, <2>2, <3>1 DEF OneCompletionPerRun
    <3>3. PICK w \in Workers : comp[w].pc = "onReady" /\ comp[w].task = t
      BY <1>1, <1>2, <3>2 DEF OneCompletionPerRun
    <3>4. comp'[w].pc = "onReady" /\ comp'[w].task = t
      BY <3>3
    <3> QED BY <1>1, <3>4 DEF OneCompletionPerRun
  <2> QED BY <2>1, <2>2
<1>3. ReportsNothing(q, q')
  BY <1>1, <1>2, QuietReports
<1> QED BY <1>3, NothingReported

LEMMA SameReports ==
    ASSUME ReportInv, IInv', UNCHANGED <<comp, notifyOwner>>, OnlyScheduled(task, task'),
           SameGenerations(q, q')
    PROVE  ReportInv'
<1>1. q.activeWorkGeneration \in Nat
  BY QOKFields DEF ReportInv, IInv
<1>2. q'.activeWorkGeneration >= q.activeWorkGeneration
  BY <1>1 DEF SameGenerations
<1> QED BY <1>2, ClientReports DEF SameGenerations

(***************************************************************************)
(* The operations of the queue report nothing.                             *)
(***************************************************************************)
LEMMA ClientCallReports ==
    ASSUME ReportInv, IInv', NEW th \in Threads, ClientCall(th)
    PROVE  ReportInv'
<1>0. /\ QOK(q) /\ q \in QueueType /\ q.activeWorkGeneration \in Nat
      /\ task \in [Tasks -> TaskType]
  BY QOKFields DEF ReportInv, IInv, QOK
<1> DEFINE Q == PadExecutingQueue(q)
<1>a. QOK(Q) /\ SameGenerations(q, Q)
  BY <1>0, PadLemma, ListsKeepGenerations
<1>1. ASSUME NEW t \in Tasks, NEW isBack \in BOOLEAN, NEW dontSchedule \in BOOLEAN,
             Push(th, t, isBack, dontSchedule) PROVE ReportInv'
  <2> DEFINE L == Link(q, t, isBack, dontSchedule)
  <2>1. /\ q.owner[t] \in {"None", "Ready"} /\ q' = PadExecutingQueue(L)
        /\ task' = Schedule(task, Scheduled(q, q')) /\ UNCHANGED <<comp, notifyOwner>>
    BY <1>1 DEF Push, PushInternalNoLock
  <2>2. QOK(L) /\ SameSettings(q, L)
    BY <1>0, <2>1, LinkLemma
  <2>3. L.activeWorkGeneration \in {q.activeWorkGeneration, q.activeWorkGeneration + 1}
    BY <1>0 DEF Link, QueueType
  <2> HIDE DEF L
  <2>4. SameGenerations(L, q')
    BY <2>1, <2>2, ListsKeepGenerations
  <2>5. /\ q'.lastPublishedGeneration = q.lastPublishedGeneration
        /\ q'.lastCandidateGeneration = q.lastCandidateGeneration
        /\ q'.activeWorkGeneration >= q.activeWorkGeneration
    BY <1>0, <2>2, <2>3, <2>4 DEF SameGenerations, SameSettings
  <2>6. OnlyScheduled(task, task')
    BY <1>0, <2>1, ScheduleOnly
  <2> QED BY <2>1, <2>5, <2>6, ClientReports
<1>2. ASSUME NEW op \in {"pop", "top"}, NEW wait \in BOOLEAN, GetFirstReady(th, op, wait)
      PROVE  ReportInv'
  <2>1. /\ q' = Q \/ q' = TakeFirst(Q, op = "pop")
        /\ task' = Schedule(task, Scheduled(q, Q)) /\ UNCHANGED <<comp, notifyOwner>>
    BY <1>2 DEF GetFirstReady
  <2> HIDE DEF Q
  <2>2. SameGenerations(Q, TakeFirst(Q, op = "pop"))
    BY <1>a, ListsKeepGenerations
  <2>3. SameGenerations(q, q')
    BY <1>a, <2>1, <2>2, SameTransitive
  <2>4. OnlyScheduled(task, task')
    BY <1>0, <2>1, ScheduleOnly
  <2> QED BY <2>1, <2>3, <2>4, SameReports
<1>3. ASSUME NEW t \in Tasks, NEW prioritize \in BOOLEAN, NEW cancel \in BOOLEAN,
             Wait(th, t, prioritize, cancel) PROVE ReportInv'
  <2> DEFINE sleeps == Q.owner[t] = "Executing" \/ (Q.owner[t] = "Pending" /\ ~cancel)
             front == IF prioritize /\ Q.owner[t] = "Pending" THEN PushToFront(Q, t) ELSE Q
             T == Schedule(task, Scheduled(q, Q))
             T1 == RequestCancel(T, IF cancel THEN {t} ELSE {})
             Q2 == PadExecutingQueue(front)
  <2>1. /\ q' = CASE sleeps -> Q2
                  [] Q.owner[t] = "Ready" -> RemoveReady(Q, t)
                  [] Q.owner[t] = "Pending" /\ cancel -> UnlinkAndDestroy(Q, t)
                  [] OTHER -> Q
        /\ task' = IF sleeps THEN Schedule(T1, Scheduled(front, Q2)) ELSE T
        /\ UNCHANGED <<comp, notifyOwner>>
    BY <1>3 DEF Wait
  <2> HIDE DEF Q
  <2>2. T \in [Tasks -> TaskType] /\ OnlyScheduled(task, T)
    BY <1>0, ScheduleOnly
  <2> HIDE DEF T
  <2>3. T1 \in [Tasks -> TaskType] /\ \A u \in Tasks : T1[u].state = T[u].state
    BY <2>2, RequestCancelKeeps
  <2> HIDE DEF T1
  <2>4. OnlyScheduled(task, task')
    <3>1. OnlyScheduled(T1, Schedule(T1, Scheduled(front, Q2)))
      BY <2>3, ScheduleOnly
    <3> HIDE DEF sleeps, front, Q2
    <3>2. task' = T \/ task' = Schedule(T1, Scheduled(front, Q2))
      BY <2>1
    <3> QED BY <2>2, <2>3, <3>1, <3>2 DEF OnlyScheduled
  <2>5. QOK(front) /\ SameGenerations(Q, front)
    <3>1. Q.owner[t] = "Pending" => QOK(PushToFront(Q, t)) /\ SameGenerations(Q, PushToFront(Q, t))
      BY <1>a, PushToFrontLemma, ListsKeepGenerations
    <3> QED BY <1>a, <3>1 DEF SameGenerations
  <2> HIDE DEF front
  <2>6. SameGenerations(Q, Q2)
    <3>1. SameGenerations(front, Q2)
      BY <2>5, ListsKeepGenerations
    <3> QED BY <2>5, <3>1, SameTransitive
  <2> HIDE DEF Q2
  <2>7. SameGenerations(Q, q')
    <3>1. CASE sleeps
      <4>1. q' = Q2
        <5>1. ~(Q.owner[t] = "Ready") /\ ~(Q.owner[t] = "Pending" /\ cancel)
          BY <3>1
        <5> HIDE DEF sleeps
        <5> QED BY <2>1, <3>1, <5>1
      <4> QED BY <2>6, <4>1
    <3>2. CASE ~sleeps
      <4>1. \/ Q.owner[t] = "Ready" /\ q' = RemoveReady(Q, t)
            \/ Q.owner[t] = "Pending" /\ q' = UnlinkAndDestroy(Q, t)
            \/ q' = Q
        <5> HIDE DEF sleeps
        <5> QED BY <2>1, <3>2
      <4> QED BY <1>a, <4>1, ListsKeepGenerations DEF SameGenerations
    <3> QED BY <3>1, <3>2
  <2>8. SameGenerations(q, q')
    BY <1>a, <2>7, SameTransitive
  <2> QED BY <2>1, <2>4, <2>8, SameReports
<1>4. ASSUME NEW t \in Tasks, Prioritize(th, t) PROVE ReportInv'
  <2>1. /\ q' = PushToFront(q, t) /\ q.owner[t] = "Pending"
        /\ UNCHANGED <<task, comp, notifyOwner>>
    BY <1>4 DEF Prioritize
  <2>2. SameGenerations(q, q')
    BY <1>0, <2>1, ListsKeepGenerations
  <2> QED BY <2>1, <2>2, SameReports DEF OnlyScheduled
<1>5. ASSUME NEW op, NEW wait, NEW m, FlushInternal(th, op, wait, m) PROVE ReportInv'
  <2> DEFINE Q1 == IF m.discardPending THEN ClearPending(q) ELSE Q
             T1 == Schedule(task, Scheduled(q, Q1))
             T2 == RequestCancel(T1, IF m.cancelExecuting
                                     THEN {t \in Tasks : Q1.owner[t] = "Executing"} ELSE {})
  <2>1. /\ q' = Q1 \/ q' = FlushEnd(Q1, T2, op, m.nothrowIfFailed, m.discardReady)
        /\ task' = T2 /\ UNCHANGED <<comp, notifyOwner>>
    BY <1>5 DEF FlushInternal
  <2>2. QOK(Q1) /\ SameGenerations(q, Q1)
    <3>1. QOK(ClearPending(q)) /\ SameGenerations(q, ClearPending(q))
      BY <1>0, ClearPendingLemma, ListsKeepGenerations
    <3> HIDE DEF Q
    <3> QED BY <1>a, <3>1
  <2> HIDE DEF Q1
  <2>3. T1 \in [Tasks -> TaskType] /\ OnlyScheduled(task, T1)
    BY <1>0, ScheduleOnly
  <2> HIDE DEF T1
  <2>4. \A u \in Tasks : T2[u].state = T1[u].state
    BY <2>3, RequestCancelKeeps
  <2> HIDE DEF T2
  <2>5. OnlyScheduled(task, task')
    BY <2>1, <2>3, <2>4 DEF OnlyScheduled
  <2>6. SameGenerations(Q1, FlushEnd(Q1, T2, op, m.nothrowIfFailed, m.discardReady))
    BY <2>2, FlushEndGenerations
  <2>7. SameGenerations(q, q')
    BY <2>1, <2>2, <2>6, SameTransitive
  <2> QED BY <2>1, <2>5, <2>7, SameReports
<1>6. ASSUME NEW t \in Tasks, Cancel(th, t) PROVE ReportInv'
  <2>1. /\ q.owner[t] = "Pending" /\ UNCHANGED <<task, comp, notifyOwner>>
        /\ q' = MoveTaskToReadyQueue(q, t) \/ q' = UnlinkAndDestroy(q, t)
    BY <1>6 DEF Cancel
  <2>2. SameGenerations(q, q')
    BY <1>0, <2>1, ListsKeepGenerations
  <2> QED BY <2>1, <2>2, SameReports DEF OnlyScheduled
<1>7. ASSUME NEW Q1, QOK(Q1), SameGenerations(q, Q1), q' = PadExecutingQueue(Q1),
             task' = Schedule(task, Scheduled(Q1, q')), UNCHANGED <<comp, notifyOwner>>
      PROVE  ReportInv'
  <2>1. SameGenerations(q, q')
    BY <1>7, ListsKeepGenerations, SameTransitive
  <2>2. OnlyScheduled(task, task')
    BY <1>0, <1>7, ScheduleOnly
  <2> QED BY <1>7, <2>1, <2>2, SameReports
<1>8. ASSUME NEW limit \in ThrottleLimits, SetThrottleLimit(th, limit) PROVE ReportInv'
  <2> DEFINE Q1 == [q EXCEPT !.maxExecuting = limit]
  <2>1. /\ Q1 \in QueueType /\ SameGenerations(q, Q1)
        /\ Q1.pending = q.pending /\ Q1.executing = q.executing
        /\ Q1.ready = q.ready /\ Q1.owner = q.owner /\ Q1.executingCount = q.executingCount
        /\ Q1.readyCount = q.readyCount
    BY <1>0, ConstantsAssumption DEF QueueType, SameGenerations
  <2>2. /\ q' = PadExecutingQueue(Q1) /\ task' = Schedule(task, Scheduled(Q1, q'))
        /\ UNCHANGED <<comp, notifyOwner>>
    BY <1>8 DEF SetThrottleLimit
  <2> HIDE DEF Q1
  <2>3. QOK(Q1)
    BY <1>0, <2>1 DEF QOK, ListsConsistent
  <2> QED BY <1>7, <2>1, <2>2, <2>3
<1>9. ASSUME NEW options \in Options, SetOptions(th, options) PROVE ReportInv'
  <2>1. SameGenerations(q, q') /\ UNCHANGED <<task, comp, notifyOwner>>
    BY <1>0, <1>9 DEF SetOptions, QueueType, SameGenerations
  <2> QED BY <2>1, SameReports DEF OnlyScheduled
<1>10. ASSUME NEW observer \in BOOLEAN, NEW limit \in ObserverLimits, NEW mask \in EventMasks,
              NEW delivery \in Deliveries,
              SetNotifyCallback(th, observer, limit, mask, delivery) PROVE ReportInv'
  <2> DEFINE Q1 == [q EXCEPT !.observer = observer, !.eventsMask = mask,
                             !.delivery = delivery,
                             !.maxReadyOrExecuting = IF observer THEN limit ELSE 0]
  <2>0. limit \in Nat /\ mask \in SUBSET Events /\ delivery \in {"Concurrent", "Serialized"}
    BY ConstantsAssumption
  <2>1. /\ Q1 \in QueueType /\ SameGenerations(q, Q1)
        /\ Q1.pending = q.pending /\ Q1.executing = q.executing
        /\ Q1.ready = q.ready /\ Q1.owner = q.owner /\ Q1.executingCount = q.executingCount
        /\ Q1.readyCount = q.readyCount
    BY <1>0, <2>0 DEF QueueType, SameGenerations
  <2>2. /\ q' = PadExecutingQueue(Q1) /\ task' = Schedule(task, Scheduled(Q1, q'))
        /\ UNCHANGED <<comp, notifyOwner>>
    BY <1>10 DEF SetNotifyCallback
  <2> HIDE DEF Q1
  <2>3. QOK(Q1)
    BY <1>0, <2>1 DEF QOK, ListsConsistent
  <2> QED BY <1>7, <2>1, <2>2, <2>3
<1>11. CASE Flush(th) \/ Dispose(th) \/ \E wait \in BOOLEAN : CancelAll(th, wait)
  BY <1>5, <1>11 DEF Flush, Dispose, CancelAll
<1> HIDE DEF Q
<1> QED BY <1>1, <1>2, <1>3, <1>4, <1>6, <1>8, <1>9, <1>10, <1>11, Zenon DEF ClientCall

(***************************************************************************)
(* A thread that wakes reports nothing.                                    *)
(***************************************************************************)
LEMMA WakeReports ==
    ASSUME ReportInv, IInv', NEW th \in Threads, Wake(th)
    PROVE  ReportInv'
<1>0. QOK(q) /\ task \in [Tasks -> TaskType] /\ CallOK(call) /\ SameGenerations(q, q)
  BY DEF ReportInv, IInv, SameGenerations
<1>1. ASSUME WakeGetFirstReady(th) PROVE ReportInv'
  <2>1. /\ q' = q \/ q' = TakeFirst(q, call[th].op = "pop")
        /\ UNCHANGED <<task, comp, notifyOwner>>
    BY <1>1 DEF WakeGetFirstReady
  <2>2. SameGenerations(q, TakeFirst(q, call[th].op = "pop"))
    BY <1>0, ListsKeepGenerations
  <2> QED BY <1>0, <2>1, <2>2, SameReports DEF OnlyScheduled
<1>2. ASSUME WakeWait(th) PROVE ReportInv'
  <2> DEFINE Q == PadExecutingQueue(q)
             t == call[th].task
  <2>1. /\ q' = IF Q.owner[t] = "Ready" THEN RemoveReady(Q, t) ELSE Q
        /\ task' = Schedule(task, Scheduled(q, Q)) /\ UNCHANGED <<comp, notifyOwner>>
    BY <1>2 DEF WakeWait
  <2>2. t \in Tasks
    BY <1>0, <1>2 DEF WakeWait, CallOK
  <2>3. QOK(Q) /\ SameGenerations(q, Q)
    BY <1>0, PadLemma, ListsKeepGenerations
  <2> HIDE DEF Q, t
  <2>4. Q.owner[t] = "Ready" => SameGenerations(Q, RemoveReady(Q, t))
    BY <2>2, <2>3, ListsKeepGenerations
  <2>5. SameGenerations(q, q')
    BY <2>1, <2>3, <2>4, SameTransitive
  <2>6. OnlyScheduled(task, task')
    BY <1>0, <2>1, ScheduleOnly
  <2> QED BY <2>1, <2>5, <2>6, SameReports
<1>3. ASSUME WakeFlush(th) PROVE ReportInv'
  <2>1. /\ \/ q' = q
           \/ q' = FlushEnd(q, task, call[th].op, call[th].nothrowIfFailed,
                            call[th].discardReady)
        /\ UNCHANGED <<task, comp, notifyOwner>>
    BY <1>3 DEF WakeFlush
  <2>2. SameGenerations(q, q')
    BY <1>0, <2>1, FlushEndGenerations
  <2> QED BY <2>1, <2>2, SameReports DEF OnlyScheduled
<1> QED BY <1>1, <1>2, <1>3 DEF Wake

(***************************************************************************)
(* A worker whose place is not in a callback, before or after, leaves the  *)
(* holder of m_lockNotify alone.                                           *)
(***************************************************************************)
LEMMA WorkerKeepsExclusive ==
    ASSUME SerializedExclusive, comp \in [Workers -> CompType], NEW w \in Workers, NEW x,
           comp[w].pc # "callback", x.pc # "callback",
           comp' = [comp EXCEPT ![w] = x], notifyOwner' = notifyOwner
    PROVE  SerializedExclusive'
<1> SUFFICES ASSUME NEW v \in Workers
             PROVE  comp'[v].pc = "callback" /\ comp'[v].serialize <=> notifyOwner' = v
  BY DEF SerializedExclusive
<1>1. comp[v].pc = "callback" /\ comp[v].serialize <=> notifyOwner = v
  BY DEF SerializedExclusive
<1>2. CASE v = w
  <2>1. comp'[v] = x
    BY <1>2
  <2> QED BY <1>1, <1>2, <2>1
<1>3. CASE v # w
  <2>1. comp'[v] = comp[v]
    BY <1>3
  <2> QED BY <1>1, <2>1
<1> QED BY <1>2, <1>3

(***************************************************************************)
(* A worker that brings a completion shows that the queue is not drained.  *)
(***************************************************************************)
LEMMA ExecutingNotDrained ==
    ASSUME NEW Q, QOK(Q), NEW t \in Tasks, Q.owner[t] \in {"Pending", "Executing"}
    PROVE  ~Drained(Q)
BY OwnerHope DEF HasPendingOrExecuting, Drained

(***************************************************************************)
(* The body of a task ends.                                                *)
(***************************************************************************)
LEMMA NotifyReadyReports ==
    ASSUME ReportInv, IInv', NEW w \in Workers, NEW t \in Tasks, NEW failed \in BOOLEAN,
           NotifyReady(w, t, failed)
    PROVE  ReportInv'
<1> DEFINE x == [Idle EXCEPT !.pc = "onReady", !.task = t]
<1>1. /\ comp \in [Workers -> CompType] /\ SerializedExclusive /\ QOK(q)
      /\ GenerationsKnown(q) /\ OneCompletionPerRun
  BY DEF ReportInv, IInv
<1>2. /\ comp' = [comp EXCEPT ![w] = x] /\ comp[w].pc = "idle" /\ task[t].state = "Running"
      /\ UNCHANGED <<q, notifyOwner>>
  BY DEF NotifyReady
<1>3. x.pc # "callback"
  BY DEF Idle
<1> HIDE DEF x
<1>4. SerializedExclusive'
  BY <1>1, <1>2, <1>3, WorkerKeepsExclusive
<1>5. ~Drained(q)
  BY <1>1, <1>2, ExecutingNotDrained DEF OneCompletionPerRun
<1>6. GenerationsKnown(q') /\ DrainIsReported'
  BY <1>1, <1>2, <1>5 DEF DrainIsReported
<1> QED BY <1>4, <1>6 DEF ReportInv

(***************************************************************************)
(* A worker moves on with the candidate it has, and the queue stays.       *)
(***************************************************************************)
LEMMA CandidateKept ==
    ASSUME ReportInv, IInv', comp \in [Workers -> CompType], NEW w \in Workers, NEW x,
           comp' = [comp EXCEPT ![w] = x], x.candidate = comp[w].candidate,
           SerializedExclusive', q' = q
    PROVE  ReportInv'
<1>1. \A v \in Workers : comp'[v].candidate = comp[v].candidate
  <2> SUFFICES ASSUME NEW v \in Workers PROVE comp'[v].candidate = comp[v].candidate
    OBVIOUS
  <2>1. comp'[v] = IF v = w THEN x ELSE comp[v]
    OBVIOUS
  <2> QED BY <2>1
<1>2. DrainIsReported => DrainIsReported'
  BY <1>1 DEF DrainIsReported
<1>3. GenerationsKnown(q')
  BY DEF ReportInv
<1> QED BY <1>2, <1>3 DEF ReportInv

(***************************************************************************)
(* The observer's callback begins, and ends.                               *)
(***************************************************************************)
LEMMA BeginCallbackReports ==
    ASSUME ReportInv, IInv', NEW w \in Workers, BeginCallback(w)
    PROVE  ReportInv'
<1> DEFINE x == [comp[w] EXCEPT !.pc = "callback"]
<1>1. /\ comp \in [Workers -> CompType] /\ comp[w] \in CompType /\ SerializedExclusive
  BY DEF ReportInv, IInv
<1>2. /\ comp' = [comp EXCEPT ![w] = x] /\ q' = q /\ comp[w].pc = "notify"
      /\ comp[w].serialize => notifyOwner = Null
      /\ notifyOwner' = IF comp[w].serialize THEN w ELSE notifyOwner
  BY DEF BeginCallback
<1>3. /\ x.pc = "callback" /\ x.serialize = comp[w].serialize
      /\ x.candidate = comp[w].candidate
  BY <1>1 DEF CompType
<1> HIDE DEF x
<1>4. SerializedExclusive'
  <2> SUFFICES ASSUME NEW v \in Workers
               PROVE  comp'[v].pc = "callback" /\ comp'[v].serialize <=> notifyOwner' = v
    BY DEF SerializedExclusive
  <2>1. /\ comp[v].pc = "callback" /\ comp[v].serialize <=> notifyOwner = v
        /\ comp[w].pc = "callback" /\ comp[w].serialize <=> notifyOwner = w
    BY <1>1 DEF SerializedExclusive
  <2>2. comp'[v] = IF v = w THEN x ELSE comp[v]
    BY <1>1, <1>2
  <2>3. Null # v
    BY ConstantsAssumption DEF Threads
  <2> QED BY <1>2, <1>3, <2>1, <2>2, <2>3
<1> QED BY <1>1, <1>2, <1>3, <1>4, CandidateKept

LEMMA EndCallbackReports ==
    ASSUME ReportInv, IInv', NEW w \in Workers, EndCallback(w)
    PROVE  ReportInv'
<1> DEFINE x == AfterLock(q, "none", comp[w].candidate)
<1>1. /\ comp \in [Workers -> CompType] /\ SerializedExclusive
  BY DEF ReportInv, IInv
<1>2. /\ comp' = [comp EXCEPT ![w] = x] /\ q' = q /\ comp[w].pc = "callback"
      /\ notifyOwner' = IF comp[w].serialize THEN Null ELSE notifyOwner
  BY DEF EndCallback
<1>3. x.candidate = comp[w].candidate /\ x.pc # "callback"
  BY AfterLockCandidate
<1> HIDE DEF x
<1>4. SerializedExclusive'
  <2> SUFFICES ASSUME NEW v \in Workers
               PROVE  comp'[v].pc = "callback" /\ comp'[v].serialize <=> notifyOwner' = v
    BY DEF SerializedExclusive
  <2>1. /\ comp[v].pc = "callback" /\ comp[v].serialize <=> notifyOwner = v
        /\ comp[w].pc = "callback" /\ comp[w].serialize <=> notifyOwner = w
    BY <1>1 DEF SerializedExclusive
  <2>2. comp'[v] = IF v = w THEN x ELSE comp[v]
    BY <1>1, <1>2
  <2>3. Null # v
    BY ConstantsAssumption DEF Threads
  <2> QED BY <1>2, <1>3, <2>1, <2>2, <2>3
<1> QED BY <1>1, <1>2, <1>3, <1>4, CandidateKept

(***************************************************************************)
(* The candidate is validated.  If it is the latest one and the queue is   *)
(* drained, it is published, or was.                                       *)
(***************************************************************************)
LEMMA ValidateCandidateReports ==
    ASSUME ReportInv, IInv', NEW w \in Workers, ValidateCandidate(w)
    PROVE  ReportInv'
<1> DEFINE g == comp[w].candidate
           publish == /\ Drained(q)
                      /\ q.lastCandidateGeneration = g
                      /\ q.lastPublishedGeneration < g
           x == IF publish THEN AfterLock(q, "AllTasksCompleted", 0) ELSE Idle
           R == [q EXCEPT !.lastPublishedGeneration = g]
<1>1. /\ comp \in [Workers -> CompType] /\ SerializedExclusive /\ q \in QueueType
      /\ GenerationsKnown(q) /\ g \in Nat
      /\ q.lastPublishedGeneration \in Nat /\ q.lastCandidateGeneration \in Nat
  BY DEF ReportInv, IInv, QOK, QueueType, CompType
<1>2. /\ comp' = [comp EXCEPT ![w] = x] /\ comp[w].pc = "validate"
      /\ q' = (IF publish THEN R ELSE q)
      /\ notifyOwner' = notifyOwner
  BY DEF ValidateCandidate
<1>3. x.pc # "callback"
  <2>1. Idle.pc # "callback"
    BY DEF Idle
  <2> HIDE DEF Idle, publish
  <2> QED BY <2>1, AfterLockCandidate
<1>4. /\ R.lastPublishedGeneration = g /\ R.lastCandidateGeneration = q.lastCandidateGeneration
      /\ R.activeWorkGeneration = q.activeWorkGeneration
      /\ R.pending = q.pending /\ R.executing = q.executing
  BY <1>1 DEF QueueType
<1> HIDE DEF R, x
<1>5. SerializedExclusive'
  BY <1>1, <1>2, <1>3, WorkerKeepsExclusive
<1>6. CASE publish
  <2>1. GenerationsKnown(q')
    BY <1>1, <1>2, <1>4, <1>6 DEF GenerationsKnown
  <2>2. DrainIsReported'
    BY <1>2, <1>4, <1>6 DEF DrainIsReported
  <2> QED BY <1>5, <2>1, <2>2 DEF ReportInv
<1>7. CASE ~publish
  <2>1. q' = q
    BY <1>2, <1>7
  <2>2. ASSUME DrainIsReported, Drained(q),
               q.lastPublishedGeneration # q.lastCandidateGeneration
        PROVE  \E v \in Workers : comp'[v].candidate = q.lastCandidateGeneration
    <3>1. PICK v \in Workers : comp[v].candidate = q.lastCandidateGeneration
      BY <2>2 DEF DrainIsReported
    <3>2. v # w
      BY <1>1, <1>7, <2>2, <3>1 DEF GenerationsKnown
    <3>3. comp'[v] = comp[v]
      BY <1>1, <1>2, <3>2
    <3> QED BY <3>1, <3>3
  <2>3. DrainIsReported => DrainIsReported'
    BY <2>1, <2>2 DEF DrainIsReported, Drained
  <2> QED BY <1>1, <1>5, <2>1, <2>3 DEF ReportInv
<1> QED BY <1>6, <1>7

(***************************************************************************)
(* A task completes: if the queue is drained now, this worker has the      *)
(* candidate of the latest generation.                                     *)
(***************************************************************************)
LEMMA CompleteTaskReports ==
    ASSUME ReportInv, IInv', NEW w \in Workers, comp[w].pc = "onReady",
           NEW t \in Tasks, NEW Q, QOK(Q), Q.owner[t] = "Executing",
           Q.lastPublishedGeneration = q.lastPublishedGeneration,
           Q.lastCandidateGeneration = q.lastCandidateGeneration,
           Q.activeWorkGeneration >= q.activeWorkGeneration,
           NEW T, NEW failed, CompleteTask(w, t, Q, T, failed)
    PROVE  ReportInv'
<1> DEFINE keep == KeepTask(Q, failed)
           Q1 == [Q EXCEPT !.executingCount = @ - 1]
           Q2 == IF keep THEN MoveTaskToReadyQueue(Q1, t) ELSE UnlinkAndDestroy(Q1, t)
           Q3 == PadExecutingQueue(Q2)
           candidate == IF Drained(Q3) THEN Q3.activeWorkGeneration ELSE 0
           R == [Q3 EXCEPT !.lastCandidateGeneration = Q3.activeWorkGeneration]
           x == AfterLock(Q3, IF keep THEN "TaskReady" ELSE "TaskDiscarded", candidate)
<1>1. /\ comp \in [Workers -> CompType] /\ SerializedExclusive /\ q \in QueueType
      /\ GenerationsKnown(q)
      /\ q.lastPublishedGeneration \in Nat /\ q.lastCandidateGeneration \in Nat
      /\ q.activeWorkGeneration \in Nat /\ Q.activeWorkGeneration \in Nat
  BY DEF ReportInv, IInv, QOK, QueueType
<1>2. /\ q' = IF Drained(Q3) THEN R ELSE Q3
      /\ comp' = [comp EXCEPT ![w] = x] /\ notifyOwner' = notifyOwner
  BY DEF CompleteTask
<1>3. x.pc # "callback" /\ x.candidate = candidate
  BY AfterLockCandidate
<1> HIDE DEF x
<1>4. SerializedExclusive'
  BY <1>1, <1>2, <1>3, WorkerKeepsExclusive
<1>5. QOK(Q2) /\ SameGenerations(Q, Q2)
  <2>1. keep \in BOOLEAN
    BY DEF KeepTask
  <2> HIDE DEF keep
  <2>2. /\ QOK(Q2) /\ SameSettings(Q, Q2)
        /\ Q2.activeWorkGeneration = Q.activeWorkGeneration
    BY <2>1, FinishLemma
  <2> HIDE DEF Q2
  <2> QED BY <2>2 DEF SameGenerations, SameSettings
<1> HIDE DEF Q2
<1>6. QOK(Q3) /\ SameGenerations(Q, Q3)
  BY <1>5, PadLemma, ListsKeepGenerations, SameTransitive
<1> HIDE DEF Q3
<1>7. /\ Q3.lastPublishedGeneration = q.lastPublishedGeneration
      /\ Q3.lastCandidateGeneration = q.lastCandidateGeneration
      /\ Q3.activeWorkGeneration >= q.activeWorkGeneration
      /\ Q3.activeWorkGeneration \in Nat
  BY <1>1, <1>6 DEF SameGenerations
<1>8. /\ R.lastPublishedGeneration = Q3.lastPublishedGeneration
      /\ R.lastCandidateGeneration = Q3.activeWorkGeneration
      /\ R.activeWorkGeneration = Q3.activeWorkGeneration
  BY <1>6 DEF QOK, QueueType
<1> HIDE DEF R
<1>9. CASE Drained(Q3)
  <2>1. q' = R
    BY <1>2, <1>9
  <2>2. GenerationsKnown(q')
    BY <1>1, <1>7, <1>8, <2>1 DEF GenerationsKnown
  <2>3. comp'[w].candidate = Q3.activeWorkGeneration
    <3>1. comp'[w] = x
      BY <1>1, <1>2
    <3> QED BY <1>3, <1>9, <3>1
  <2>4. DrainIsReported'
    BY <1>8, <2>1, <2>3 DEF DrainIsReported
  <2> QED BY <1>4, <2>2, <2>4 DEF ReportInv
<1>10. CASE ~Drained(Q3)
  <2>1. q' = Q3
    BY <1>2, <1>10
  <2>2. GenerationsKnown(q')
    BY <1>1, <1>7, <2>1 DEF GenerationsKnown
  <2>3. DrainIsReported'
    BY <1>10, <2>1 DEF DrainIsReported, Drained
  <2> QED BY <1>4, <2>2, <2>3 DEF ReportInv
<1> QED BY <1>9, <1>10

(***************************************************************************)
(* onReady() in all its cases.                                             *)
(***************************************************************************)
LEMMA OnReadyReports ==
    ASSUME ReportInv, IInv', NEW w \in Workers, OnReady(w)
    PROVE  ReportInv'
<1> DEFINE t == comp[w].task
<1>1. /\ comp[w].pc = "onReady" /\ IInv /\ QOK(q) /\ comp \in [Workers -> CompType]
      /\ SerializedExclusive /\ GenerationsKnown(q)
      /\ q.activeWorkGeneration \in Nat /\ q \in QueueType
      /\ q.lastCandidateGeneration \in Nat
  BY DEF OnReady, ReportInv, IInv, QOK, QueueType
<1>2. t \in Tasks /\ q.owner[t] = "Executing"
  BY <1>1, CompletingTask
<1> HIDE DEF t
<1>3. ~q.disposed
  <2>1. ~Drained(q)
    BY <1>1, <1>2, ExecutingNotDrained
  <2> QED BY <1>1, <2>1 DEF IInv, DisposedIsEmpty, IsEmptyInternal, Drained
<1>4. ASSUME NEW throws, OnReadyDone(w, throws) PROVE ReportInv'
  <2>1. CompleteTask(w, t, q, task, task[t].failed \/ throws)
    BY <1>4 DEF OnReadyDone, t
  <2>2. q.activeWorkGeneration >= q.activeWorkGeneration
    BY <1>1
  <2> QED BY <1>1, <1>2, <2>1, <2>2, CompleteTaskReports
<1>5. ASSUME OnReadySelf(w) PROVE ReportInv'
  <2> DEFINE Q1 == [MoveExecutingTaskToPendingQueue(q, t) EXCEPT !.activeWorkGeneration = @ + 1]
  <2>1. /\ q' = PadExecutingQueue(Q1) /\ comp' = [comp EXCEPT ![w] = Idle]
        /\ notifyOwner' = notifyOwner
    BY <1>5 DEF OnReadySelf, t
  <2>2. QOK(Q1) /\ SameSettings(q, Q1) /\ Q1.owner = [q.owner EXCEPT ![t] = "Pending"]
    BY <1>1, <1>2, RequeueLemma
  <2>3. Q1.activeWorkGeneration = q.activeWorkGeneration + 1
    BY <1>1 DEF MoveExecutingTaskToPendingQueue, QueueType
  <2>4. Q1.owner[t] = "Pending"
    BY <1>1, <1>2, <2>2, QOKFields
  <2> HIDE DEF Q1
  <2>5. QOK(q') /\ q'.owner[t] \in {"Pending", "Executing"} /\ SameGenerations(Q1, q')
    BY <1>2, <2>1, <2>2, <2>4, PadLemma, ListsKeepGenerations
  <2>6. ~Drained(q')
    BY <1>2, <2>5, ExecutingNotDrained
  <2>7. DrainIsReported'
    BY <2>6 DEF DrainIsReported, Drained
  <2>8. GenerationsKnown(q')
    BY <1>1, <2>2, <2>3, <2>5 DEF GenerationsKnown, SameGenerations, SameSettings
  <2>9. SerializedExclusive'
    <3>1. Idle.pc # "callback"
      BY DEF Idle
    <3> HIDE DEF Idle
    <3> QED BY <1>1, <2>1, <3>1, WorkerKeepsExclusive
  <2> QED BY <2>7, <2>8, <2>9 DEF ReportInv
<1>6. ASSUME NEW u \in Tasks, OnReadyOther(w, u) PROVE ReportInv'
  <2> DEFINE P == Link(q, u, FALSE, FALSE)
             Q == PadExecutingQueue(P)
             T == Schedule(task, Scheduled(q, Q))
  <2>1. /\ u # t /\ q.owner[u] \in {"None", "Ready"}
        /\ CompleteTask(w, t, Q, T, task[t].failed)
    BY <1>6 DEF OnReadyOther, PushInternalNoLock, t
  <2>2. QOK(P) /\ SameSettings(q, P) /\ P.owner = [q.owner EXCEPT ![u] = "Pending"]
    <3>1. FALSE \in BOOLEAN
      OBVIOUS
    <3>2. /\ QOK(P) /\ SameSettings(q, P)
          /\ P.owner = [q.owner EXCEPT ![u] = IF FALSE THEN "Ready" ELSE "Pending"]
      BY <1>1, <2>1, <3>1, LinkLemma
    <3> QED BY <3>2
  <2>3. P.activeWorkGeneration = q.activeWorkGeneration + 1
    BY <1>1 DEF Link, QueueType
  <2> HIDE DEF P
  <2>4. P.owner[t] = "Executing"
    <3>1. q.owner \in [Tasks -> OwnerQueues]
      BY <1>1, QOKFields
    <3> QED BY <1>2, <2>1, <2>2, <3>1
  <2>5. QOK(Q) /\ Q.owner[t] = "Executing" /\ SameGenerations(P, Q)
    BY <1>2, <2>2, <2>4, PadLemma, ListsKeepGenerations
  <2> HIDE DEF Q, T
  <2>6. /\ Q.lastPublishedGeneration = q.lastPublishedGeneration
        /\ Q.lastCandidateGeneration = q.lastCandidateGeneration
        /\ Q.activeWorkGeneration >= q.activeWorkGeneration
    BY <1>1, <2>2, <2>3, <2>5 DEF SameGenerations, SameSettings
  <2> QED BY <1>1, <1>2, <2>1, <2>5, <2>6, CompleteTaskReports
<1> QED BY <1>3, <1>4, <1>5, <1>6 DEF OnReady

(***************************************************************************)
(* A new queue, and every step.                                            *)
(***************************************************************************)
LEMMA InitReports == Init => ReportInv
<1> SUFFICES ASSUME Init PROVE ReportInv
  OBVIOUS
<1>1. IInv
  BY InitInvariant
<1>2. /\ q.lastPublishedGeneration = 0 /\ q.lastCandidateGeneration = 0
      /\ q.activeWorkGeneration = 0
  BY DEF Init
<1>3. \A w \in Workers : comp[w].pc = "idle" /\ notifyOwner # w
  BY ConstantsAssumption DEF Init, Idle, Threads
<1>4. SerializedExclusive
  BY <1>3 DEF SerializedExclusive
<1> QED BY <1>1, <1>2, <1>4 DEF ReportInv, GenerationsKnown, DrainIsReported

LEMMA NextReports == ReportInv /\ [Next]_vars => ReportInv'
<1> SUFFICES ASSUME ReportInv, [Next]_vars PROVE ReportInv'
  OBVIOUS
<1>1. IInv'
  BY NextInvariant DEF ReportInv
<1>2. ASSUME NEW w \in Workers, WorkerStep(w) PROVE ReportInv'
  BY <1>1, <1>2, NotifyReadyReports, OnReadyReports, BeginCallbackReports, EndCallbackReports,
     ValidateCandidateReports DEF WorkerStep, Complete
<1>3. ASSUME NEW th \in Threads, Wake(th) PROVE ReportInv'
  BY <1>1, <1>3, WakeReports
<1>4. ASSUME NEW th \in Threads, ClientCall(th) PROVE ReportInv'
  BY <1>1, <1>4, ClientCallReports
<1>5. CASE DisconnectObserver
  <2>1. SameGenerations(q, q') /\ UNCHANGED <<task, comp, notifyOwner>>
    BY <1>5 DEF DisconnectObserver, ReportInv, IInv, QOK, QueueType, SameGenerations
  <2> QED BY <1>1, <2>1, SameReports DEF OnlyScheduled
<1>6. CASE UNCHANGED vars
  <2>1. SameGenerations(q, q') /\ UNCHANGED <<task, comp, notifyOwner>>
    BY <1>6 DEF vars, SameGenerations
  <2> QED BY <1>1, <2>1, SameReports DEF OnlyScheduled
<1> QED BY <1>2, <1>3, <1>4, <1>5, <1>6 DEF Next

LEMMA ReportsInvariant == Spec => []ReportInv
BY InitReports, NextReports, PTL DEF Spec

(***************************************************************************)
(* Never two serialized callbacks at once, for any number of workers,      *)
(* whichever registrations the callbacks were bound under.                 *)
(***************************************************************************)
THEOREM CallbacksAreSerialized == Spec => []SerializedExclusive
<1>1. ReportInv => SerializedExclusive
  BY DEF ReportInv
<1> QED BY <1>1, ReportsInvariant, PTL

(***************************************************************************)
(* When no observer limits the ready and executing tasks, the final        *)
(* AllTasksCompleted is not lost: while the latest drain is not published  *)
(* and the queue is drained, a worker brings its candidate.                *)
(***************************************************************************)
THEOREM FinalDrainIsReported ==
    ASSUME ObserverLimits \subseteq {0}
    PROVE  Spec => []DrainIsReported
<1>1. ReportInv => DrainIsReported
  BY DEF ReportInv
<1> QED BY <1>1, ReportsInvariant, PTL

=============================================================================
