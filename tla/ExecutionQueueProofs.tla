------------------------ MODULE ExecutionQueueProofs ------------------------
(***************************************************************************)
(* Proofs about ExecutionQueue: lemmas on the lists, on each operator that *)
(* changes the queue, and the inductive invariant.                         *)
(***************************************************************************)
EXTENDS ExecutionQueue, SequenceTheorems, TLAPS

(***************************************************************************)
(* Lists.                                                                  *)
(***************************************************************************)

\* Unlinking a task removes that task and nothing else from a list.
LEMMA UnlinkLemma ==
    ASSUME NEW s \in Seq(Tasks), NEW t \in Tasks, IsIn(s, t), NoDuplicates(s)
    PROVE  /\ Unlink(s, t) \in Seq(Tasks)
           /\ Len(Unlink(s, t)) = Len(s) - 1
           /\ NoDuplicates(Unlink(s, t))
           /\ \A u \in Tasks : IsIn(Unlink(s, t), u) <=> IsIn(s, u) /\ u # t
<1> DEFINE k == CHOOSE i \in 1..Len(s) : s[i] = t
           r == Unlink(s, t)
<1>1. k \in 1..Len(s) /\ s[k] = t
  BY DEF IsIn
<1> HIDE DEF k
<1>2. r = SubSeq(s, 1, k - 1) \o SubSeq(s, k + 1, Len(s))
  BY DEF Unlink, k
<1> DEFINE a == SubSeq(s, 1, k - 1)
           b == SubSeq(s, k + 1, Len(s))
<1>a. /\ a \in Seq(Tasks) /\ Len(a) = k - 1
      /\ \A i \in 1..(k - 1) : a[i] = s[i]
  BY <1>1, SubSeqProperties
<1>b. /\ b \in Seq(Tasks) /\ Len(b) = Len(s) - k
      /\ \A i \in 1..(Len(s) - k) : b[i] = s[k + i]
  BY <1>1, SubSeqProperties
<1> HIDE DEF r, a, b
<1>3. r \in Seq(Tasks) /\ Len(r) = Len(s) - 1
  <2>1. r = a \o b
    BY <1>2 DEF a, b
  <2>2. r \in Seq(Tasks) /\ Len(r) = Len(a) + Len(b)
    BY <1>a, <1>b, <2>1, ConcatProperties, Zenon
  <2> QED BY <1>1, <1>a, <1>b, <2>2
<1>4. ASSUME NEW i \in 1..Len(r) PROVE r[i] = IF i < k THEN s[i] ELSE s[i + 1]
  <2>1. r = a \o b
    BY <1>2 DEF a, b
  <2>2. r[i] = IF i <= Len(a) THEN a[i] ELSE b[i - Len(a)]
    BY <1>1, <1>3, <1>a, <1>b, <2>1, ConcatProperties
  <2> QED BY <1>1, <1>3, <1>a, <1>b, <2>2
<1>5. NoDuplicates(r)
  BY <1>1, <1>3, <1>4 DEF NoDuplicates
<1>6. ASSUME NEW u \in Tasks PROVE IsIn(r, u) <=> IsIn(s, u) /\ u # t
  <2>1. ASSUME IsIn(r, u) PROVE IsIn(s, u) /\ u # t
    <3>1. PICK i \in 1..Len(r) : r[i] = u
      BY <2>1 DEF IsIn
    <3>2. CASE i < k
      BY <1>1, <1>3, <1>4, <3>1, <3>2 DEF IsIn, NoDuplicates
    <3>3. CASE ~(i < k)
      BY <1>1, <1>3, <1>4, <3>1, <3>3 DEF IsIn, NoDuplicates
    <3> QED BY <3>2, <3>3
  <2>2. ASSUME IsIn(s, u), u # t PROVE IsIn(r, u)
    <3>1. PICK i \in 1..Len(s) : s[i] = u
      BY <2>2 DEF IsIn
    <3>2. CASE i < k
      BY <1>1, <1>3, <1>4, <3>1, <3>2 DEF IsIn
    <3>3. CASE i > k
      <4>1. i - 1 \in 1..Len(r) /\ r[i - 1] = u
        BY <1>1, <1>3, <1>4, <3>1, <3>3
      <4> QED BY <4>1 DEF IsIn
    <3> QED BY <1>1, <2>2, <3>1, <3>2, <3>3
  <2> QED BY <2>1, <2>2
<1> QED BY <1>3, <1>5, <1>6 DEF r

\* Inserting a task that is not in a list adds that task and nothing else.
LEMMA InsertLemma ==
    ASSUME NEW s \in Seq(Tasks), NEW t \in Tasks, ~IsIn(s, t), NoDuplicates(s),
           NEW isBack \in BOOLEAN
    PROVE  /\ Insert(s, t, isBack) \in Seq(Tasks)
           /\ Len(Insert(s, t, isBack)) = Len(s) + 1
           /\ NoDuplicates(Insert(s, t, isBack))
           /\ \A u \in Tasks : IsIn(Insert(s, t, isBack), u) <=> IsIn(s, u) \/ u = t
<1> DEFINE r == Insert(s, t, isBack)
<1>1. CASE isBack
  <2>1. r = Append(s, t)
    BY <1>1 DEF Insert
  <2>2. r \in Seq(Tasks) /\ Len(r) = Len(s) + 1
    BY <2>1
  <2>3. \A i \in 1..Len(r) : r[i] = IF i = Len(s) + 1 THEN t ELSE s[i]
    BY <2>1, <2>2
  <2> HIDE DEF r
  <2>4. NoDuplicates(r)
    BY <2>2, <2>3 DEF NoDuplicates, IsIn
  <2>5. \A u \in Tasks : IsIn(r, u) <=> IsIn(s, u) \/ u = t
    BY <2>2, <2>3 DEF IsIn
  <2> QED BY <2>2, <2>4, <2>5 DEF r
<1>2. CASE ~isBack
  <2>1. r = <<t>> \o s
    BY <1>2 DEF Insert
  <2>2. r \in Seq(Tasks) /\ Len(r) = Len(s) + 1
    BY <2>1
  <2>3. \A i \in 1..Len(r) : r[i] = IF i = 1 THEN t ELSE s[i - 1]
    BY <2>1, <2>2
  <2> HIDE DEF r
  <2>4. NoDuplicates(r)
    BY <2>2, <2>3 DEF NoDuplicates, IsIn
  <2>5. ASSUME NEW u \in Tasks PROVE IsIn(r, u) <=> IsIn(s, u) \/ u = t
    <3>1. ASSUME NEW i \in 1..Len(s), s[i] = u PROVE IsIn(r, u)
      <4>1. i + 1 \in 1..Len(r) /\ r[i + 1] = u
        BY <2>2, <2>3, <3>1
      <4> QED BY <4>1 DEF IsIn
    <3>2. u = t => IsIn(r, u)
      BY <2>2, <2>3 DEF IsIn
    <3>3. IsIn(r, u) => IsIn(s, u) \/ u = t
      BY <2>2, <2>3 DEF IsIn
    <3> QED BY <3>1, <3>2, <3>3 DEF IsIn
  <2> QED BY <2>2, <2>4, <2>5 DEF r
<1> QED BY <1>1, <1>2

\* Moving the first n tasks of one list to the end of another.
LEMMA SplitLemma ==
    ASSUME NEW s \in Seq(Tasks), NoDuplicates(s),
           NEW x \in Seq(Tasks), NoDuplicates(x),
           \A u \in Tasks : ~(IsIn(s, u) /\ IsIn(x, u)),
           NEW n \in 0..Len(s)
    PROVE  /\ SubSeq(s, n + 1, Len(s)) \in Seq(Tasks)
           /\ Len(SubSeq(s, n + 1, Len(s))) = Len(s) - n
           /\ NoDuplicates(SubSeq(s, n + 1, Len(s)))
           /\ \A u \in Tasks : IsIn(SubSeq(s, n + 1, Len(s)), u)
                 <=> IsIn(s, u) /\ ~\E i \in 1..n : s[i] = u
           /\ x \o SubSeq(s, 1, n) \in Seq(Tasks)
           /\ Len(x \o SubSeq(s, 1, n)) = Len(x) + n
           /\ NoDuplicates(x \o SubSeq(s, 1, n))
           /\ \A u \in Tasks : IsIn(x \o SubSeq(s, 1, n), u)
                 <=> IsIn(x, u) \/ \E i \in 1..n : s[i] = u
<1> DEFINE a == SubSeq(s, 1, n)
           b == SubSeq(s, n + 1, Len(s))
           r == x \o a
<1>1. /\ a \in Seq(Tasks) /\ Len(a) = n
      /\ \A i \in 1..n : a[i] = s[i]
  BY SubSeqProperties
<1>2. /\ b \in Seq(Tasks) /\ Len(b) = Len(s) - n
      /\ \A i \in 1..(Len(s) - n) : b[i] = s[n + i]
  BY SubSeqProperties
<1> HIDE DEF a, b
<1>3. r \in Seq(Tasks) /\ Len(r) = Len(x) + Len(a)
  BY <1>1, ConcatProperties, Zenon
<1>4. ASSUME NEW i \in 1..Len(r)
      PROVE  r[i] = IF i <= Len(x) THEN x[i] ELSE a[i - Len(x)]
  BY <1>1, <1>3, ConcatProperties
<1>5. ASSUME NEW i \in 1..Len(r)
      PROVE  r[i] = IF i <= Len(x) THEN x[i] ELSE s[i - Len(x)]
  BY <1>1, <1>3, <1>4
<1> HIDE DEF r
<1>6. NoDuplicates(b)
  BY <1>2 DEF NoDuplicates
<1>7. ASSUME NEW u \in Tasks
      PROVE  IsIn(b, u) <=> IsIn(s, u) /\ ~\E i \in 1..n : s[i] = u
  <2>1. ASSUME NEW i \in 1..Len(s), s[i] = u, ~\E j \in 1..n : s[j] = u
        PROVE  IsIn(b, u)
    <3>1. i > n
      BY <2>1
    <3>2. i - n \in 1..Len(b) /\ b[i - n] = u
      BY <1>2, <2>1, <3>1
    <3> QED BY <3>2 DEF IsIn
  <2>2. ASSUME NEW i \in 1..Len(b), b[i] = u
        PROVE  IsIn(s, u) /\ ~\E j \in 1..n : s[j] = u
    <3>1. n + i \in 1..Len(s) /\ s[n + i] = u
      BY <1>2, <2>2
    <3> QED BY <3>1 DEF IsIn, NoDuplicates
  <2> QED BY <2>1, <2>2 DEF IsIn
<1>8. NoDuplicates(r)
  <2> SUFFICES ASSUME NEW i \in 1..Len(r), NEW j \in 1..Len(r), r[i] = r[j]
               PROVE  i = j
    BY DEF NoDuplicates
  <2>1. CASE i <= Len(x) /\ j <= Len(x)
    <3>1. r[i] = x[i] /\ i \in 1..Len(x)
      BY <1>5, <2>1
    <3>2. r[j] = x[j] /\ j \in 1..Len(x)
      BY <1>5, <2>1
    <3> QED BY <3>1, <3>2 DEF NoDuplicates
  <2>2. CASE i > Len(x) /\ j > Len(x)
    <3>1. r[i] = s[i - Len(x)] /\ i - Len(x) \in 1..Len(s)
      BY <1>1, <1>3, <1>5, <2>2
    <3>2. r[j] = s[j - Len(x)] /\ j - Len(x) \in 1..Len(s)
      BY <1>1, <1>3, <1>5, <2>2
    <3>3. i - Len(x) = j - Len(x)
      BY <3>1, <3>2, Zenon DEF NoDuplicates
    <3> QED BY <1>3, <3>3
  <2>3. CASE i <= Len(x) /\ j > Len(x)
    <3>1. r[i] = x[i] /\ i \in 1..Len(x)
      BY <1>5, <2>3
    <3>2. r[j] = s[j - Len(x)] /\ j - Len(x) \in 1..Len(s)
      BY <1>1, <1>3, <1>5, <2>3
    <3>3. IsIn(x, r[i]) /\ IsIn(s, r[i])
      BY <3>1, <3>2 DEF IsIn
    <3>4. r[i] \in Tasks
      BY <3>1
    <3> QED BY <3>3, <3>4
  <2>4. CASE i > Len(x) /\ j <= Len(x)
    <3>1. r[j] = x[j] /\ j \in 1..Len(x)
      BY <1>3, <1>5, <2>4
    <3>2. r[i] = s[i - Len(x)] /\ i - Len(x) \in 1..Len(s)
      BY <1>1, <1>3, <1>5, <2>4
    <3>3. IsIn(x, r[j]) /\ IsIn(s, r[j])
      BY <3>1, <3>2 DEF IsIn
    <3>4. r[j] \in Tasks
      BY <3>1
    <3> QED BY <3>3, <3>4
  <2> QED BY <1>3, <2>1, <2>2, <2>3, <2>4
<1>9. ASSUME NEW u \in Tasks
      PROVE  IsIn(r, u) <=> IsIn(x, u) \/ \E i \in 1..n : s[i] = u
  <2>1. ASSUME NEW i \in 1..n, s[i] = u PROVE IsIn(r, u)
    <3>1. Len(x) + i \in 1..Len(r) /\ ~(Len(x) + i <= Len(x))
      BY <1>1, <1>3
    <3>2. r[Len(x) + i] = s[(Len(x) + i) - Len(x)]
      BY <1>5, <3>1
    <3>3. (Len(x) + i) - Len(x) = i
      OBVIOUS
    <3> QED BY <2>1, <3>1, <3>2, <3>3 DEF IsIn
  <2>2. ASSUME NEW i \in 1..Len(x), x[i] = u PROVE IsIn(r, u)
    BY <1>1, <1>3, <1>5, <2>2 DEF IsIn
  <2>3. ASSUME NEW i \in 1..Len(r), r[i] = u
        PROVE  IsIn(x, u) \/ \E j \in 1..n : s[j] = u
    <3>1. CASE i <= Len(x)
      BY <1>3, <1>5, <2>3, <3>1 DEF IsIn
    <3>2. CASE i > Len(x)
      <4>1. i - Len(x) \in 1..n /\ s[i - Len(x)] = u
        BY <1>1, <1>3, <1>5, <2>3, <3>2
      <4> QED BY <4>1
    <3> QED BY <1>3, <3>1, <3>2
  <2> QED BY <2>1, <2>2, <2>3 DEF IsIn
<1> QED BY <1>1, <1>2, <1>3, <1>6, <1>7, <1>8, <1>9 DEF a, b, r

-----------------------------------------------------------------------------
(***************************************************************************)
(* The operators that change the queue keep it well typed and consistent.  *)
(***************************************************************************)

QOK(Q) == Q \in QueueType /\ ListsConsistent(Q)

\* The loop of padExecutingQueueNothrow() ends, at the first iteration that a limit
\* stops or when no task is pending.
LEMMA PadCountLemma ==
    ASSUME NEW Q \in QueueType
    PROVE  /\ PadCount(Q) \in 0..Len(Q.pending)
           /\ \A m \in 0..(PadCount(Q) - 1) : ~Throttled(Q, m)
           /\ PadCount(Q) = Len(Q.pending) \/ Throttled(Q, PadCount(Q))
<1> DEFINE L == Len(Q.pending)
           e == Q.executingCount
           f == Q.readyCount + Q.executingCount
           Room(max, used) == IF max = 0 THEN L
                              ELSE IF max <= used THEN 0
                              ELSE IF max - used < L THEN max - used ELSE L
           A == Room(Q.maxExecuting, e)
           B == Room(Q.maxReadyOrExecuting, f)
           n == IF A < B THEN A ELSE B
<1>1. L \in Nat /\ e \in Nat /\ Q.readyCount \in Nat
      /\ Q.maxExecuting \in Nat /\ Q.maxReadyOrExecuting \in Nat
  BY DEF QueueType
<1>2. A \in 0..L /\ B \in 0..L
  BY <1>1
<1>3. /\ n \in 0..L
      /\ \A m \in 0..(n - 1) : ~Throttled(Q, m)
  <2>1. Q.maxExecuting # 0 => \A m \in 0..(A - 1) : ~(e + m >= Q.maxExecuting)
    BY <1>1
  <2>2. Q.maxReadyOrExecuting # 0
           => \A m \in 0..(B - 1) : ~(f + m >= Q.maxReadyOrExecuting)
    BY <1>1
  <2> HIDE DEF A, B
  <2> QED BY <1>1, <1>2, <2>1, <2>2 DEF Throttled
<1>4. n = L \/ Throttled(Q, n)
  <2>1. A = L \/ (Q.maxExecuting # 0 /\ e + A >= Q.maxExecuting)
    BY <1>1
  <2>2. B = L \/ (Q.maxReadyOrExecuting # 0 /\ f + B >= Q.maxReadyOrExecuting)
    BY <1>1
  <2> HIDE DEF A, B
  <2> QED BY <1>1, <1>2, <2>1, <2>2 DEF Throttled
<1> HIDE DEF n
<1> QED BY <1>3, <1>4 DEF PadCount

\* What no operation on the lists changes.
SameSettings(Q, R) ==
    /\ R.maxExecuting = Q.maxExecuting
    /\ R.maxReadyOrExecuting = Q.maxReadyOrExecuting
    /\ R.options = Q.options
    /\ R.observer = Q.observer
    /\ R.eventsMask = Q.eventsMask
    /\ R.delivery = Q.delivery
    /\ R.disposed = Q.disposed
    /\ R.lastPublishedGeneration = Q.lastPublishedGeneration
    /\ R.lastCandidateGeneration = Q.lastCandidateGeneration

\* padExecutingQueueNothrow() keeps the queue consistent, only moves pending tasks to
\* the executing queue, and leaves a task pending only if a limit stops it.
LEMMA PadLemma ==
    ASSUME NEW Q, QOK(Q)
    PROVE  /\ QOK(PadExecutingQueue(Q))
           /\ SameSettings(Q, PadExecutingQueue(Q))
           /\ PadExecutingQueue(Q).activeWorkGeneration = Q.activeWorkGeneration
           /\ PadExecutingQueue(Q).ready = Q.ready
           /\ PadExecutingQueue(Q).pending # <<>> => Throttled(PadExecutingQueue(Q), 0)
           /\ Len(PadExecutingQueue(Q).executing) >= Len(Q.executing)
           /\ \A t \in Tasks :
                 \/ PadExecutingQueue(Q).owner[t] = Q.owner[t]
                 \/ Q.owner[t] = "Pending" /\ PadExecutingQueue(Q).owner[t] = "Executing"
<1> DEFINE R == PadExecutingQueue(Q)
           n == PadCount(Q)
           s == Q.pending
<1>0. Q \in QueueType /\ ListsConsistent(Q)
  BY DEF QOK
<1>1. /\ n \in 0..Len(s)
      /\ n = Len(s) \/ Throttled(Q, n)
  BY <1>0, PadCountLemma
<1>2. /\ s \in Seq(Tasks) /\ Q.executing \in Seq(Tasks) /\ Q.ready \in Seq(Tasks)
      /\ Q.owner \in [Tasks -> OwnerQueues]
      /\ Q.executingCount \in Nat /\ Q.readyCount \in Nat
      /\ Q.maxExecuting \in Nat /\ Q.maxReadyOrExecuting \in Nat
  BY <1>0 DEF QueueType
<1>3. /\ R.pending = SubSeq(s, n + 1, Len(s))
      /\ R.executing = Q.executing \o SubSeq(s, 1, n)
      /\ R.executingCount = Q.executingCount + n
      /\ R.owner = [t \in Tasks |-> IF \E i \in 1..n : s[i] = t
                                    THEN "Executing" ELSE Q.owner[t]]
      /\ R.ready = Q.ready /\ R.readyCount = Q.readyCount
      /\ R.activeWorkGeneration = Q.activeWorkGeneration
  BY <1>0 DEF PadExecutingQueue, QueueType
<1>4. SameSettings(Q, R)
  BY <1>0 DEF PadExecutingQueue, QueueType, SameSettings
<1>5. /\ R.pending \in Seq(Tasks)
      /\ Len(R.pending) = Len(s) - n
      /\ NoDuplicates(R.pending)
      /\ \A u \in Tasks : IsIn(R.pending, u) <=> IsIn(s, u) /\ ~\E i \in 1..n : s[i] = u
      /\ R.executing \in Seq(Tasks)
      /\ Len(R.executing) = Len(Q.executing) + n
      /\ NoDuplicates(R.executing)
      /\ \A u \in Tasks : IsIn(R.executing, u)
            <=> IsIn(Q.executing, u) \/ \E i \in 1..n : s[i] = u
  <2>1. NoDuplicates(s) /\ NoDuplicates(Q.executing)
    BY <1>0 DEF ListsConsistent, ListHolds
  <2>2. \A u \in Tasks : ~(IsIn(s, u) /\ IsIn(Q.executing, u))
    BY <1>0 DEF ListsConsistent, ListHolds
  <2> DEFINE x == Q.executing
  <2> HIDE DEF n, s, R, x
  <2>3. x \in Seq(Tasks) /\ NoDuplicates(x) /\ \A u \in Tasks : ~(IsIn(s, u) /\ IsIn(x, u))
    BY <1>2, <2>1, <2>2 DEF x
  <2>4. /\ SubSeq(s, n + 1, Len(s)) \in Seq(Tasks)
        /\ Len(SubSeq(s, n + 1, Len(s))) = Len(s) - n
        /\ NoDuplicates(SubSeq(s, n + 1, Len(s)))
        /\ \A u \in Tasks : IsIn(SubSeq(s, n + 1, Len(s)), u)
              <=> IsIn(s, u) /\ ~\E i \in 1..n : s[i] = u
        /\ x \o SubSeq(s, 1, n) \in Seq(Tasks)
        /\ Len(x \o SubSeq(s, 1, n)) = Len(x) + n
        /\ NoDuplicates(x \o SubSeq(s, 1, n))
        /\ \A u \in Tasks : IsIn(x \o SubSeq(s, 1, n), u)
              <=> IsIn(x, u) \/ \E i \in 1..n : s[i] = u
    <3>1. s \in Seq(Tasks) /\ NoDuplicates(s) /\ n \in 0..Len(s)
      BY <1>1, <1>2, <2>1
    <3> QED BY <2>3, <3>1, SplitLemma
  <2>5. R.pending = SubSeq(s, n + 1, Len(s)) /\ R.executing = x \o SubSeq(s, 1, n)
    BY <1>3 DEF x
  <2>6. Len(x) = Len(Q.executing) /\ \A u \in Tasks : IsIn(x, u) <=> IsIn(Q.executing, u)
    BY DEF x
  <2> QED BY <2>4, <2>5, <2>6
<1>6. R \in QueueType
  <2>1. R.owner \in [Tasks -> OwnerQueues]
    <3> DEFINE o == Q.owner
               P(t) == \E i \in 1..n : s[i] = t
    <3>1. o \in [Tasks -> OwnerQueues] /\ "Executing" \in OwnerQueues
      BY <1>2 DEF OwnerQueues
    <3>2. R.owner = [t \in Tasks |-> IF P(t) THEN "Executing" ELSE o[t]]
      BY <1>3
    <3> HIDE DEF P, o, R, n, s
    <3> QED BY <3>1, <3>2
  <2>2. R.executingCount \in Nat
    BY <1>1, <1>2, <1>3
  <2> QED BY <1>0, <1>5, <2>1, <2>2 DEF PadExecutingQueue, QueueType
<1> HIDE DEF R, n
<1>7. \A t \in Tasks : (\E i \in 1..n : s[i] = t) => Q.owner[t] = "Pending"
  BY <1>0, <1>1 DEF ListsConsistent, ListHolds, IsIn
<1>8. \A t \in Tasks : R.owner[t] = IF \E i \in 1..n : s[i] = t
                                    THEN "Executing" ELSE Q.owner[t]
  BY <1>3
<1>9. ListsConsistent(R)
  <2>1. ListHolds(R.pending, R.owner, "Pending")
    BY <1>0, <1>5, <1>7, <1>8 DEF ListsConsistent, ListHolds
  <2>2. ListHolds(R.executing, R.owner, "Executing")
    BY <1>0, <1>5, <1>7, <1>8 DEF ListsConsistent, ListHolds
  <2>3. ListHolds(R.ready, R.owner, "Ready")
    BY <1>0, <1>3, <1>7, <1>8 DEF ListsConsistent, ListHolds
  <2>4. R.executingCount = Len(R.executing) /\ R.readyCount = Len(R.ready)
    BY <1>0, <1>3, <1>5 DEF ListsConsistent
  <2> QED BY <2>1, <2>2, <2>3, <2>4 DEF ListsConsistent
<1>10. R.pending # <<>> => Throttled(R, 0)
  <2>1. R.pending # <<>> => Throttled(Q, n)
    BY <1>1, <1>2, <1>5
  <2>2. Throttled(Q, n) => Throttled(R, 0)
    BY <1>1, <1>2, <1>3, <1>4 DEF Throttled, SameSettings
  <2> QED BY <2>1, <2>2
<1>11. Len(R.executing) >= Len(Q.executing)
  BY <1>1, <1>2, <1>5
<1> QED BY <1>3, <1>4, <1>6, <1>7, <1>8, <1>9, <1>10, <1>11 DEF QOK, R

(***************************************************************************)
(* A list and the owner its tasks name, when one task changes its owner.   *)
(***************************************************************************)

\* The task leaves the list, if it is in it.
LEMMA ListRemove ==
    ASSUME NEW s \in Seq(Tasks), NEW owner \in [Tasks -> OwnerQueues],
           NEW name \in OwnerQueues, ListHolds(s, owner, name), NEW t \in Tasks
    PROVE  /\ UnlinkIfIn(s, t) \in Seq(Tasks)
           /\ owner[t] = name => Len(UnlinkIfIn(s, t)) = Len(s) - 1
           /\ owner[t] # name => UnlinkIfIn(s, t) = s
           /\ NoDuplicates(UnlinkIfIn(s, t))
           /\ \A u \in Tasks : IsIn(UnlinkIfIn(s, t), u) <=> owner[u] = name /\ u # t
<1>1. \A u \in Tasks : IsIn(s, u) <=> owner[u] = name
  BY DEF ListHolds
<1>2. NoDuplicates(s)
  BY DEF ListHolds
<1>3. CASE IsIn(s, t)
  <2>1. UnlinkIfIn(s, t) = Unlink(s, t)
    BY <1>3 DEF UnlinkIfIn
  <2> QED BY <1>1, <1>2, <1>3, <2>1, UnlinkLemma
<1>4. CASE ~IsIn(s, t)
  <2>1. UnlinkIfIn(s, t) = s
    BY <1>4 DEF UnlinkIfIn
  <2> QED BY <1>1, <1>2, <1>4, <2>1
<1> QED BY <1>3, <1>4

\* The task joins the list.
LEMMA ListAdd ==
    ASSUME NEW s \in Seq(Tasks), NEW owner \in [Tasks -> OwnerQueues],
           NEW name \in OwnerQueues, ListHolds(s, owner, name),
           NEW t \in Tasks, owner[t] # name, NEW isBack \in BOOLEAN
    PROVE  /\ Insert(s, t, isBack) \in Seq(Tasks)
           /\ Len(Insert(s, t, isBack)) = Len(s) + 1
           /\ ListHolds(Insert(s, t, isBack), [owner EXCEPT ![t] = name], name)
<1> DEFINE r == Insert(s, t, isBack)
           own == [owner EXCEPT ![t] = name]
<1>1. ~IsIn(s, t) /\ NoDuplicates(s)
  BY DEF ListHolds
<1>2. \A u \in Tasks : own[u] = IF u = t THEN name ELSE owner[u]
  OBVIOUS
<1>3. /\ r \in Seq(Tasks) /\ Len(r) = Len(s) + 1 /\ NoDuplicates(r)
      /\ \A u \in Tasks : IsIn(r, u) <=> IsIn(s, u) \/ u = t
  BY <1>1, InsertLemma
<1> HIDE DEF r, own
<1>4. ListHolds(r, own, name)
  BY <1>2, <1>3 DEF ListHolds
<1> QED BY <1>3, <1>4 DEF r, own

\* What QOK says, with the fields by name.
LEMMA QOKFields ==
    ASSUME NEW Q, QOK(Q)
    PROVE  /\ Q.pending \in Seq(Tasks) /\ Q.executing \in Seq(Tasks) /\ Q.ready \in Seq(Tasks)
           /\ Q.owner \in [Tasks -> OwnerQueues]
           /\ Q.executingCount \in Nat /\ Q.readyCount \in Nat
           /\ Q.activeWorkGeneration \in Nat
           /\ Q.maxExecuting \in Nat /\ Q.maxReadyOrExecuting \in Nat
           /\ ListHolds(Q.pending, Q.owner, "Pending")
           /\ ListHolds(Q.executing, Q.owner, "Executing")
           /\ ListHolds(Q.ready, Q.owner, "Ready")
           /\ Q.executingCount = Len(Q.executing)
           /\ Q.readyCount = Len(Q.ready)
BY DEF QOK, QueueType, ListsConsistent

\* Unlinking a task touches only the list its owner names.
LEMMA UnlinkOwner ==
    ASSUME NEW Q, QOK(Q), NEW t \in Tasks
    PROVE  /\ UnlinkIfIn(Q.pending, t)
                 = IF Q.owner[t] = "Pending" THEN Unlink(Q.pending, t) ELSE Q.pending
           /\ UnlinkIfIn(Q.executing, t)
                 = IF Q.owner[t] = "Executing" THEN Unlink(Q.executing, t) ELSE Q.executing
           /\ UnlinkIfIn(Q.ready, t)
                 = IF Q.owner[t] = "Ready" THEN Unlink(Q.ready, t) ELSE Q.ready
BY QOKFields DEF UnlinkIfIn, ListHolds

\* The lists stay lists of tasks.
LEMMA ListsTyped ==
    ASSUME NEW Q, QOK(Q), NEW t \in Tasks
    PROVE  /\ UnlinkIfIn(Q.pending, t) \in Seq(Tasks)
           /\ UnlinkIfIn(Q.executing, t) \in Seq(Tasks)
           /\ UnlinkIfIn(Q.ready, t) \in Seq(Tasks)
           /\ \A isBack \in BOOLEAN : /\ Insert(Q.pending, t, isBack) \in Seq(Tasks)
                                     /\ Insert(Q.ready, t, isBack) \in Seq(Tasks)
           /\ Append(Q.pending, t) \in Seq(Tasks)
           /\ Append(Q.ready, t) \in Seq(Tasks)
           /\ \A to \in OwnerQueues : [Q.owner EXCEPT ![t] = to] \in [Tasks -> OwnerQueues]
<1>1. /\ Q.pending \in Seq(Tasks) /\ Q.executing \in Seq(Tasks) /\ Q.ready \in Seq(Tasks)
      /\ Q.owner \in [Tasks -> OwnerQueues]
      /\ ListHolds(Q.pending, Q.owner, "Pending")
      /\ ListHolds(Q.executing, Q.owner, "Executing")
      /\ ListHolds(Q.ready, Q.owner, "Ready")
      /\ "Pending" \in OwnerQueues /\ "Executing" \in OwnerQueues /\ "Ready" \in OwnerQueues
  BY QOKFields DEF OwnerQueues
<1>2. /\ UnlinkIfIn(Q.pending, t) \in Seq(Tasks)
      /\ UnlinkIfIn(Q.executing, t) \in Seq(Tasks)
      /\ UnlinkIfIn(Q.ready, t) \in Seq(Tasks)
  BY <1>1, ListRemove
<1>3. <<t>> \o Q.pending \in Seq(Tasks) /\ <<t>> \o Q.ready \in Seq(Tasks)
  BY <1>1
<1> QED BY <1>1, <1>2, <1>3 DEF Insert

(***************************************************************************)
(* R is Q after task t has moved from the list of its owner to the list    *)
(* of its new owner: "None", "Pending" or "Ready".                         *)
(***************************************************************************)
Moved(Q, R, t, to, isBack) ==
    /\ R.owner = [Q.owner EXCEPT ![t] = to]
    /\ R.pending = IF to = "Pending" THEN Insert(Q.pending, t, isBack)
                   ELSE UnlinkIfIn(Q.pending, t)
    /\ R.executing = UnlinkIfIn(Q.executing, t)
    /\ R.ready = IF to = "Ready" THEN Insert(Q.ready, t, isBack)
                 ELSE UnlinkIfIn(Q.ready, t)
    /\ R.executingCount = IF Q.owner[t] = "Executing"
                          THEN Q.executingCount - 1 ELSE Q.executingCount
    /\ R.readyCount = IF to = "Ready" THEN Q.readyCount + 1
                      ELSE IF Q.owner[t] = "Ready" THEN Q.readyCount - 1 ELSE Q.readyCount

\* Moving one task between the lists keeps the queue consistent.
LEMMA MoveLemma ==
    ASSUME NEW Q, QOK(Q), NEW R, NEW t \in Tasks, NEW to \in {"None", "Pending", "Ready"},
           NEW isBack \in BOOLEAN, Q.owner[t] # to, Moved(Q, R, t, to, isBack)
    PROVE  ListsConsistent(R)
<1> DEFINE p == Q.pending
           e == Q.executing
           r == Q.ready
           o == Q.owner
           own == [o EXCEPT ![t] = to]
<1>0. Q \in QueueType
  BY DEF QOK
<1>1. /\ p \in Seq(Tasks) /\ e \in Seq(Tasks) /\ r \in Seq(Tasks)
      /\ o \in [Tasks -> OwnerQueues]
      /\ ListHolds(p, o, "Pending") /\ ListHolds(e, o, "Executing") /\ ListHolds(r, o, "Ready")
      /\ "Pending" \in OwnerQueues /\ "Executing" \in OwnerQueues /\ "Ready" \in OwnerQueues
      /\ to \in OwnerQueues /\ o[t] # to
  BY QOKFields DEF OwnerQueues
<1>2. Q.executingCount = Len(e) /\ Q.readyCount = Len(r)
  BY QOKFields
<1>3. /\ R.pending = IF to = "Pending" THEN Insert(p, t, isBack) ELSE UnlinkIfIn(p, t)
      /\ R.executing = UnlinkIfIn(e, t)
      /\ R.ready = IF to = "Ready" THEN Insert(r, t, isBack) ELSE UnlinkIfIn(r, t)
      /\ R.owner = own
      /\ R.executingCount = IF o[t] = "Executing" THEN Len(e) - 1 ELSE Len(e)
      /\ R.readyCount = IF to = "Ready" THEN Len(r) + 1
                        ELSE IF o[t] = "Ready" THEN Len(r) - 1 ELSE Len(r)
  BY <1>2 DEF Moved
<1> HIDE DEF p, e, r, o
<1>4. /\ R.executing \in Seq(Tasks) /\ R.executingCount = Len(R.executing)
      /\ ListHolds(R.executing, own, "Executing")
  <2>1. /\ UnlinkIfIn(e, t) \in Seq(Tasks)
        /\ o[t] = "Executing" => Len(UnlinkIfIn(e, t)) = Len(e) - 1
        /\ o[t] # "Executing" => UnlinkIfIn(e, t) = e
        /\ NoDuplicates(UnlinkIfIn(e, t))
        /\ \A u \in Tasks : IsIn(UnlinkIfIn(e, t), u) <=> o[u] = "Executing" /\ u # t
    BY <1>1, ListRemove
  <2>2. ListHolds(UnlinkIfIn(e, t), own, "Executing")
    BY <1>1, <2>1 DEF ListHolds
  <2> QED BY <1>1, <1>3, <2>1, <2>2
<1>5. R.pending \in Seq(Tasks) /\ ListHolds(R.pending, own, "Pending")
  <2>1. CASE to = "Pending"
    <3>0. /\ p \in Seq(Tasks) /\ o \in [Tasks -> OwnerQueues] /\ "Pending" \in OwnerQueues
          /\ ListHolds(p, o, "Pending") /\ o[t] # "Pending"
      BY <1>1, <2>1
    <3>1. /\ Insert(p, t, isBack) \in Seq(Tasks) /\ Len(Insert(p, t, isBack)) = Len(p) + 1
          /\ ListHolds(Insert(p, t, isBack), [o EXCEPT ![t] = "Pending"], "Pending")
      BY <3>0, ListAdd
    <3> QED BY <1>3, <2>1, <3>1
  <2>2. CASE to # "Pending"
    <3>1. /\ UnlinkIfIn(p, t) \in Seq(Tasks) /\ NoDuplicates(UnlinkIfIn(p, t))
          /\ \A u \in Tasks : IsIn(UnlinkIfIn(p, t), u) <=> o[u] = "Pending" /\ u # t
      BY <1>1, ListRemove
    <3> QED BY <1>1, <1>3, <2>2, <3>1 DEF ListHolds
  <2> QED BY <2>1, <2>2
<1>6. /\ R.ready \in Seq(Tasks) /\ R.readyCount = Len(R.ready)
      /\ ListHolds(R.ready, own, "Ready")
  <2>1. CASE to = "Ready"
    <3>0. /\ r \in Seq(Tasks) /\ o \in [Tasks -> OwnerQueues] /\ "Ready" \in OwnerQueues
          /\ ListHolds(r, o, "Ready") /\ o[t] # "Ready"
      BY <1>1, <2>1
    <3>1. /\ Insert(r, t, isBack) \in Seq(Tasks) /\ Len(Insert(r, t, isBack)) = Len(r) + 1
          /\ ListHolds(Insert(r, t, isBack), [o EXCEPT ![t] = "Ready"], "Ready")
      BY <3>0, ListAdd
    <3> QED BY <1>3, <2>1, <3>1
  <2>2. CASE to # "Ready"
    <3>1. /\ UnlinkIfIn(r, t) \in Seq(Tasks) /\ NoDuplicates(UnlinkIfIn(r, t))
          /\ o[t] = "Ready" => Len(UnlinkIfIn(r, t)) = Len(r) - 1
          /\ o[t] # "Ready" => UnlinkIfIn(r, t) = r
          /\ \A u \in Tasks : IsIn(UnlinkIfIn(r, t), u) <=> o[u] = "Ready" /\ u # t
      BY <1>1, ListRemove
    <3>2. ListHolds(UnlinkIfIn(r, t), own, "Ready")
      BY <1>1, <2>2, <3>1 DEF ListHolds
    <3> QED BY <1>1, <1>3, <2>2, <3>1, <3>2
  <2> QED BY <2>1, <2>2
<1> QED BY <1>3, <1>4, <1>5, <1>6 DEF ListsConsistent

\* onReady() keeps a completed task as ready, or discards it: the list it leaves and
\* m_executingCount, which are adjusted apart, agree again.
LEMMA FinishLemma ==
    ASSUME NEW Q, QOK(Q), NEW t \in Tasks, Q.owner[t] = "Executing", NEW keep \in BOOLEAN
    PROVE  LET Q1 == [Q EXCEPT !.executingCount = @ - 1]
               R == IF keep THEN MoveTaskToReadyQueue(Q1, t) ELSE UnlinkAndDestroy(Q1, t)
           IN  /\ QOK(R)
               /\ SameSettings(Q, R)
               /\ R.activeWorkGeneration = Q.activeWorkGeneration
               /\ R.owner = [Q.owner EXCEPT ![t] = IF keep THEN "Ready" ELSE "None"]
               /\ R.pending = Q.pending
<1> DEFINE Q1 == [Q EXCEPT !.executingCount = @ - 1]
           R == IF keep THEN MoveTaskToReadyQueue(Q1, t) ELSE UnlinkAndDestroy(Q1, t)
           to == IF keep THEN "Ready" ELSE "None"
<1>1. Q \in QueueType
  BY DEF QOK
<1>2. /\ Moved(Q, R, t, to, TRUE)
      /\ R.activeWorkGeneration = Q.activeWorkGeneration
      /\ SameSettings(Q, R)
  <2>1. CASE keep
    BY <1>1, <2>1 DEF QueueType, Moved, MoveTaskToReadyQueue, Insert, SameSettings
  <2>2. CASE ~keep
    BY <1>1, <2>2 DEF QueueType, Moved, UnlinkAndDestroy, SameSettings
  <2> QED BY <2>1, <2>2
<1>3. R.pending = Q.pending
  BY <1>1, UnlinkOwner DEF QueueType, MoveTaskToReadyQueue, UnlinkAndDestroy
<1>4. R.owner = [Q.owner EXCEPT ![t] = to]
  BY <1>2 DEF Moved
<1>5. to \in {"None", "Pending", "Ready"} /\ Q.owner[t] # to
  OBVIOUS
<1>6. R \in QueueType
  <2>1. Q.executingCount - 1 \in Nat /\ Q.readyCount + 1 \in Nat
    BY QOKFields DEF ListHolds, IsIn
  <2>2. CASE keep
    BY <1>1, <2>1, <2>2, ListsTyped DEF QueueType, MoveTaskToReadyQueue, OwnerQueues
  <2>3. CASE ~keep
    BY <1>1, <2>1, <2>3, ListsTyped DEF QueueType, UnlinkAndDestroy, OwnerQueues
  <2> QED BY <2>2, <2>3
<1> HIDE DEF R, to
<1>7. ListsConsistent(R)
  BY <1>2, <1>5, MoveLemma
<1> QED BY <1>2, <1>3, <1>4, <1>6, <1>7 DEF QOK, R, to

\* moveExecutingTaskToPendingQueue() of a task that is its own continuation.
LEMMA RequeueLemma ==
    ASSUME NEW Q, QOK(Q), NEW t \in Tasks, Q.owner[t] = "Executing"
    PROVE  LET R == [MoveExecutingTaskToPendingQueue(Q, t)
                        EXCEPT !.activeWorkGeneration = @ + 1]
           IN  /\ QOK(R)
               /\ SameSettings(Q, R)
               /\ R.owner = [Q.owner EXCEPT ![t] = "Pending"]
<1> DEFINE R == [MoveExecutingTaskToPendingQueue(Q, t) EXCEPT !.activeWorkGeneration = @ + 1]
<1>1. Q \in QueueType /\ Q.activeWorkGeneration + 1 \in Nat
  BY QOKFields DEF QOK
<1>2. /\ UnlinkIfIn(Q.pending, t) = Q.pending /\ UnlinkIfIn(Q.ready, t) = Q.ready
      /\ UnlinkIfIn(Q.executing, t) = Unlink(Q.executing, t)
  BY UnlinkOwner
<1>3. Moved(Q, R, t, "Pending", TRUE) /\ SameSettings(Q, R)
  BY <1>1, <1>2
     DEF QueueType, Moved, MoveExecutingTaskToPendingQueue, Insert, SameSettings
<1>4. R \in QueueType
  <2>1. Q.executingCount - 1 \in Nat
    BY QOKFields DEF ListHolds, IsIn
  <2>2. /\ Unlink(Q.executing, t) \in Seq(Tasks) /\ Append(Q.pending, t) \in Seq(Tasks)
        /\ [Q.owner EXCEPT ![t] = "Pending"] \in [Tasks -> OwnerQueues]
    BY <1>2, ListsTyped DEF OwnerQueues
  <2> QED BY <1>1, <2>1, <2>2 DEF QueueType, MoveExecutingTaskToPendingQueue
<1> HIDE DEF R
<1>5. ListsConsistent(R)
  BY <1>3, MoveLemma
<1>6. R.owner = [Q.owner EXCEPT ![t] = "Pending"]
  BY <1>3 DEF Moved
<1> QED BY <1>3, <1>4, <1>5, <1>6 DEF QOK, R

\* cancel() keeps a pending task as ready.
LEMMA CancelKeepLemma ==
    ASSUME NEW Q, QOK(Q), NEW t \in Tasks, Q.owner[t] = "Pending"
    PROVE  LET R == MoveTaskToReadyQueue(Q, t)
           IN  /\ QOK(R)
               /\ SameSettings(Q, R)
               /\ R.owner = [Q.owner EXCEPT ![t] = "Ready"]
               /\ R.executing = Q.executing
               /\ R.executingCount = Q.executingCount
               /\ R.activeWorkGeneration = Q.activeWorkGeneration
<1> DEFINE R == MoveTaskToReadyQueue(Q, t)
<1>1. Q \in QueueType
  BY DEF QOK
<1>2. /\ UnlinkIfIn(Q.executing, t) = Q.executing /\ UnlinkIfIn(Q.ready, t) = Q.ready
  BY UnlinkOwner
<1>3. /\ Moved(Q, R, t, "Ready", TRUE) /\ SameSettings(Q, R)
      /\ R.executing = Q.executing
      /\ R.executingCount = Q.executingCount
      /\ R.activeWorkGeneration = Q.activeWorkGeneration
  BY <1>1, <1>2 DEF QueueType, Moved, MoveTaskToReadyQueue, Insert, SameSettings
<1>4. R \in QueueType
  <2>1. Q.readyCount + 1 \in Nat
    BY QOKFields
  <2> QED BY <1>1, <2>1, ListsTyped DEF QueueType, MoveTaskToReadyQueue, OwnerQueues
<1> HIDE DEF R
<1>5. ListsConsistent(R)
  BY <1>3, MoveLemma
<1>6. R.owner = [Q.owner EXCEPT ![t] = "Ready"]
  BY <1>3 DEF Moved
<1> QED BY <1>3, <1>4, <1>5, <1>6 DEF QOK, R

\* cancel(), or wait() with cancel, discards a pending task.
LEMMA DropPendingLemma ==
    ASSUME NEW Q, QOK(Q), NEW t \in Tasks, Q.owner[t] = "Pending"
    PROVE  LET R == UnlinkAndDestroy(Q, t)
           IN  /\ QOK(R)
               /\ SameSettings(Q, R)
               /\ R.owner = [Q.owner EXCEPT ![t] = "None"]
               /\ R.executing = Q.executing
               /\ R.executingCount = Q.executingCount
               /\ R.activeWorkGeneration = Q.activeWorkGeneration
<1> DEFINE R == UnlinkAndDestroy(Q, t)
<1>1. Q \in QueueType
  BY DEF QOK
<1>2. /\ UnlinkIfIn(Q.executing, t) = Q.executing /\ UnlinkIfIn(Q.ready, t) = Q.ready
  BY UnlinkOwner
<1>3. /\ Moved(Q, R, t, "None", TRUE) /\ SameSettings(Q, R)
      /\ R.executing = Q.executing
      /\ R.executingCount = Q.executingCount
      /\ R.activeWorkGeneration = Q.activeWorkGeneration
  BY <1>1, <1>2 DEF QueueType, Moved, UnlinkAndDestroy, SameSettings
<1>4. R \in QueueType
  BY <1>1, ListsTyped DEF QueueType, UnlinkAndDestroy, OwnerQueues
<1> HIDE DEF R
<1>5. ListsConsistent(R)
  BY <1>3, MoveLemma
<1>6. R.owner = [Q.owner EXCEPT ![t] = "None"]
  BY <1>3 DEF Moved
<1> QED BY <1>3, <1>4, <1>5, <1>6 DEF QOK, R

\* pop() and wait() remove a ready task, and its place in m_readyCount.
LEMMA RemoveReadyLemma ==
    ASSUME NEW Q, QOK(Q), NEW t \in Tasks, Q.owner[t] = "Ready"
    PROVE  LET R == RemoveReady(Q, t)
           IN  /\ QOK(R)
               /\ SameSettings(Q, R)
               /\ R.owner = [Q.owner EXCEPT ![t] = "None"]
               /\ R.pending = Q.pending
               /\ R.executing = Q.executing
               /\ R.executingCount = Q.executingCount
               /\ R.activeWorkGeneration = Q.activeWorkGeneration
<1> DEFINE R == RemoveReady(Q, t)
<1>1. Q \in QueueType
  BY DEF QOK
<1>2. /\ UnlinkIfIn(Q.executing, t) = Q.executing /\ UnlinkIfIn(Q.pending, t) = Q.pending
  BY UnlinkOwner
<1>3. /\ Moved(Q, R, t, "None", TRUE) /\ SameSettings(Q, R)
      /\ R.pending = Q.pending
      /\ R.executing = Q.executing
      /\ R.executingCount = Q.executingCount
      /\ R.activeWorkGeneration = Q.activeWorkGeneration
  BY <1>1, <1>2 DEF QueueType, Moved, RemoveReady, UnlinkAndDestroy, SameSettings
<1>4. R \in QueueType
  <2>1. Q.readyCount - 1 \in Nat
    BY QOKFields DEF ListHolds, IsIn
  <2> QED BY <1>1, <2>1, ListsTyped DEF QueueType, RemoveReady, UnlinkAndDestroy, OwnerQueues
<1> HIDE DEF R
<1>5. ListsConsistent(R)
  BY <1>3, MoveLemma
<1>6. R.owner = [Q.owner EXCEPT ![t] = "None"]
  BY <1>3 DEF Moved
<1> QED BY <1>3, <1>4, <1>5, <1>6 DEF QOK, R

\* pushInternalNoLock() links a task that is not in the queue, or that is ready.
LEMMA LinkLemma ==
    ASSUME NEW Q, QOK(Q), NEW t \in Tasks, Q.owner[t] \in {"None", "Ready"},
           NEW isBack \in BOOLEAN, NEW dontSchedule \in BOOLEAN
    PROVE  LET R == Link(Q, t, isBack, dontSchedule)
           IN  /\ QOK(R)
               /\ SameSettings(Q, R)
               /\ R.owner = [Q.owner EXCEPT ![t] = IF dontSchedule THEN "Ready" ELSE "Pending"]
               /\ R.executing = Q.executing
<1> DEFINE R == Link(Q, t, isBack, dontSchedule)
<1>1. Q \in QueueType /\ Q.activeWorkGeneration + 1 \in Nat /\ Q.readyCount + 1 \in Nat
  BY QOKFields DEF QOK
<1>2. /\ UnlinkIfIn(Q.executing, t) = Q.executing /\ UnlinkIfIn(Q.pending, t) = Q.pending
      /\ Q.owner[t] # "Ready" => UnlinkIfIn(Q.ready, t) = Q.ready
  BY UnlinkOwner
<1>3. Q.owner \in [Tasks -> OwnerQueues]
  BY QOKFields
<1>4. CASE dontSchedule /\ Q.owner[t] = "Ready"
  <2>1. R = Q
    BY <1>4 DEF Link
  <2>2. Q.owner = [Q.owner EXCEPT ![t] = "Ready"]
    BY <1>3, <1>4
  <2> QED BY <1>4, <2>1, <2>2 DEF SameSettings
<1>5. CASE dontSchedule /\ Q.owner[t] = "None"
  <2>1. Moved(Q, R, t, "Ready", isBack) /\ SameSettings(Q, R) /\ R.executing = Q.executing
    BY <1>1, <1>2, <1>5 DEF QueueType, Moved, Link, SameSettings
  <2>2. R \in QueueType
    BY <1>1, <1>5, ListsTyped DEF QueueType, Link, OwnerQueues
  <2> HIDE DEF R
  <2>3. ListsConsistent(R)
    BY <1>5, <2>1, MoveLemma
  <2>4. R.owner = [Q.owner EXCEPT ![t] = "Ready"]
    BY <2>1 DEF Moved
  <2> QED BY <1>5, <2>1, <2>2, <2>3, <2>4 DEF QOK, R
<1>6. CASE ~dontSchedule
  <2>1. Moved(Q, R, t, "Pending", isBack) /\ SameSettings(Q, R) /\ R.executing = Q.executing
    BY <1>1, <1>2, <1>6 DEF QueueType, Moved, Link, SameSettings
  <2>2. R \in QueueType
    <3>1. (IF Q.owner[t] = "Ready" THEN Q.readyCount - 1 ELSE Q.readyCount) \in Nat
      BY QOKFields DEF ListHolds, IsIn
    <3> QED BY <1>1, <1>6, <3>1, ListsTyped DEF QueueType, Link, OwnerQueues
  <2> HIDE DEF R
  <2>3. ListsConsistent(R)
    BY <2>1, MoveLemma
  <2>4. R.owner = [Q.owner EXCEPT ![t] = "Pending"]
    BY <2>1 DEF Moved
  <2> QED BY <1>6, <2>1, <2>2, <2>3, <2>4 DEF QOK, R
<1> QED BY <1>4, <1>5, <1>6

\* prioritize() and wait() only reorder the pending queue.
LEMMA PushToFrontLemma ==
    ASSUME NEW Q, QOK(Q), NEW t \in Tasks, Q.owner[t] = "Pending"
    PROVE  LET R == PushToFront(Q, t)
           IN  /\ QOK(R)
               /\ SameSettings(Q, R)
               /\ R.owner = Q.owner
               /\ R.executing = Q.executing
               /\ R.executingCount = Q.executingCount
               /\ R.readyCount = Q.readyCount
               /\ R.activeWorkGeneration = Q.activeWorkGeneration
<1> DEFINE R == PushToFront(Q, t)
           s == Q.pending
           a == Unlink(s, t)
           b == Insert(a, t, FALSE)
<1>1. Q \in QueueType
  BY DEF QOK
<1>2. s \in Seq(Tasks) /\ ListHolds(s, Q.owner, "Pending")
  BY QOKFields
<1>3. /\ R.pending = b
      /\ R.owner = Q.owner
      /\ R.executing = Q.executing
      /\ R.executingCount = Q.executingCount
      /\ R.ready = Q.ready
      /\ R.readyCount = Q.readyCount
      /\ R.activeWorkGeneration = Q.activeWorkGeneration
      /\ SameSettings(Q, R)
  BY <1>1 DEF QueueType, PushToFront, SameSettings, Insert
<1> HIDE DEF s
<1>4. IsIn(s, t) /\ NoDuplicates(s)
  BY <1>2 DEF ListHolds
<1>5. /\ a \in Seq(Tasks) /\ NoDuplicates(a)
      /\ \A u \in Tasks : IsIn(a, u) <=> IsIn(s, u) /\ u # t
  BY <1>2, <1>4, UnlinkLemma
<1> HIDE DEF a
<1>6. /\ b \in Seq(Tasks) /\ NoDuplicates(b)
      /\ \A u \in Tasks : IsIn(b, u) <=> IsIn(a, u) \/ u = t
  <2>1. ~IsIn(a, t)
    BY <1>5
  <2> QED BY <1>5, <2>1, InsertLemma
<1>7. ListHolds(b, Q.owner, "Pending")
  BY <1>2, <1>4, <1>5, <1>6 DEF ListHolds
<1>8. R \in QueueType
  <2>1. R = [Q EXCEPT !.pending = b]
    BY DEF PushToFront, s, a, b, Insert
  <2> HIDE DEF R, b
  <2> QED BY <1>1, <1>6, <2>1 DEF QueueType
<1> HIDE DEF R, b
<1>9. ListsConsistent(R)
  BY <1>3, <1>7, QOKFields DEF ListsConsistent
<1> QED BY <1>3, <1>8, <1>9 DEF QOK, R

\* clearQueue( m_pending ) removes the pending tasks and no other.
LEMMA ClearPendingLemma ==
    ASSUME NEW Q, QOK(Q)
    PROVE  LET R == ClearPending(Q)
           IN  /\ QOK(R)
               /\ SameSettings(Q, R)
               /\ \A u \in Tasks : R.owner[u] = IF Q.owner[u] = "Pending" THEN "None" ELSE Q.owner[u]
               /\ R.pending = <<>>
               /\ R.ready = Q.ready
               /\ R.executing = Q.executing
               /\ R.executingCount = Q.executingCount
               /\ R.activeWorkGeneration = Q.activeWorkGeneration
<1> DEFINE R == ClearPending(Q)
           own == [u \in Tasks |-> IF Q.owner[u] = "Pending" THEN "None" ELSE Q.owner[u]]
<1>1. Q \in QueueType
  BY DEF QOK
<1>2. /\ R.owner = own
      /\ R.pending = <<>>
      /\ R.ready = Q.ready
      /\ R.executing = Q.executing
      /\ R.executingCount = Q.executingCount
      /\ R.readyCount = Q.readyCount
      /\ R.activeWorkGeneration = Q.activeWorkGeneration
      /\ SameSettings(Q, R)
  BY <1>1 DEF QueueType, ClearPending, SameSettings
<1>3. own \in [Tasks -> OwnerQueues]
  BY QOKFields DEF OwnerQueues
<1>4. R \in QueueType
  <2>1. R = [Q EXCEPT !.pending = <<>>, !.owner = own]
    BY DEF ClearPending
  <2>2. <<>> \in Seq(Tasks) /\ 0 \in Nat
    OBVIOUS
  <2> HIDE DEF R, own
  <2> QED BY <1>1, <1>3, <2>1, <2>2 DEF QueueType
<1>5. \A u \in Tasks : R.owner[u] = IF Q.owner[u] = "Pending" THEN "None" ELSE Q.owner[u]
  BY <1>2
<1> HIDE DEF R, own
<1>6. ListHolds(R.pending, R.owner, "Pending")
  BY <1>2, <1>5 DEF ListHolds, NoDuplicates, IsIn
<1>7. /\ ListHolds(R.ready, R.owner, "Ready")
      /\ ListHolds(R.executing, R.owner, "Executing")
  <2>1. /\ ListHolds(Q.ready, Q.owner, "Ready")
        /\ ListHolds(Q.executing, Q.owner, "Executing")
    BY QOKFields
  <2>2. \A u \in Tasks : R.owner[u] = "Ready" <=> Q.owner[u] = "Ready"
    BY <1>5
  <2>3. \A u \in Tasks : R.owner[u] = "Executing" <=> Q.owner[u] = "Executing"
    BY <1>5
  <2>4. R.ready = Q.ready /\ R.executing = Q.executing
    BY <1>2
  <2> QED BY <2>1, <2>2, <2>3, <2>4 DEF ListHolds
<1>8. R.executingCount = Len(R.executing) /\ R.readyCount = Len(R.ready)
  BY <1>2, QOKFields
<1> QED BY <1>2, <1>4, <1>5, <1>6, <1>7, <1>8 DEF QOK, ListsConsistent, R

\* clearQueue( m_ready ) removes the ready tasks and no other.
LEMMA ClearReadyLemma ==
    ASSUME NEW Q, QOK(Q)
    PROVE  LET R == ClearReady(Q)
           IN  /\ QOK(R)
               /\ SameSettings(Q, R)
               /\ \A u \in Tasks : R.owner[u] = IF Q.owner[u] = "Ready" THEN "None" ELSE Q.owner[u]
               /\ R.ready = <<>>
               /\ R.pending = Q.pending
               /\ R.executing = Q.executing
               /\ R.executingCount = Q.executingCount
               /\ R.activeWorkGeneration = Q.activeWorkGeneration
<1> DEFINE R == ClearReady(Q)
           own == [u \in Tasks |-> IF Q.owner[u] = "Ready" THEN "None" ELSE Q.owner[u]]
<1>1. Q \in QueueType
  BY DEF QOK
<1>2. /\ R.owner = own
      /\ R.ready = <<>>
      /\ R.pending = Q.pending
      /\ R.executing = Q.executing
      /\ R.executingCount = Q.executingCount
      /\ R.readyCount = 0
      /\ R.activeWorkGeneration = Q.activeWorkGeneration
      /\ SameSettings(Q, R)
  BY <1>1 DEF QueueType, ClearReady, SameSettings
<1>3. own \in [Tasks -> OwnerQueues]
  BY QOKFields DEF OwnerQueues
<1>4. R \in QueueType
  <2>1. R = [Q EXCEPT !.ready = <<>>, !.readyCount = 0, !.owner = own]
    BY DEF ClearReady
  <2>2. <<>> \in Seq(Tasks) /\ 0 \in Nat
    OBVIOUS
  <2> HIDE DEF R, own
  <2> QED BY <1>1, <1>3, <2>1, <2>2 DEF QueueType
<1>5. \A u \in Tasks : R.owner[u] = IF Q.owner[u] = "Ready" THEN "None" ELSE Q.owner[u]
  BY <1>2
<1> HIDE DEF R, own
<1>6. ListHolds(R.ready, R.owner, "Ready")
  BY <1>2, <1>5 DEF ListHolds, NoDuplicates, IsIn
<1>7. /\ ListHolds(R.pending, R.owner, "Pending")
      /\ ListHolds(R.executing, R.owner, "Executing")
  <2>1. /\ ListHolds(Q.pending, Q.owner, "Pending")
        /\ ListHolds(Q.executing, Q.owner, "Executing")
    BY QOKFields
  <2>2. \A u \in Tasks : R.owner[u] = "Pending" <=> Q.owner[u] = "Pending"
    BY <1>5
  <2>3. \A u \in Tasks : R.owner[u] = "Executing" <=> Q.owner[u] = "Executing"
    BY <1>5
  <2>4. R.pending = Q.pending /\ R.executing = Q.executing
    BY <1>2
  <2> QED BY <2>1, <2>2, <2>3, <2>4 DEF ListHolds
<1>8. R.executingCount = Len(R.executing) /\ R.readyCount = Len(R.ready)
  BY <1>2, QOKFields
<1> QED BY <1>2, <1>4, <1>5, <1>6, <1>7, <1>8 DEF QOK, ListsConsistent, R

\* pushInternalNoLock(), with the padding it ends with.
LEMMA PushLemma ==
    ASSUME NEW Q, QOK(Q), NEW t \in Tasks, Q.owner[t] \in {"None", "Ready"},
           NEW isBack \in BOOLEAN, NEW dontSchedule \in BOOLEAN
    PROVE  LET R == PushInternalNoLock(Q, t, isBack, dontSchedule)
           IN  /\ QOK(R)
               /\ SameSettings(Q, R)
               /\ R.pending # <<>> => Throttled(R, 0)
               /\ \A u \in Tasks : Q.owner[u] = "Executing" => R.owner[u] = "Executing"
               /\ \A u \in Tasks : u # t => \/ R.owner[u] = Q.owner[u]
                                            \/ R.owner[u] = "Executing"
               /\ Len(R.executing) >= Len(Q.executing)
<1> DEFINE L == Link(Q, t, isBack, dontSchedule)
           R == PadExecutingQueue(L)
           to == IF dontSchedule THEN "Ready" ELSE "Pending"
<1>1. /\ QOK(L) /\ SameSettings(Q, L)
      /\ L.owner = [Q.owner EXCEPT ![t] = to]
      /\ L.executing = Q.executing
  BY LinkLemma
<1>2. \A u \in Tasks : L.owner[u] = IF u = t THEN to ELSE Q.owner[u]
  BY <1>1, QOKFields
<1> HIDE DEF L, to
<1>3. /\ QOK(R) /\ SameSettings(L, R)
      /\ R.pending # <<>> => Throttled(R, 0)
      /\ Len(R.executing) >= Len(L.executing)
      /\ \A u \in Tasks : \/ R.owner[u] = L.owner[u]
                          \/ L.owner[u] = "Pending" /\ R.owner[u] = "Executing"
  <2>1. QOK(L)
    BY <1>1
  <2> QED BY <2>1, PadLemma
<1> HIDE DEF R
<1>4. SameSettings(Q, R)
  BY <1>1, <1>3 DEF SameSettings
<1> QED BY <1>1, <1>2, <1>3, <1>4 DEF PushInternalNoLock, L, R

-----------------------------------------------------------------------------
(***************************************************************************)
(* The inductive invariant.  Beside the properties it needs that dispose() *)
(* leaves an empty queue, that a thread asleep in dispose() is going to    *)
(* discard what is ready, and that one asleep in wait() waits for a task.  *)
(* Without an observer's limit it also has NoStrandedWaiter.               *)
(***************************************************************************)

WC(Q) ==
    Q.pending # <<>> /\ Q.maxReadyOrExecuting = 0
        => Q.maxExecuting # 0 /\ Len(Q.executing) >= Q.maxExecuting

DisposedIsEmpty(Q) == Q.disposed => IsEmptyInternal(Q)

CallOK(c) ==
    /\ c \in [Threads -> CallType]
    /\ \A th \in Threads : c[th].op = "dispose" => c[th].discardReady
    /\ \A th \in Threads : c[th].op = "wait" => c[th].task \in Tasks

WaitersOK(Q, c) ==
    /\ Q.maxReadyOrExecuting = 0
    /\ \A th \in Threads : c[th].op # "none" /\ ~c[th].notified => Q.executing # <<>>

IInv ==
    /\ QOK(q) /\ WC(q) /\ DisposedIsEmpty(q)
    /\ task \in [Tasks -> TaskType]
    /\ comp \in [Workers -> CompType]
    /\ CallOK(call)
    /\ notifyOwner \in Workers \cup {Null}
    /\ OneCompletionPerRun
    /\ \A w \in Workers : comp[w].pc = "onReady" => comp[w].task \in Tasks
    /\ ObserverLimits \subseteq {0} => WaitersOK(q, call)

(***************************************************************************)
(* R is what a lock section makes of Q when it completes no task.          *)
(***************************************************************************)
Quiet(Q, R) ==
    /\ QOK(R) /\ WC(R) /\ DisposedIsEmpty(R)
    /\ \A t \in Tasks : Q.owner[t] = "Executing" => R.owner[t] = "Executing"
    /\ R.maxReadyOrExecuting \in {0, Q.maxReadyOrExecuting} \cup ObserverLimits

\* U is T after the tasks that became executing between Q and R were started.
RunsFollow(Q, R, T, U) ==
    /\ U \in [Tasks -> TaskType]
    /\ \A t \in Tasks : U[t].state = IF Q.owner[t] # "Executing" /\ R.owner[t] = "Executing"
                                     THEN "Running" ELSE T[t].state

\* A list that is not empty holds the task at its front, so some task has its owner.
LEMMA ListNonEmpty ==
    ASSUME NEW s \in Seq(Tasks), NEW owner, NEW name, ListHolds(s, owner, name)
    PROVE  s # <<>> <=> \E t \in Tasks : owner[t] = name
<1>1. ASSUME s # <<>> PROVE \E t \in Tasks : owner[t] = name
  <2>1. 1 \in 1..Len(s) /\ s[1] \in Tasks
    BY <1>1
  <2>2. IsIn(s, s[1])
    BY <2>1 DEF IsIn
  <2> QED BY <2>1, <2>2 DEF ListHolds
<1>2. ASSUME NEW t \in Tasks, owner[t] = name PROVE s # <<>>
  BY <1>2 DEF ListHolds, IsIn
<1> QED BY <1>1, <1>2

\* When only a limit on the executing tasks can stop the padding, the queue is full.
LEMMA ThrottledWC ==
    ASSUME NEW Q, QOK(Q), Q.pending # <<>> => Throttled(Q, 0)
    PROVE  WC(Q)
BY QOKFields DEF WC, Throttled

\* Padding a queue without tasks does nothing to its lists.
LEMMA PadEmpty ==
    ASSUME NEW Q, QOK(Q), IsEmptyInternal(Q)
    PROVE  IsEmptyInternal(PadExecutingQueue(Q))
<1> DEFINE R == PadExecutingQueue(Q)
<1>1. /\ QOK(R) /\ R.ready = Q.ready
      /\ \A t \in Tasks : \/ R.owner[t] = Q.owner[t]
                          \/ Q.owner[t] = "Pending" /\ R.owner[t] = "Executing"
  BY PadLemma
<1> HIDE DEF R
<1>2. \A t \in Tasks : Q.owner[t] # "Pending" /\ Q.owner[t] # "Executing"
  <2>1. /\ ListHolds(Q.pending, Q.owner, "Pending")
        /\ ListHolds(Q.executing, Q.owner, "Executing")
        /\ Q.pending = <<>> /\ Q.executing = <<>>
    BY QOKFields DEF IsEmptyInternal
  <2> QED BY <2>1 DEF ListHolds, IsIn
<1>3. \A t \in Tasks : R.owner[t] # "Pending" /\ R.owner[t] # "Executing"
  BY <1>1, <1>2
<1>4. /\ R.pending \in Seq(Tasks) /\ R.executing \in Seq(Tasks)
      /\ ListHolds(R.pending, R.owner, "Pending")
      /\ ListHolds(R.executing, R.owner, "Executing")
  BY <1>1, QOKFields
<1>5. R.pending = <<>> /\ R.executing = <<>>
  BY <1>3, <1>4, ListNonEmpty
<1> QED BY <1>1, <1>5 DEF IsEmptyInternal, R

\* padExecutingQueueNothrow() as a lock section of its own.
LEMMA PadQuiet ==
    ASSUME NEW Q, QOK(Q), DisposedIsEmpty(Q)
    PROVE  Quiet(Q, PadExecutingQueue(Q))
<1> DEFINE R == PadExecutingQueue(Q)
<1>1. /\ QOK(R) /\ SameSettings(Q, R)
      /\ R.pending # <<>> => Throttled(R, 0)
      /\ \A t \in Tasks : \/ R.owner[t] = Q.owner[t]
                          \/ Q.owner[t] = "Pending" /\ R.owner[t] = "Executing"
  BY PadLemma
<1>2. IsEmptyInternal(Q) => IsEmptyInternal(R)
  BY PadEmpty
<1> HIDE DEF R
<1>3. WC(R)
  BY <1>1, ThrottledWC
<1>4. DisposedIsEmpty(R)
  BY <1>1, <1>2 DEF DisposedIsEmpty, SameSettings
<1> QED BY <1>1, <1>3, <1>4 DEF Quiet, SameSettings, R

\* Two lock sections in a row that complete no task.
LEMMA QuietTransitive ==
    ASSUME NEW Q, NEW R, NEW S, Quiet(Q, R), Quiet(R, S)
    PROVE  Quiet(Q, S)
BY DEF Quiet

\* scheduleNothrow() starts the tasks that became executing, and touches no other.
LEMMA ScheduleFollows ==
    ASSUME NEW Q, NEW R, NEW T \in [Tasks -> TaskType]
    PROVE  RunsFollow(Q, R, T, Schedule(T, Scheduled(Q, R)))
<1> DEFINE S == Scheduled(Q, R)
           U == Schedule(T, S)
<1>1. \A t \in Tasks : t \in S <=> Q.owner[t] # "Executing" /\ R.owner[t] = "Executing"
  BY DEF Scheduled
<1> HIDE DEF S
<1>2. U \in [Tasks -> TaskType]
  BY DEF Schedule, TaskType
<1>3. \A t \in Tasks : U[t].state = IF t \in S THEN "Running" ELSE T[t].state
  BY DEF Schedule
<1> HIDE DEF U
<1>4. RunsFollow(Q, R, T, U)
  BY <1>1, <1>2, <1>3 DEF RunsFollow
<1> QED BY <1>4 DEF U, S

\* A cancel request changes no task's state.
LEMMA RequestCancelKeeps ==
    ASSUME NEW T \in [Tasks -> TaskType], NEW S
    PROVE  /\ RequestCancel(T, S) \in [Tasks -> TaskType]
           /\ \A t \in Tasks : RequestCancel(T, S)[t].state = T[t].state
BY DEF RequestCancel, TaskType

\* A step that completes no task and changes no completion in flight keeps every
\* task's run: the queue and the tasks change together.
LEMMA RunsKept ==
    ASSUME OneCompletionPerRun, q.owner \in [Tasks -> OwnerQueues],
           \A t \in Tasks : q.owner[t] = "Executing" => q'.owner[t] = "Executing",
           RunsFollow(q, q', task, task'),
           \A w \in Workers : comp'[w].pc = "onReady" <=> comp[w].pc = "onReady",
           \A w \in Workers : comp[w].pc = "onReady" => comp'[w].task = comp[w].task
    PROVE  OneCompletionPerRun'
<1>1. ASSUME NEW t \in Tasks
      PROVE  /\ q'.owner[t] = "Executing" => task'[t].state \in {"Running", "PendingCompletion"}
             /\ task'[t].state = "Running" => q'.owner[t] = "Executing"
  BY <1>1 DEF OneCompletionPerRun, RunsFollow
<1>2. ASSUME NEW t \in Tasks
      PROVE  q'.owner[t] = "Executing" /\ task'[t].state = "PendingCompletion"
                <=> \E w \in Workers : comp'[w].pc = "onReady" /\ comp'[w].task = t
  <2>1. q'.owner[t] = "Executing" /\ task'[t].state = "PendingCompletion"
           <=> q.owner[t] = "Executing" /\ task[t].state = "PendingCompletion"
    BY <1>2 DEF RunsFollow
  <2>2. (\E w \in Workers : comp'[w].pc = "onReady" /\ comp'[w].task = t)
           <=> \E w \in Workers : comp[w].pc = "onReady" /\ comp[w].task = t
    OBVIOUS
  <2> QED BY <2>1, <2>2 DEF OneCompletionPerRun
<1>3. ASSUME NEW v \in Workers, NEW w \in Workers,
             comp'[v].pc = "onReady", comp'[w].pc = "onReady", comp'[v].task = comp'[w].task
      PROVE  v = w
  BY <1>3 DEF OneCompletionPerRun
<1> QED BY <1>1, <1>2, <1>3 DEF OneCompletionPerRun

\* What an executing task means for a queue: its list is not empty.
LEMMA QuietExecuting ==
    ASSUME NEW Q, NEW R, QOK(Q), Quiet(Q, R), Q.executing # <<>>
    PROVE  R.executing # <<>>
<1>1. QOK(R)
  BY DEF Quiet
<1>2. PICK t \in Tasks : Q.owner[t] = "Executing"
  <2>1. Q.executing \in Seq(Tasks) /\ ListHolds(Q.executing, Q.owner, "Executing")
    BY QOKFields
  <2> QED BY <2>1, ListNonEmpty
<1>3. R.owner[t] = "Executing"
  BY <1>2 DEF Quiet
<1>4. R.executing \in Seq(Tasks) /\ ListHolds(R.executing, R.owner, "Executing")
  BY <1>1, QOKFields
<1> QED BY <1>3, <1>4, ListNonEmpty

\* A lock section that completes no task, by whatever thread, keeps the invariant if
\* no thread falls asleep in it.
LEMMA QuietStep ==
    ASSUME IInv, Quiet(q, q'), RunsFollow(q, q', task, task'),
           comp' \in [Workers -> CompType],
           \A w \in Workers : comp'[w].pc = "onReady" <=> comp[w].pc = "onReady",
           \A w \in Workers : comp[w].pc = "onReady" => comp'[w].task = comp[w].task,
           call' = call, notifyOwner' \in Workers \cup {Null}
    PROVE  IInv'
<1>1. QOK(q) /\ OneCompletionPerRun /\ CallOK(call)
  BY DEF IInv
<1>2. q.owner \in [Tasks -> OwnerQueues]
  BY <1>1, QOKFields
<1>3. \A t \in Tasks : q.owner[t] = "Executing" => q'.owner[t] = "Executing"
  BY DEF Quiet
<1>4. OneCompletionPerRun'
  BY <1>1, <1>2, <1>3, RunsKept
<1>5. ObserverLimits \subseteq {0} => WaitersOK(q', call')
  <2> SUFFICES ASSUME ObserverLimits \subseteq {0} PROVE WaitersOK(q', call')
    OBVIOUS
  <2>1. WaitersOK(q, call)
    BY DEF IInv
  <2>2. q.executing # <<>> => q'.executing # <<>>
    BY <1>1, QuietExecuting
  <2>3. q'.maxReadyOrExecuting = 0
    BY <2>1 DEF WaitersOK, Quiet
  <2> QED BY <2>1, <2>2, <2>3 DEF WaitersOK
<1>6. task' \in [Tasks -> TaskType]
  BY DEF RunsFollow
<1> QED BY <1>1, <1>4, <1>5, <1>6 DEF IInv, Quiet

\* The same for a lock section in which thread th goes to sleep, sleeps on or returns.
LEMMA CallStep ==
    ASSUME IInv, Quiet(q, q'), RunsFollow(q, q', task, task'),
           UNCHANGED <<comp, notifyOwner>>,
           NEW th \in Threads, NEW c \in CallType, c.op = "dispose" => c.discardReady,
           c.op = "wait" => c.task \in Tasks,
           call' = [call EXCEPT ![th] = c],
           ObserverLimits \subseteq {0} => c.op = "none" \/ q'.executing # <<>>
    PROVE  IInv'
<1>1. QOK(q) /\ OneCompletionPerRun /\ CallOK(call)
  BY DEF IInv
<1>2. q.owner \in [Tasks -> OwnerQueues]
  BY <1>1, QOKFields
<1>3. \A t \in Tasks : q.owner[t] = "Executing" => q'.owner[t] = "Executing"
  BY DEF Quiet
<1>4. OneCompletionPerRun'
  BY <1>1, <1>2, <1>3, RunsKept
<1>5. \A x \in Threads : call'[x] = IF x = th THEN c ELSE call[x]
  BY <1>1 DEF CallOK
<1>6. CallOK(call')
  BY <1>1, <1>5 DEF CallOK
<1>7. ObserverLimits \subseteq {0} => WaitersOK(q', call')
  <2> SUFFICES ASSUME ObserverLimits \subseteq {0} PROVE WaitersOK(q', call')
    OBVIOUS
  <2>1. WaitersOK(q, call)
    BY DEF IInv
  <2>2. q.executing # <<>> => q'.executing # <<>>
    BY <1>1, QuietExecuting
  <2>3. q'.maxReadyOrExecuting = 0
    BY <2>1 DEF WaitersOK, Quiet
  <2> QED BY <1>5, <2>1, <2>2, <2>3 DEF WaitersOK
<1>8. task' \in [Tasks -> TaskType]
  BY DEF RunsFollow
<1> QED BY <1>1, <1>4, <1>6, <1>7, <1>8 DEF IInv, Quiet

\* The same when nothing but the queue and the tasks changes.
LEMMA PlainStep ==
    ASSUME IInv, Quiet(q, q'), RunsFollow(q, q', task, task'),
           UNCHANGED <<comp, call, notifyOwner>>
    PROVE  IInv'
<1>1. comp' \in [Workers -> CompType] /\ notifyOwner' \in Workers \cup {Null}
  BY DEF IInv
<1>2. comp' = comp /\ call' = call
  OBVIOUS
<1> QED BY <1>1, <1>2, QuietStep

-----------------------------------------------------------------------------
(***************************************************************************)
(* Every action of an application thread keeps the invariant.              *)
(***************************************************************************)

\* push_back() and push_front().
LEMMA PushStep ==
    ASSUME IInv, NEW th \in Threads, NEW t \in Tasks, NEW isBack \in BOOLEAN,
           NEW dontSchedule \in BOOLEAN, Push(th, t, isBack, dontSchedule)
    PROVE  IInv'
<1> DEFINE R == PushInternalNoLock(q, t, isBack, dontSchedule)
<1>1. QOK(q) /\ task \in [Tasks -> TaskType]
  BY DEF IInv
<1>2. /\ q.owner[t] \in {"None", "Ready"} /\ ~q.disposed
      /\ q' = R /\ task' = Schedule(task, Scheduled(q, R))
      /\ UNCHANGED <<comp, call, notifyOwner>>
  BY DEF Push, CanCall
<1>3. /\ QOK(R) /\ SameSettings(q, R)
      /\ R.pending # <<>> => Throttled(R, 0)
      /\ \A u \in Tasks : q.owner[u] = "Executing" => R.owner[u] = "Executing"
  <2>1. QOK(q) /\ q.owner[t] \in {"None", "Ready"}
    BY <1>1, <1>2
  <2> QED BY <2>1, PushLemma
<1> HIDE DEF R
<1>4. WC(R)
  BY <1>3, ThrottledWC
<1>5. Quiet(q, q')
  BY <1>2, <1>3, <1>4 DEF Quiet, SameSettings, DisposedIsEmpty
<1>6. RunsFollow(q, q', task, task')
  BY <1>1, <1>2, ScheduleFollows
<1> QED BY <1>2, <1>5, <1>6, PlainStep

\* A change of the settings that pads the executing queue afterwards.
LEMMA SettingStep ==
    ASSUME IInv, NEW Q, QOK(Q), Q.owner = q.owner, ~Q.disposed,
           Q.maxReadyOrExecuting \in {0, q.maxReadyOrExecuting} \cup ObserverLimits,
           q' = PadExecutingQueue(Q),
           task' = Schedule(task, Scheduled(Q, PadExecutingQueue(Q))),
           UNCHANGED <<comp, call, notifyOwner>>
    PROVE  IInv'
<1> DEFINE R == PadExecutingQueue(Q)
<1>1. Quiet(Q, R)
  BY PadQuiet DEF DisposedIsEmpty
<1>2. task \in [Tasks -> TaskType]
  BY DEF IInv
<1>3. RunsFollow(Q, R, task, task')
  BY <1>2, ScheduleFollows
<1> HIDE DEF R
<1>4. q' = R
  BY DEF R
<1>5. Quiet(q, q')
  BY <1>1, <1>4 DEF Quiet
<1>6. RunsFollow(q, q', task, task')
  BY <1>3, <1>4 DEF RunsFollow
<1> QED BY <1>5, <1>6, PlainStep

\* setThrottleLimit().
LEMMA SetThrottleLimitStep ==
    ASSUME IInv, NEW th \in Threads, NEW limit \in ThrottleLimits, SetThrottleLimit(th, limit)
    PROVE  IInv'
<1> DEFINE Q == [q EXCEPT !.maxExecuting = limit]
<1>1. q \in QueueType /\ ListsConsistent(q) /\ limit \in Nat
  BY ConstantsAssumption DEF IInv, QOK
<1>2. /\ ~q.disposed /\ q' = PadExecutingQueue(Q)
      /\ task' = Schedule(task, Scheduled(Q, PadExecutingQueue(Q)))
      /\ UNCHANGED <<comp, call, notifyOwner>>
  BY DEF SetThrottleLimit, CanCall
<1>3. /\ Q \in QueueType /\ Q.owner = q.owner /\ Q.disposed = q.disposed
      /\ Q.maxReadyOrExecuting = q.maxReadyOrExecuting
      /\ Q.pending = q.pending /\ Q.executing = q.executing /\ Q.ready = q.ready
      /\ Q.executingCount = q.executingCount /\ Q.readyCount = q.readyCount
  BY <1>1 DEF QueueType
<1> HIDE DEF Q
<1>4. QOK(Q)
  BY <1>1, <1>3 DEF QOK, ListsConsistent
<1> QED BY <1>2, <1>3, <1>4, SettingStep

\* setNotifyCallback().
LEMMA SetNotifyCallbackStep ==
    ASSUME IInv, NEW th \in Threads, NEW observer \in BOOLEAN, NEW limit \in ObserverLimits,
           NEW mask \in EventMasks, NEW delivery \in Deliveries,
           SetNotifyCallback(th, observer, limit, mask, delivery)
    PROVE  IInv'
<1> DEFINE Q == [q EXCEPT !.observer = observer, !.eventsMask = mask, !.delivery = delivery,
                          !.maxReadyOrExecuting = IF observer THEN limit ELSE 0]
<1>1. /\ q \in QueueType /\ ListsConsistent(q)
      /\ limit \in Nat /\ mask \in SUBSET Events /\ delivery \in {"Concurrent", "Serialized"}
  BY ConstantsAssumption DEF IInv, QOK
<1>2. /\ ~q.disposed /\ q' = PadExecutingQueue(Q)
      /\ task' = Schedule(task, Scheduled(Q, PadExecutingQueue(Q)))
      /\ UNCHANGED <<comp, call, notifyOwner>>
  BY DEF SetNotifyCallback, CanCall
<1>3. /\ Q \in QueueType /\ Q.owner = q.owner /\ Q.disposed = q.disposed
      /\ Q.maxReadyOrExecuting \in {0, limit}
      /\ Q.pending = q.pending /\ Q.executing = q.executing /\ Q.ready = q.ready
      /\ Q.executingCount = q.executingCount /\ Q.readyCount = q.readyCount
  BY <1>1 DEF QueueType
<1> HIDE DEF Q
<1>4. QOK(Q)
  BY <1>1, <1>3 DEF QOK, ListsConsistent
<1>5. Q.maxReadyOrExecuting \in {0, q.maxReadyOrExecuting} \cup ObserverLimits
  BY <1>3
<1> QED BY <1>2, <1>3, <1>4, <1>5, SettingStep

\* A step that changes neither the lists of the queue nor its limits.
LEMMA ListsKeptQuiet ==
    ASSUME NEW Q, NEW R \in QueueType, QOK(Q), WC(Q), DisposedIsEmpty(Q),
           R.pending = Q.pending, R.executing = Q.executing, R.ready = Q.ready,
           R.owner = Q.owner, R.executingCount = Q.executingCount,
           R.readyCount = Q.readyCount, R.maxExecuting = Q.maxExecuting,
           R.maxReadyOrExecuting = Q.maxReadyOrExecuting, R.disposed = Q.disposed
    PROVE  Quiet(Q, R)
<1>1. QOK(R)
  BY DEF QOK, ListsConsistent
<1> QED BY <1>1 DEF Quiet, WC, DisposedIsEmpty, IsEmptyInternal

\* No task is started, and no task's state changes.
LEMMA TasksKept ==
    ASSUME NEW Q, NEW R, NEW T \in [Tasks -> TaskType],
           \A t \in Tasks : R.owner[t] = "Executing" => Q.owner[t] = "Executing"
    PROVE  RunsFollow(Q, R, T, T)
BY DEF RunsFollow

\* setOptions().
LEMMA SetOptionsStep ==
    ASSUME IInv, NEW th \in Threads, NEW options \in Options, SetOptions(th, options)
    PROVE  IInv'
<1> DEFINE R == [q EXCEPT !.options = options]
<1>1. /\ q \in QueueType /\ QOK(q) /\ WC(q) /\ DisposedIsEmpty(q)
      /\ task \in [Tasks -> TaskType] /\ options \in SUBSET KeepFlags
  BY ConstantsAssumption DEF IInv, QOK
<1>2. q' = R /\ task' = task /\ UNCHANGED <<comp, call, notifyOwner>>
  BY DEF SetOptions
<1>3. /\ R \in QueueType
      /\ R.pending = q.pending /\ R.executing = q.executing /\ R.ready = q.ready
      /\ R.owner = q.owner /\ R.executingCount = q.executingCount
      /\ R.readyCount = q.readyCount /\ R.maxExecuting = q.maxExecuting
      /\ R.maxReadyOrExecuting = q.maxReadyOrExecuting /\ R.disposed = q.disposed
  BY <1>1 DEF QueueType
<1> HIDE DEF R
<1>4. Quiet(q, q')
  BY <1>1, <1>2, <1>3, ListsKeptQuiet
<1>5. RunsFollow(q, q', task, task')
  BY <1>1, <1>2, <1>3, TasksKept
<1> QED BY <1>2, <1>4, <1>5, PlainStep

\* The observer's proxy is disconnected.
LEMMA DisconnectStep ==
    ASSUME IInv, DisconnectObserver
    PROVE  IInv'
<1> DEFINE R == [q EXCEPT !.observer = FALSE]
<1>1. /\ q \in QueueType /\ QOK(q) /\ WC(q) /\ DisposedIsEmpty(q)
      /\ task \in [Tasks -> TaskType]
  BY DEF IInv, QOK
<1>2. q' = R /\ task' = task /\ UNCHANGED <<comp, call, notifyOwner>>
  BY DEF DisconnectObserver
<1>3. /\ R \in QueueType
      /\ R.pending = q.pending /\ R.executing = q.executing /\ R.ready = q.ready
      /\ R.owner = q.owner /\ R.executingCount = q.executingCount
      /\ R.readyCount = q.readyCount /\ R.maxExecuting = q.maxExecuting
      /\ R.maxReadyOrExecuting = q.maxReadyOrExecuting /\ R.disposed = q.disposed
  BY <1>1 DEF QueueType
<1> HIDE DEF R
<1>4. Quiet(q, q')
  BY <1>1, <1>2, <1>3, ListsKeptQuiet
<1>5. RunsFollow(q, q', task, task')
  BY <1>1, <1>2, <1>3, TasksKept
<1> QED BY <1>2, <1>4, <1>5, PlainStep

\* A step that removes or reorders tasks which are not executing.
LEMMA ShrinkQuiet ==
    ASSUME NEW Q, NEW R, QOK(Q), WC(Q), QOK(R), SameSettings(Q, R),
           R.executing = Q.executing, R.pending # <<>> => Q.pending # <<>>,
           DisposedIsEmpty(R)
    PROVE  /\ Quiet(Q, R)
           /\ \A t \in Tasks : R.owner[t] = "Executing" => Q.owner[t] = "Executing"
<1>1. WC(R)
  BY DEF WC, SameSettings
<1>2. \A t \in Tasks : Q.owner[t] = "Executing" <=> R.owner[t] = "Executing"
  <2>1. ListHolds(Q.executing, Q.owner, "Executing") /\ ListHolds(R.executing, R.owner, "Executing")
    BY QOKFields
  <2> QED BY <2>1 DEF ListHolds
<1>3. R.maxReadyOrExecuting = Q.maxReadyOrExecuting
  BY DEF SameSettings
<1> QED BY <1>1, <1>2, <1>3 DEF Quiet

\* A pending task has a list it is in.
LEMMA PendingNonEmpty ==
    ASSUME NEW Q, QOK(Q), NEW t \in Tasks, Q.owner[t] = "Pending"
    PROVE  Q.pending # <<>>
<1>1. Q.pending \in Seq(Tasks) /\ ListHolds(Q.pending, Q.owner, "Pending")
  BY QOKFields
<1> QED BY <1>1, ListNonEmpty

\* prioritize().
LEMMA PrioritizeStep ==
    ASSUME IInv, NEW th \in Threads, NEW t \in Tasks, Prioritize(th, t)
    PROVE  IInv'
<1> DEFINE R == PushToFront(q, t)
<1>1. QOK(q) /\ WC(q) /\ task \in [Tasks -> TaskType]
  BY DEF IInv
<1>2. /\ ~q.disposed /\ q.owner[t] = "Pending" /\ q' = R /\ task' = task
      /\ UNCHANGED <<comp, call, notifyOwner>>
  BY DEF Prioritize, CanCall
<1>3. QOK(R) /\ SameSettings(q, R) /\ R.executing = q.executing
  BY <1>1, <1>2, PushToFrontLemma
<1> HIDE DEF R
<1>4. q.pending # <<>> /\ DisposedIsEmpty(R)
  BY <1>1, <1>2, <1>3, PendingNonEmpty DEF DisposedIsEmpty, SameSettings
<1>5. /\ Quiet(q, R)
      /\ \A u \in Tasks : R.owner[u] = "Executing" => q.owner[u] = "Executing"
  BY <1>1, <1>3, <1>4, ShrinkQuiet
<1>6. RunsFollow(q, q', task, task')
  BY <1>1, <1>2, <1>5, TasksKept
<1>7. Quiet(q, q')
  BY <1>2, <1>5
<1> QED BY <1>2, <1>6, <1>7, PlainStep

\* cancel() that does not wait.
LEMMA CancelStep ==
    ASSUME IInv, NEW th \in Threads, NEW t \in Tasks, Cancel(th, t)
    PROVE  IInv'
<1>1. QOK(q) /\ WC(q) /\ task \in [Tasks -> TaskType]
  BY DEF IInv
<1>2. /\ ~q.disposed /\ q.owner[t] = "Pending" /\ task' = task
      /\ q' = MoveTaskToReadyQueue(q, t) \/ q' = UnlinkAndDestroy(q, t)
      /\ UNCHANGED <<comp, call, notifyOwner>>
  BY DEF Cancel, CanCall
<1>3. QOK(q') /\ SameSettings(q, q') /\ q'.executing = q.executing
  <2>1. CASE q' = MoveTaskToReadyQueue(q, t)
    <3>1. QOK(q) /\ q.owner[t] = "Pending"
      BY <1>1, <1>2
    <3> QED BY <3>1, <2>1, CancelKeepLemma
  <2>2. CASE q' = UnlinkAndDestroy(q, t)
    <3>1. QOK(q) /\ q.owner[t] = "Pending"
      BY <1>1, <1>2
    <3> QED BY <3>1, <2>2, DropPendingLemma
  <2> QED BY <1>2, <2>1, <2>2
<1>4. q.pending # <<>> /\ DisposedIsEmpty(q')
  BY <1>1, <1>2, <1>3, PendingNonEmpty DEF DisposedIsEmpty, SameSettings
<1>5. /\ Quiet(q, q')
      /\ \A u \in Tasks : q'.owner[u] = "Executing" => q.owner[u] = "Executing"
  BY <1>1, <1>3, <1>4, ShrinkQuiet
<1>6. RunsFollow(q, q', task, task')
  BY <1>1, <1>2, <1>5, TasksKept
<1> QED BY <1>2, <1>5, <1>6, PlainStep

\* pop() and top() take the first ready task, if there is one.
LEMMA TakeFirstLemma ==
    ASSUME NEW Q, QOK(Q), WC(Q), DisposedIsEmpty(Q), NEW remove \in BOOLEAN
    PROVE  /\ Quiet(Q, TakeFirst(Q, remove))
           /\ TakeFirst(Q, remove).executing = Q.executing
           /\ \A t \in Tasks : TakeFirst(Q, remove).owner[t] = "Executing"
                                  => Q.owner[t] = "Executing"
<1> DEFINE R == TakeFirst(Q, remove)
<1>1. CASE remove /\ Q.ready # <<>>
  <2> DEFINE t == Q.ready[1]
  <2>1. Q.ready \in Seq(Tasks) /\ ListHolds(Q.ready, Q.owner, "Ready")
    BY QOKFields
  <2>2. 1 \in 1..Len(Q.ready) /\ t \in Tasks
    BY <1>1, <2>1
  <2>3. Q.owner[t] = "Ready"
    BY <2>1, <2>2 DEF ListHolds, IsIn
  <2>4. R = RemoveReady(Q, t)
    BY <1>1 DEF TakeFirst
  <2> HIDE DEF R, t
  <2>5. /\ QOK(R) /\ SameSettings(Q, R) /\ R.executing = Q.executing /\ R.pending = Q.pending
    BY <2>2, <2>3, <2>4, RemoveReadyLemma
  <2>6. ~Q.disposed
    BY <1>1 DEF DisposedIsEmpty, IsEmptyInternal
  <2>7. DisposedIsEmpty(R)
    BY <2>5, <2>6 DEF DisposedIsEmpty, SameSettings
  <2>8. /\ Quiet(Q, R)
        /\ \A u \in Tasks : R.owner[u] = "Executing" => Q.owner[u] = "Executing"
    BY <2>5, <2>7, ShrinkQuiet
  <2> QED BY <2>5, <2>8 DEF R
<1>2. CASE ~(remove /\ Q.ready # <<>>)
  <2>1. R = Q
    BY <1>2 DEF TakeFirst
  <2> QED BY <2>1 DEF Quiet
<1> QED BY <1>1, <1>2

\* A padded queue with tasks that are not ready has an executing one.
LEMMA WaitersHope ==
    ASSUME NEW Q, QOK(Q), WC(Q), Q.maxReadyOrExecuting = 0, HasPendingOrExecuting(Q)
    PROVE  Q.executing # <<>>
BY QOKFields DEF WC, HasPendingOrExecuting

\* What is left when a run's start is followed by a step that starts nothing.
LEMMA FollowsKept ==
    ASSUME NEW Q, NEW R, NEW S, NEW T, NEW U, RunsFollow(Q, R, T, U),
           \A t \in Tasks : R.owner[t] = "Executing" <=> S.owner[t] = "Executing"
    PROVE  RunsFollow(Q, S, T, U)
BY DEF RunsFollow

\* pop() and top().
LEMMA GetFirstReadyStep ==
    ASSUME IInv, NEW th \in Threads, NEW op \in {"pop", "top"}, NEW wait \in BOOLEAN,
           GetFirstReady(th, op, wait)
    PROVE  IInv'
<1> DEFINE Q == PadExecutingQueue(q)
           sleeps == wait /\ Q.ready = <<>> /\ ~IsEmptyInternal(Q)
           c == [NoCall EXCEPT !.op = op]
<1>1. QOK(q) /\ WC(q) /\ DisposedIsEmpty(q) /\ task \in [Tasks -> TaskType] /\ CallOK(call)
  BY DEF IInv
<1>2. /\ q' = IF sleeps THEN Q ELSE TakeFirst(Q, op = "pop")
      /\ task' = Schedule(task, Scheduled(q, Q))
      /\ call' = IF sleeps THEN [call EXCEPT ![th] = c] ELSE call
      /\ UNCHANGED <<comp, notifyOwner>>
  BY DEF GetFirstReady, Sleep
<1>3. Quiet(q, Q)
  BY <1>1, PadQuiet
<1>4. RunsFollow(q, Q, task, task')
  BY <1>1, <1>2, ScheduleFollows
<1>5. QOK(Q) /\ WC(Q) /\ DisposedIsEmpty(Q)
  BY <1>3 DEF Quiet
<1> HIDE DEF Q
<1>6. CASE sleeps
  <2>1. c \in CallType /\ c.op # "dispose" /\ c.op # "wait"
    BY DEF NoCall, CallType
  <2>2. ObserverLimits \subseteq {0} => Q.executing # <<>>
    <3> SUFFICES ASSUME ObserverLimits \subseteq {0} PROVE Q.executing # <<>>
      OBVIOUS
    <3>1. Q.maxReadyOrExecuting = 0
      BY <1>3 DEF IInv, WaitersOK, Quiet
    <3>2. HasPendingOrExecuting(Q)
      BY <1>6 DEF HasPendingOrExecuting, IsEmptyInternal
    <3> QED BY <1>5, <3>1, <3>2, WaitersHope
  <2>3. q' = Q /\ call' = [call EXCEPT ![th] = c]
    BY <1>2, <1>6
  <2> HIDE DEF c, sleeps
  <2>4. Quiet(q, q') /\ RunsFollow(q, q', task, task')
    BY <1>3, <1>4, <2>3
  <2> QED BY <1>2, <2>1, <2>2, <2>3, <2>4, CallStep
<1>7. CASE ~sleeps
  <2> DEFINE R == TakeFirst(Q, op = "pop")
  <2>1. /\ Quiet(Q, R)
        /\ \A t \in Tasks : R.owner[t] = "Executing" => Q.owner[t] = "Executing"
    BY <1>5, TakeFirstLemma
  <2>2. q' = R /\ UNCHANGED <<comp, call, notifyOwner>>
    BY <1>2, <1>7
  <2> HIDE DEF R, sleeps
  <2>3. Quiet(q, R)
    BY <1>3, <2>1, QuietTransitive
  <2>4. RunsFollow(q, R, task, task')
    <3>1. \A t \in Tasks : Q.owner[t] = "Executing" <=> R.owner[t] = "Executing"
      BY <2>1 DEF Quiet
    <3> QED BY <1>4, <3>1, FollowsKept
  <2>5. Quiet(q, q') /\ RunsFollow(q, q', task, task')
    BY <2>2, <2>3, <2>4
  <2> QED BY <2>2, <2>5, PlainStep
<1> QED BY <1>6, <1>7

\* A thread that returns from the call it slept in.
LEMMA ReturnStep ==
    ASSUME IInv, Quiet(q, q'), RunsFollow(q, q', task, task'),
           UNCHANGED <<comp, notifyOwner>>, NEW th \in Threads, Return(th)
    PROVE  IInv'
<1>1. NoCall \in CallType /\ NoCall.op = "none"
  BY DEF NoCall, CallType
<1>2. call' = [call EXCEPT ![th] = NoCall]
  BY DEF Return
<1> HIDE DEF NoCall
<1> QED BY <1>1, <1>2, CallStep

\* A thread that goes back to sleep, because some task is not ready yet.
LEMMA SleepAgainStep ==
    ASSUME IInv, Quiet(q, q'), RunsFollow(q, q', task, task'),
           UNCHANGED <<comp, notifyOwner>>, NEW th \in Threads, SleepAgain(th),
           HasPendingOrExecuting(q')
    PROVE  IInv'
<1> DEFINE c == [call[th] EXCEPT !.notified = FALSE]
<1>1. CallOK(call) /\ call[th] \in CallType
  BY DEF IInv, CallOK
<1>2. /\ c \in CallType
      /\ c.op = "dispose" => c.discardReady
      /\ c.op = "wait" => c.task \in Tasks
  BY <1>1 DEF CallType, CallOK
<1>3. call' = [call EXCEPT ![th] = c]
  BY DEF SleepAgain
<1>4. ObserverLimits \subseteq {0} => q'.executing # <<>>
  <2> SUFFICES ASSUME ObserverLimits \subseteq {0} PROVE q'.executing # <<>>
    OBVIOUS
  <2>1. q'.maxReadyOrExecuting = 0
    BY DEF IInv, WaitersOK, Quiet
  <2>2. QOK(q') /\ WC(q')
    BY DEF Quiet
  <2> QED BY <2>1, <2>2, WaitersHope
<1> HIDE DEF c
<1> QED BY <1>2, <1>3, <1>4, CallStep

\* A step that changes neither the queue nor a task.
LEMMA NothingQuiet ==
    ASSUME IInv, UNCHANGED <<q, task>>
    PROVE  Quiet(q, q') /\ RunsFollow(q, q', task, task')
BY DEF IInv, Quiet, RunsFollow

\* A thread asleep in pop() or top() wakes.
LEMMA WakeGetFirstReadyStep ==
    ASSUME IInv, NEW th \in Threads, WakeGetFirstReady(th)
    PROVE  IInv'
<1>1. QOK(q) /\ WC(q) /\ DisposedIsEmpty(q) /\ task \in [Tasks -> TaskType] /\ CallOK(call)
  BY DEF IInv
<1>2. UNCHANGED <<comp, notifyOwner>> /\ task' = task
  BY DEF WakeGetFirstReady
<1>3. CASE IsEmptyInternal(q) \/ q.ready # <<>>
  <2> DEFINE R == TakeFirst(q, call[th].op = "pop")
  <2>1. q' = R /\ Return(th)
    BY <1>3 DEF WakeGetFirstReady
  <2>2. /\ Quiet(q, R)
        /\ \A t \in Tasks : R.owner[t] = "Executing" => q.owner[t] = "Executing"
    BY <1>1, TakeFirstLemma
  <2> HIDE DEF R
  <2>3. Quiet(q, q') /\ RunsFollow(q, q', task, task')
    BY <1>1, <1>2, <2>1, <2>2, TasksKept
  <2> QED BY <1>2, <2>1, <2>3, ReturnStep
<1>4. CASE ~(IsEmptyInternal(q) \/ q.ready # <<>>)
  <2>1. q' = q /\ SleepAgain(th)
    BY <1>4 DEF WakeGetFirstReady
  <2>2. Quiet(q, q') /\ RunsFollow(q, q', task, task')
    BY <1>2, <2>1, NothingQuiet
  <2>3. HasPendingOrExecuting(q')
    BY <1>4, <2>1 DEF IsEmptyInternal, HasPendingOrExecuting
  <2> QED BY <1>2, <2>1, <2>2, <2>3, SleepAgainStep
<1> QED BY <1>3, <1>4

\* wait() removes the ready task it waited for.
LEMMA RemoveReadyQuiet ==
    ASSUME NEW Q, QOK(Q), WC(Q), DisposedIsEmpty(Q), NEW t \in Tasks, Q.owner[t] = "Ready"
    PROVE  /\ Quiet(Q, RemoveReady(Q, t))
           /\ \A u \in Tasks : RemoveReady(Q, t).owner[u] = "Executing"
                                  <=> Q.owner[u] = "Executing"
<1> DEFINE R == RemoveReady(Q, t)
<1>1. QOK(R) /\ SameSettings(Q, R) /\ R.executing = Q.executing /\ R.pending = Q.pending
  BY RemoveReadyLemma
<1>2. ~Q.disposed
  <2>1. Q.ready \in Seq(Tasks) /\ ListHolds(Q.ready, Q.owner, "Ready")
    BY QOKFields
  <2>2. Q.ready # <<>>
    BY <2>1, ListNonEmpty
  <2> QED BY <2>2 DEF DisposedIsEmpty, IsEmptyInternal
<1> HIDE DEF R
<1>3. DisposedIsEmpty(R)
  BY <1>1, <1>2 DEF DisposedIsEmpty, SameSettings
<1>4. /\ Quiet(Q, R)
      /\ \A u \in Tasks : R.owner[u] = "Executing" => Q.owner[u] = "Executing"
  BY <1>1, <1>3, ShrinkQuiet
<1> QED BY <1>4 DEF Quiet, R

\* A thread asleep in wait() wakes.
LEMMA WakeWaitStep ==
    ASSUME IInv, NEW th \in Threads, WakeWait(th)
    PROVE  IInv'
<1> DEFINE t == call[th].task
           Q == PadExecutingQueue(q)
<1>1. QOK(q) /\ WC(q) /\ DisposedIsEmpty(q) /\ task \in [Tasks -> TaskType]
  BY DEF IInv
<1>2. /\ call[th].op = "wait"
      /\ q' = IF Q.owner[t] = "Ready" THEN RemoveReady(Q, t) ELSE Q
      /\ task' = Schedule(task, Scheduled(q, Q))
      /\ IF Q.owner[t] \in {"None", "Ready"} THEN Return(th) ELSE SleepAgain(th)
      /\ UNCHANGED <<comp, notifyOwner>>
  BY DEF WakeWait
<1>3. t \in Tasks
  <2>1. CallOK(call) /\ call[th].op = "wait"
    BY <1>2 DEF IInv
  <2> QED BY <2>1 DEF CallOK
<1>4. Quiet(q, Q)
  BY <1>1, PadQuiet
<1>5. RunsFollow(q, Q, task, task')
  BY <1>1, <1>2, ScheduleFollows
<1> HIDE DEF Q, t
<1>6. QOK(Q) /\ WC(Q) /\ DisposedIsEmpty(Q)
  BY <1>4 DEF Quiet
<1>7. CASE Q.owner[t] = "Ready"
  <2> DEFINE R == RemoveReady(Q, t)
  <2>1. q' = R /\ Return(th)
    BY <1>2, <1>7
  <2>2. /\ Quiet(Q, R)
        /\ \A u \in Tasks : R.owner[u] = "Executing" <=> Q.owner[u] = "Executing"
    BY <1>3, <1>6, <1>7, RemoveReadyQuiet
  <2> HIDE DEF R
  <2>3. Quiet(q, R)
    BY <1>4, <2>2, QuietTransitive
  <2>4. RunsFollow(q, R, task, task')
    BY <1>5, <2>2, FollowsKept
  <2>5. Quiet(q, q') /\ RunsFollow(q, q', task, task')
    BY <2>1, <2>3, <2>4
  <2> QED BY <1>2, <2>1, <2>5, ReturnStep
<1>8. CASE Q.owner[t] = "None"
  <2>1. q' = Q /\ Return(th)
    BY <1>2, <1>8
  <2>2. Quiet(q, q') /\ RunsFollow(q, q', task, task')
    BY <1>4, <1>5, <2>1
  <2> QED BY <1>2, <2>1, <2>2, ReturnStep
<1>9. CASE Q.owner[t] \notin {"None", "Ready"}
  <2>1. q' = Q /\ SleepAgain(th)
    BY <1>2, <1>9
  <2>2. Quiet(q, q') /\ RunsFollow(q, q', task, task')
    BY <1>4, <1>5, <2>1
  <2>3. HasPendingOrExecuting(Q)
    <3>1. Q.owner[t] = "Pending" \/ Q.owner[t] = "Executing"
      <4>1. Q.owner \in [Tasks -> OwnerQueues]
        BY <1>6, QOKFields
      <4> QED BY <1>3, <1>9, <4>1 DEF OwnerQueues
    <3>2. /\ Q.pending \in Seq(Tasks) /\ Q.executing \in Seq(Tasks)
          /\ ListHolds(Q.pending, Q.owner, "Pending")
          /\ ListHolds(Q.executing, Q.owner, "Executing")
      BY <1>6, QOKFields
    <3>3. Q.pending # <<>> \/ Q.executing # <<>>
      BY <1>3, <3>1, <3>2, ListNonEmpty
    <3> QED BY <3>3 DEF HasPendingOrExecuting
  <2>4. HasPendingOrExecuting(q')
    BY <2>1, <2>3
  <2> QED BY <1>2, <2>1, <2>2, <2>4, SleepAgainStep
<1> QED BY <1>7, <1>8, <1>9

\* Two lock sections in a row that start tasks.
LEMMA FollowsCompose ==
    ASSUME NEW Q, NEW R, NEW S, NEW T, NEW U, NEW V,
           RunsFollow(Q, R, T, U), RunsFollow(R, S, U, V), Quiet(Q, R), Quiet(R, S)
    PROVE  RunsFollow(Q, S, T, V)
BY DEF RunsFollow, Quiet

\* A task that is executing or pending keeps a waiter's hope.
LEMMA OwnerHope ==
    ASSUME NEW Q, QOK(Q), NEW t \in Tasks, Q.owner[t] \in {"Pending", "Executing"}
    PROVE  HasPendingOrExecuting(Q)
<1>1. /\ Q.pending \in Seq(Tasks) /\ Q.executing \in Seq(Tasks)
      /\ ListHolds(Q.pending, Q.owner, "Pending")
      /\ ListHolds(Q.executing, Q.owner, "Executing")
  BY QOKFields
<1>2. Q.pending # <<>> \/ Q.executing # <<>>
  BY <1>1, ListNonEmpty
<1> QED BY <1>2 DEF HasPendingOrExecuting

\* wait(), waitNoPrioritize() and cancel() that waits.
LEMMA WaitStep ==
    ASSUME IInv, NEW th \in Threads, NEW t \in Tasks, NEW prioritize \in BOOLEAN,
           NEW cancel \in BOOLEAN, Wait(th, t, prioritize, cancel)
    PROVE  IInv'
<1> DEFINE Q == PadExecutingQueue(q)
           sleeps == Q.owner[t] = "Executing" \/ (Q.owner[t] = "Pending" /\ ~cancel)
           front == IF prioritize /\ Q.owner[t] = "Pending" THEN PushToFront(Q, t) ELSE Q
           T == Schedule(task, Scheduled(q, Q))
           T1 == RequestCancel(T, IF cancel THEN {t} ELSE {})
           Q2 == PadExecutingQueue(front)
           c == [NoCall EXCEPT !.op = "wait", !.task = t]
<1>1. QOK(q) /\ WC(q) /\ DisposedIsEmpty(q) /\ task \in [Tasks -> TaskType]
  BY DEF IInv
<1>2. /\ ~q.disposed
      /\ q' = CASE sleeps -> Q2
                [] Q.owner[t] = "Ready" -> RemoveReady(Q, t)
                [] Q.owner[t] = "Pending" /\ cancel -> UnlinkAndDestroy(Q, t)
                [] OTHER -> Q
      /\ task' = IF sleeps THEN Schedule(T1, Scheduled(front, Q2)) ELSE T
      /\ call' = IF sleeps THEN [call EXCEPT ![th] = c] ELSE call
      /\ UNCHANGED <<comp, notifyOwner>>
  BY DEF Wait, CanCall, Sleep
<1>3. Quiet(q, Q)
  BY <1>1, PadQuiet
<1>4. RunsFollow(q, Q, task, T)
  BY <1>1, ScheduleFollows
<1>5. SameSettings(q, Q) /\ ~Q.disposed
  BY <1>1, <1>2, PadLemma DEF SameSettings
<1> HIDE DEF Q, T
<1>6. QOK(Q) /\ WC(Q) /\ DisposedIsEmpty(Q) /\ T \in [Tasks -> TaskType]
  BY <1>3, <1>4 DEF Quiet, RunsFollow
<1>7. CASE sleeps
  <2>1. q' = Q2 /\ task' = Schedule(T1, Scheduled(front, Q2)) /\ call' = [call EXCEPT ![th] = c]
    BY <1>2, <1>7
  <2>2. Quiet(Q, front) /\ front.owner = Q.owner
    <3>1. CASE front = Q
      BY <1>6, <3>1 DEF Quiet
    <3>2. CASE front = PushToFront(Q, t) /\ Q.owner[t] = "Pending"
      <4> DEFINE F == PushToFront(Q, t)
      <4>1. QOK(F) /\ SameSettings(Q, F) /\ F.executing = Q.executing /\ F.owner = Q.owner
        BY <1>6, <3>2, PushToFrontLemma
      <4> HIDE DEF F
      <4>2. Q.pending # <<>> /\ DisposedIsEmpty(F)
        BY <1>5, <1>6, <3>2, <4>1, PendingNonEmpty DEF DisposedIsEmpty, SameSettings
      <4>3. Quiet(Q, F)
        BY <1>6, <4>1, <4>2, ShrinkQuiet
      <4> QED BY <3>2, <4>1, <4>3 DEF F
    <3> QED BY <3>1, <3>2
  <2> HIDE DEF front
  <2>3. QOK(front) /\ DisposedIsEmpty(front)
    BY <2>2 DEF Quiet
  <2>4. Quiet(front, Q2)
    BY <2>3, PadQuiet
  <2>5. T1 \in [Tasks -> TaskType] /\ \A u \in Tasks : T1[u].state = T[u].state
    BY <1>6, RequestCancelKeeps
  <2> HIDE DEF T1
  <2>6. RunsFollow(front, Q2, T1, task')
    BY <2>1, <2>5, ScheduleFollows
  <2> HIDE DEF Q2
  <2>7. RunsFollow(Q, Q2, T, task')
    BY <2>2, <2>5, <2>6 DEF RunsFollow
  <2>8. Quiet(Q, Q2)
    BY <2>2, <2>4, QuietTransitive
  <2>9. RunsFollow(q, Q2, task, task') /\ Quiet(q, Q2)
    BY <1>3, <1>4, <2>7, <2>8, FollowsCompose, QuietTransitive
  <2>10. c \in CallType /\ c.op # "dispose" /\ c.task \in Tasks /\ c.op # "none"
    BY DEF NoCall, CallType
  <2>11. ObserverLimits \subseteq {0} => Q2.executing # <<>>
    <3> SUFFICES ASSUME ObserverLimits \subseteq {0} PROVE Q2.executing # <<>>
      OBVIOUS
    <3>1. Q2.maxReadyOrExecuting = 0
      BY <2>9 DEF IInv, WaitersOK, Quiet
    <3>2. Q.executing # <<>> => Q2.executing # <<>>
      BY <1>6, <2>8, QuietExecuting
    <3>3. HasPendingOrExecuting(Q)
      BY <1>6, <1>7, OwnerHope
    <3>4. Q.maxReadyOrExecuting = 0
      BY <1>3 DEF IInv, WaitersOK, Quiet
    <3>5. Q.executing # <<>>
      BY <1>6, <3>3, <3>4, WaitersHope
    <3> QED BY <3>2, <3>5
  <2> HIDE DEF c, sleeps
  <2>12. Quiet(q, q') /\ RunsFollow(q, q', task, task')
    BY <2>1, <2>9
  <2> QED BY <1>2, <2>1, <2>10, <2>11, <2>12, CallStep
<1>8. ASSUME ~sleeps PROVE IInv'
  <2>1. task' = T /\ UNCHANGED <<comp, call, notifyOwner>>
    BY <1>2, <1>8
  <2>2. Quiet(Q, q') /\ \A u \in Tasks : Q.owner[u] = "Executing" <=> q'.owner[u] = "Executing"
    <3>1. CASE Q.owner[t] = "Ready"
      <4>1. q' = RemoveReady(Q, t)
        BY <1>2, <3>1
      <4> QED BY <1>6, <3>1, <4>1, RemoveReadyQuiet
    <3>2. CASE Q.owner[t] = "Pending"
      <4>1. q' = UnlinkAndDestroy(Q, t)
        BY <1>2, <1>8, <3>2
      <4>2. QOK(q') /\ SameSettings(Q, q') /\ q'.executing = Q.executing
        BY <1>6, <3>2, <4>1, DropPendingLemma
      <4>3. Q.pending # <<>> /\ DisposedIsEmpty(q')
        BY <1>5, <1>6, <3>2, <4>2, PendingNonEmpty DEF DisposedIsEmpty, SameSettings
      <4>4. /\ Quiet(Q, q')
            /\ \A u \in Tasks : q'.owner[u] = "Executing" => Q.owner[u] = "Executing"
        BY <1>6, <4>2, <4>3, ShrinkQuiet
      <4> QED BY <4>4 DEF Quiet
    <3>3. CASE Q.owner[t] \notin {"Ready", "Pending"}
      <4>1. q' = Q
        BY <1>2, <1>8, <3>3
      <4> QED BY <1>6, <4>1 DEF Quiet
    <3> QED BY <3>1, <3>2, <3>3
  <2>3. Quiet(q, q')
    BY <1>3, <2>2, QuietTransitive
  <2>4. RunsFollow(q, q', task, task')
    BY <1>4, <2>1, <2>2, FollowsKept
  <2> QED BY <2>1, <2>3, <2>4, PlainStep
<1> QED BY <1>7, <1>8

\* The end of flushInternal(): only dispose() marks the queue, and only when no task
\* is left in it.
LEMMA FlushEndLemma ==
    ASSUME NEW Q, QOK(Q), WC(Q), DisposedIsEmpty(Q), NEW T, NEW op,
           NEW nothrowIfFailed, NEW discardReady \in BOOLEAN,
           op = "dispose" => discardReady /\ ~HasPendingOrExecuting(Q)
    PROVE  LET R == FlushEnd(Q, T, op, nothrowIfFailed, discardReady)
           IN  /\ Quiet(Q, R)
               /\ \A t \in Tasks : Q.owner[t] = "Executing" <=> R.owner[t] = "Executing"
<1> DEFINE throws == ~nothrowIfFailed /\ \E i \in 1..Len(Q.ready) : T[Q.ready[i]].failed
           C == ClearReady(Q)
           Q1 == IF throws \/ discardReady THEN C ELSE Q
           R == FlushEnd(Q, T, op, nothrowIfFailed, discardReady)
<1>1. R = IF op = "dispose" THEN [Q1 EXCEPT !.disposed = TRUE] ELSE Q1
  BY DEF FlushEnd
<1>2. /\ QOK(C) /\ SameSettings(Q, C) /\ C.ready = <<>> /\ C.pending = Q.pending
      /\ C.executing = Q.executing
  BY ClearReadyLemma
<1> HIDE DEF C, throws, R
<1>3. /\ Quiet(Q, C)
      /\ \A t \in Tasks : C.owner[t] = "Executing" => Q.owner[t] = "Executing"
  <2>1. DisposedIsEmpty(C)
    BY <1>2 DEF DisposedIsEmpty, IsEmptyInternal, SameSettings
  <2> QED BY <1>2, <2>1, ShrinkQuiet
<1>4. Quiet(Q, Q1) /\ \A t \in Tasks : Q.owner[t] = "Executing" <=> Q1.owner[t] = "Executing"
  BY <1>3 DEF Quiet
<1>5. CASE op # "dispose"
  BY <1>1, <1>4, <1>5 DEF R
<1>6. CASE op = "dispose"
  <2> DEFINE D == [Q1 EXCEPT !.disposed = TRUE]
  <2>1. Q1 = C
    BY <1>6
  <2>2. IsEmptyInternal(Q1)
    BY <1>2, <1>6, <2>1 DEF IsEmptyInternal, HasPendingOrExecuting
  <2> HIDE DEF Q1
  <2>3. Q1 \in QueueType /\ ListsConsistent(Q1)
    BY <1>4 DEF Quiet, QOK
  <2>4. /\ D \in QueueType
        /\ D.pending = Q1.pending /\ D.executing = Q1.executing /\ D.ready = Q1.ready
        /\ D.owner = Q1.owner /\ D.executingCount = Q1.executingCount
        /\ D.readyCount = Q1.readyCount /\ D.maxExecuting = Q1.maxExecuting
        /\ D.maxReadyOrExecuting = Q1.maxReadyOrExecuting
    BY <2>3 DEF QueueType
  <2>5. R = D
    BY <1>1, <1>6
  <2> HIDE DEF D
  <2>6. QOK(D) /\ IsEmptyInternal(D)
    BY <2>2, <2>3, <2>4 DEF QOK, ListsConsistent, IsEmptyInternal
  <2>7. Quiet(Q, D)
    BY <1>4, <2>4, <2>6 DEF Quiet, WC, DisposedIsEmpty, IsEmptyInternal
  <2> QED BY <1>4, <2>4, <2>5, <2>7 DEF R
<1> QED BY <1>5, <1>6

\* flush(), cancelAll(), forceFlushNoThrow() and dispose().
LEMMA FlushStep ==
    ASSUME IInv, NEW th \in Threads, NEW op \in {"flush", "cancelAll", "dispose"},
           NEW wait \in BOOLEAN, NEW m \in FlushArgs, op = "dispose" => wait /\ m.discardReady,
           FlushInternal(th, op, wait, m)
    PROVE  IInv'
<1> DEFINE Q1 == IF m.discardPending THEN ClearPending(q) ELSE PadExecutingQueue(q)
           T1 == Schedule(task, Scheduled(q, Q1))
           S == IF m.cancelExecuting THEN {t \in Tasks : Q1.owner[t] = "Executing"} ELSE {}
           T2 == RequestCancel(T1, S)
           sleeps == wait /\ HasPendingOrExecuting(Q1)
           c == [NoCall EXCEPT !.op = op, !.nothrowIfFailed = m.nothrowIfFailed,
                               !.discardReady = m.discardReady]
           R == FlushEnd(Q1, T2, op, m.nothrowIfFailed, m.discardReady)
<1>1. QOK(q) /\ WC(q) /\ DisposedIsEmpty(q) /\ task \in [Tasks -> TaskType]
  BY DEF IInv
<1>2. /\ ~q.disposed
      /\ q' = IF sleeps THEN Q1 ELSE R
      /\ task' = T2
      /\ call' = IF sleeps THEN [call EXCEPT ![th] = c] ELSE call
      /\ UNCHANGED <<comp, notifyOwner>>
  BY DEF FlushInternal, CanCall, Sleep
<1>3. Quiet(q, Q1)
  <2>1. CASE m.discardPending
    <3> DEFINE C == ClearPending(q)
    <3>1. QOK(C) /\ SameSettings(q, C) /\ C.pending = <<>> /\ C.executing = q.executing
      BY <1>1, ClearPendingLemma
    <3> HIDE DEF C
    <3>2. DisposedIsEmpty(C)
      BY <1>2, <3>1 DEF DisposedIsEmpty, SameSettings
    <3>3. Quiet(q, C)
      BY <1>1, <3>1, <3>2, ShrinkQuiet
    <3> QED BY <2>1, <3>3 DEF C
  <2>2. CASE ~m.discardPending
    BY <1>1, <2>2, PadQuiet
  <2> QED BY <2>1, <2>2
<1>4. RunsFollow(q, Q1, task, T1)
  BY <1>1, ScheduleFollows
<1> HIDE DEF Q1, T1, S
<1>5. RunsFollow(q, Q1, task, T2)
  <2>1. T1 \in [Tasks -> TaskType]
    BY <1>4 DEF RunsFollow
  <2>2. T2 \in [Tasks -> TaskType] /\ \A t \in Tasks : T2[t].state = T1[t].state
    BY <2>1, RequestCancelKeeps
  <2> HIDE DEF T2
  <2> QED BY <1>4, <2>2 DEF RunsFollow
<1>6. QOK(Q1) /\ WC(Q1) /\ DisposedIsEmpty(Q1)
  BY <1>3 DEF Quiet
<1>7. m.discardReady \in BOOLEAN /\ m.nothrowIfFailed \in BOOLEAN
  BY DEF FlushArgs
<1> HIDE DEF T2
<1>8. CASE sleeps
  <2>1. q' = Q1 /\ call' = [call EXCEPT ![th] = c]
    BY <1>2, <1>8
  <2>2. /\ c \in CallType
        /\ c.op = "dispose" => c.discardReady
        /\ c.op # "wait"
    BY <1>7 DEF NoCall, CallType
  <2>3. ObserverLimits \subseteq {0} => Q1.executing # <<>>
    <3> SUFFICES ASSUME ObserverLimits \subseteq {0} PROVE Q1.executing # <<>>
      OBVIOUS
    <3>1. Q1.maxReadyOrExecuting = 0
      BY <1>3 DEF IInv, WaitersOK, Quiet
    <3> QED BY <1>6, <1>8, <3>1, WaitersHope
  <2> HIDE DEF c, sleeps
  <2>4. Quiet(q, q') /\ RunsFollow(q, q', task, task')
    BY <1>2, <1>3, <1>5, <2>1
  <2> QED BY <1>2, <2>1, <2>2, <2>3, <2>4, CallStep
<1>9. CASE ~sleeps
  <2>1. op = "dispose" => m.discardReady /\ ~HasPendingOrExecuting(Q1)
    BY <1>9
  <2>2. /\ Quiet(Q1, R)
        /\ \A t \in Tasks : Q1.owner[t] = "Executing" <=> R.owner[t] = "Executing"
    BY <1>6, <1>7, <2>1, FlushEndLemma
  <2>3. q' = R /\ task' = T2 /\ UNCHANGED <<comp, call, notifyOwner>>
    BY <1>2, <1>9
  <2> HIDE DEF R
  <2>4. Quiet(q, R)
    BY <1>3, <2>2, QuietTransitive
  <2>5. RunsFollow(q, R, task, T2)
    BY <1>5, <2>2, FollowsKept
  <2>6. Quiet(q, q') /\ RunsFollow(q, q', task, task')
    BY <2>3, <2>4, <2>5
  <2> QED BY <2>3, <2>6, PlainStep
<1> QED BY <1>8, <1>9

\* A thread asleep in flush(), cancelAll() or dispose() wakes.
LEMMA WakeFlushStep ==
    ASSUME IInv, NEW th \in Threads, WakeFlush(th)
    PROVE  IInv'
<1> DEFINE R == FlushEnd(q, task, call[th].op, call[th].nothrowIfFailed, call[th].discardReady)
<1>1. QOK(q) /\ WC(q) /\ DisposedIsEmpty(q) /\ task \in [Tasks -> TaskType] /\ CallOK(call)
  BY DEF IInv
<1>2. UNCHANGED <<comp, notifyOwner>> /\ task' = task
  BY DEF WakeFlush
<1>3. CASE HasPendingOrExecuting(q)
  <2>1. q' = q /\ SleepAgain(th)
    BY <1>3 DEF WakeFlush
  <2>2. Quiet(q, q') /\ RunsFollow(q, q', task, task') /\ HasPendingOrExecuting(q')
    BY <1>2, <1>3, <2>1, NothingQuiet
  <2> QED BY <1>2, <2>1, <2>2, SleepAgainStep
<1>4. CASE ~HasPendingOrExecuting(q)
  <2>1. q' = R /\ Return(th)
    BY <1>4 DEF WakeFlush
  <2>2. /\ call[th].discardReady \in BOOLEAN
        /\ call[th].op = "dispose" => call[th].discardReady
    BY <1>1 DEF CallOK, CallType
  <2>3. /\ Quiet(q, R)
        /\ \A t \in Tasks : q.owner[t] = "Executing" <=> R.owner[t] = "Executing"
    BY <1>1, <1>4, <2>2, FlushEndLemma
  <2> HIDE DEF R
  <2>4. RunsFollow(q, R, task, task)
    BY <1>1, <2>3, TasksKept
  <2>5. Quiet(q, q') /\ RunsFollow(q, q', task, task')
    BY <1>2, <2>1, <2>3, <2>4
  <2> QED BY <1>2, <2>1, <2>5, ReturnStep
<1> QED BY <1>3, <1>4

-----------------------------------------------------------------------------
(***************************************************************************)
(* Every step of a worker keeps the invariant.                             *)
(***************************************************************************)

\* The worker's place after a lock section is not onReady().
LEMMA AfterLockLemma ==
    ASSUME NEW Q, NEW event \in Events \cup {"none"}, NEW candidate \in Nat
    PROVE  AfterLock(Q, event, candidate) \in CompType /\ AfterLock(Q, event, candidate).pc # "onReady"
BY DEF AfterLock, Idle, CompType

\* A worker that is not at onReady(), before or after its step, completes nothing.
LEMMA WorkerStepQuiet ==
    ASSUME IInv, NEW w \in Workers, NEW x \in CompType,
           comp[w].pc # "onReady", x.pc # "onReady",
           comp' = [comp EXCEPT ![w] = x], Quiet(q, q'), RunsFollow(q, q', task, task'),
           call' = call, notifyOwner' \in Workers \cup {Null}
    PROVE  IInv'
<1>1. comp \in [Workers -> CompType]
  BY DEF IInv
<1>2. \A v \in Workers : comp'[v] = IF v = w THEN x ELSE comp[v]
  BY <1>1
<1>3. comp' \in [Workers -> CompType]
  BY <1>1
<1>4. /\ \A v \in Workers : comp'[v].pc = "onReady" <=> comp[v].pc = "onReady"
      /\ \A v \in Workers : comp[v].pc = "onReady" => comp'[v].task = comp[v].task
  BY <1>2
<1> QED BY <1>3, <1>4, QuietStep

\* invokeNotifyCB() starts the callback.
LEMMA BeginCallbackStep ==
    ASSUME IInv, NEW w \in Workers, BeginCallback(w)
    PROVE  IInv'
<1> DEFINE x == [comp[w] EXCEPT !.pc = "callback"]
<1>1. comp[w] \in CompType /\ comp[w].pc = "notify" /\ notifyOwner \in Workers \cup {Null}
  BY DEF IInv, BeginCallback
<1>2. x \in CompType /\ x.pc # "onReady"
  BY <1>1 DEF CompType
<1>3. /\ comp' = [comp EXCEPT ![w] = x] /\ call' = call
      /\ UNCHANGED <<q, task>> /\ notifyOwner' \in Workers \cup {Null}
  BY <1>1 DEF BeginCallback
<1> HIDE DEF x
<1>4. Quiet(q, q') /\ RunsFollow(q, q', task, task')
  BY <1>3, NothingQuiet
<1> QED BY <1>1, <1>2, <1>3, <1>4, WorkerStepQuiet

\* The callback returns.
LEMMA EndCallbackStep ==
    ASSUME IInv, NEW w \in Workers, EndCallback(w)
    PROVE  IInv'
<1> DEFINE x == AfterLock(q, "none", comp[w].candidate)
<1>1. /\ comp[w] \in CompType /\ comp[w].pc = "callback" /\ notifyOwner \in Workers \cup {Null}
      /\ comp[w].candidate \in Nat
  BY DEF IInv, EndCallback, CompType
<1>2. x \in CompType /\ x.pc # "onReady"
  BY <1>1, AfterLockLemma
<1>3. /\ comp' = [comp EXCEPT ![w] = x] /\ call' = call
      /\ UNCHANGED <<q, task>> /\ notifyOwner' \in Workers \cup {Null}
  BY <1>1 DEF EndCallback
<1> HIDE DEF x
<1>4. Quiet(q, q') /\ RunsFollow(q, q', task, task')
  BY <1>3, NothingQuiet
<1> QED BY <1>1, <1>2, <1>3, <1>4, WorkerStepQuiet

\* The second lock section of onReady() validates the candidate.
LEMMA ValidateCandidateStep ==
    ASSUME IInv, NEW w \in Workers, ValidateCandidate(w)
    PROVE  IInv'
<1> DEFINE g == comp[w].candidate
           publish == /\ Drained(q)
                      /\ q.lastCandidateGeneration = g
                      /\ q.lastPublishedGeneration < g
           x == IF publish THEN AfterLock(q, "AllTasksCompleted", 0) ELSE Idle
           R == [q EXCEPT !.lastPublishedGeneration = g]
<1>1. /\ comp[w] \in CompType /\ comp[w].pc = "validate" /\ g \in Nat
      /\ q \in QueueType /\ QOK(q) /\ WC(q) /\ DisposedIsEmpty(q)
      /\ task \in [Tasks -> TaskType] /\ notifyOwner \in Workers \cup {Null}
  BY DEF IInv, ValidateCandidate, CompType, QOK
<1>2. x \in CompType /\ x.pc # "onReady"
  <2>1. Idle \in CompType /\ Idle.pc # "onReady"
    BY DEF Idle, CompType
  <2>2. /\ AfterLock(q, "AllTasksCompleted", 0) \in CompType
        /\ AfterLock(q, "AllTasksCompleted", 0).pc # "onReady"
    BY AfterLockLemma DEF Events
  <2> QED BY <2>1, <2>2
<1>3. /\ q' = IF publish THEN R ELSE q
      /\ comp' = [comp EXCEPT ![w] = x] /\ call' = call /\ task' = task
      /\ notifyOwner' \in Workers \cup {Null}
  BY <1>1 DEF ValidateCandidate
<1>4. /\ R \in QueueType
      /\ R.pending = q.pending /\ R.executing = q.executing /\ R.ready = q.ready
      /\ R.owner = q.owner /\ R.executingCount = q.executingCount
      /\ R.readyCount = q.readyCount /\ R.maxExecuting = q.maxExecuting
      /\ R.maxReadyOrExecuting = q.maxReadyOrExecuting /\ R.disposed = q.disposed
  BY <1>1 DEF QueueType
<1> HIDE DEF R, x, publish
<1>5. Quiet(q, R)
  BY <1>1, <1>4, ListsKeptQuiet
<1>6. Quiet(q, q') /\ q'.owner = q.owner
  BY <1>1, <1>3, <1>4, <1>5 DEF Quiet
<1>7. RunsFollow(q, q', task, task')
  BY <1>1, <1>3, <1>6, TasksKept
<1> QED BY <1>1, <1>2, <1>3, <1>6, <1>7, WorkerStepQuiet

\* notifyReadyImpl(): a running task has no completion in flight, so it gets one.
LEMMA NotifyReadyStep ==
    ASSUME IInv, NEW w \in Workers, NEW t \in Tasks, NEW failed \in BOOLEAN,
           NotifyReady(w, t, failed)
    PROVE  IInv'
<1> DEFINE x == [Idle EXCEPT !.pc = "onReady", !.task = t]
<1>1. /\ QOK(q) /\ comp \in [Workers -> CompType] /\ task \in [Tasks -> TaskType]
      /\ OneCompletionPerRun
  BY DEF IInv
<1>2. /\ comp[w].pc = "idle" /\ task[t].state = "Running"
      /\ task' = [task EXCEPT ![t].state = "PendingCompletion", ![t].failed = failed]
      /\ comp' = [comp EXCEPT ![w] = x]
      /\ UNCHANGED <<q, call, notifyOwner>>
  BY DEF NotifyReady
<1>3. x \in CompType /\ x.pc = "onReady" /\ x.task = t
  BY DEF Idle, CompType
<1> HIDE DEF x
<1>4. comp' \in [Workers -> CompType] /\ task' \in [Tasks -> TaskType]
  <2>1. comp' \in [Workers -> CompType]
    BY <1>1, <1>2, <1>3
  <2>2. [task[t] EXCEPT !.state = "PendingCompletion", !.failed = failed] \in TaskType
    BY <1>1 DEF TaskType
  <2>3. task' = [task EXCEPT ![t] = [task[t] EXCEPT !.state = "PendingCompletion",
                                                   !.failed = failed]]
    BY <1>2
  <2> QED BY <1>1, <2>1, <2>2, <2>3
<1>5. /\ \A v \in Workers : comp'[v] = IF v = w THEN x ELSE comp[v]
      /\ \A u \in Tasks : task'[u].state = IF u = t THEN "PendingCompletion" ELSE task[u].state
  BY <1>1, <1>2 DEF TaskType
<1>6. q.owner[t] = "Executing" /\ \A v \in Workers : comp[v].pc = "onReady" => comp[v].task # t
  BY <1>1, <1>2 DEF OneCompletionPerRun
<1>7. OneCompletionPerRun'
  <2>1. ASSUME NEW u \in Tasks
        PROVE  /\ q'.owner[u] = "Executing" => task'[u].state \in {"Running", "PendingCompletion"}
               /\ task'[u].state = "Running" => q'.owner[u] = "Executing"
    BY <1>1, <1>2, <1>5, <2>1 DEF OneCompletionPerRun
  <2>2. ASSUME NEW u \in Tasks
        PROVE  q'.owner[u] = "Executing" /\ task'[u].state = "PendingCompletion"
                  <=> \E v \in Workers : comp'[v].pc = "onReady" /\ comp'[v].task = u
    <3>1. CASE u = t
      BY <1>2, <1>3, <1>5, <1>6, <3>1
    <3>2. CASE u # t
      <4>1. (\E v \in Workers : comp'[v].pc = "onReady" /\ comp'[v].task = u)
               <=> \E v \in Workers : comp[v].pc = "onReady" /\ comp[v].task = u
        BY <1>2, <1>3, <1>5, <3>2
      <4> QED BY <1>1, <1>2, <1>5, <3>2, <4>1 DEF OneCompletionPerRun
    <3> QED BY <3>1, <3>2
  <2>3. ASSUME NEW v \in Workers, NEW y \in Workers,
               comp'[v].pc = "onReady", comp'[y].pc = "onReady", comp'[v].task = comp'[y].task
        PROVE  v = y
    BY <1>1, <1>3, <1>5, <1>6, <2>3 DEF OneCompletionPerRun
  <2> QED BY <2>1, <2>2, <2>3 DEF OneCompletionPerRun
<1>8. \A v \in Workers : comp'[v].pc = "onReady" => comp'[v].task \in Tasks
  BY <1>3, <1>5 DEF IInv
<1> QED BY <1>2, <1>4, <1>7, <1>8 DEF IInv

(***************************************************************************)
(* onReady() of task t by worker w.  Every other task that was executing   *)
(* still is; t is executing afterwards only if it was started again.       *)
(***************************************************************************)
LEMMA CompletionRuns ==
    ASSUME OneCompletionPerRun, comp \in [Workers -> CompType],
           NEW w \in Workers, NEW x \in CompType, x.pc # "onReady",
           comp[w].pc = "onReady", comp' = [comp EXCEPT ![w] = x],
           \A u \in Tasks : u # comp[w].task =>
              /\ q.owner[u] = "Executing" => q'.owner[u] = "Executing"
              /\ task'[u].state = IF q.owner[u] # "Executing" /\ q'.owner[u] = "Executing"
                                  THEN "Running" ELSE task[u].state,
           comp[w].task \in Tasks =>
              (q'.owner[comp[w].task] = "Executing" <=> task'[comp[w].task].state = "Running")
    PROVE  OneCompletionPerRun'
<1> DEFINE t == comp[w].task
<1>1. \A v \in Workers : comp'[v] = IF v = w THEN x ELSE comp[v]
  OBVIOUS
<1>2. \A v \in Workers : v # w /\ comp[v].pc = "onReady" => comp[v].task # t
  BY DEF OneCompletionPerRun
<1>3. ASSUME NEW u \in Tasks
      PROVE  /\ q'.owner[u] = "Executing" => task'[u].state \in {"Running", "PendingCompletion"}
             /\ task'[u].state = "Running" => q'.owner[u] = "Executing"
  <2>1. CASE u = t
    BY <2>1
  <2>2. CASE u # t
    BY <1>3, <2>2 DEF OneCompletionPerRun
  <2> QED BY <2>1, <2>2
<1>4. ASSUME NEW u \in Tasks
      PROVE  q'.owner[u] = "Executing" /\ task'[u].state = "PendingCompletion"
                <=> \E v \in Workers : comp'[v].pc = "onReady" /\ comp'[v].task = u
  <2>1. CASE u = t
    <3>1. ~(q'.owner[u] = "Executing" /\ task'[u].state = "PendingCompletion")
      BY <2>1
    <3>2. ~\E v \in Workers : comp'[v].pc = "onReady" /\ comp'[v].task = u
      BY <1>1, <1>2, <2>1
    <3> QED BY <3>1, <3>2
  <2>2. CASE u # t
    <3>1. (\E v \in Workers : comp'[v].pc = "onReady" /\ comp'[v].task = u)
             <=> \E v \in Workers : comp[v].pc = "onReady" /\ comp[v].task = u
      BY <1>1, <2>2
    <3>2. q'.owner[u] = "Executing" /\ task'[u].state = "PendingCompletion"
             <=> q.owner[u] = "Executing" /\ task[u].state = "PendingCompletion"
      BY <1>4, <2>2
    <3> QED BY <3>1, <3>2 DEF OneCompletionPerRun
  <2> QED BY <2>1, <2>2
<1>5. ASSUME NEW v \in Workers, NEW y \in Workers,
             comp'[v].pc = "onReady", comp'[y].pc = "onReady", comp'[v].task = comp'[y].task
      PROVE  v = y
  BY <1>1, <1>5 DEF OneCompletionPerRun
<1> QED BY <1>3, <1>4, <1>5 DEF OneCompletionPerRun

\* The task that a worker completes is executing and awaits its completion.
LEMMA CompletingTask ==
    ASSUME IInv, NEW w \in Workers, comp[w].pc = "onReady"
    PROVE  /\ comp[w].task \in Tasks
           /\ q.owner[comp[w].task] = "Executing"
           /\ task[comp[w].task].state = "PendingCompletion"
BY DEF IInv, OneCompletionPerRun

\* m_cvReady.notify_all() leaves no sleeper that was not notified.
LEMMA NotifyAllLemma ==
    ASSUME CallOK(call)
    PROVE  /\ CallOK(NotifyAll)
           /\ \A th \in Threads : NotifyAll[th].op # "none" => NotifyAll[th].notified
<1>1. \A th \in Threads : call[th] \in CallType
  BY DEF CallOK
<1>2. \A th \in Threads : /\ NotifyAll[th] \in CallType
                          /\ NotifyAll[th].op = call[th].op
                          /\ NotifyAll[th].task = call[th].task
                          /\ NotifyAll[th].discardReady = call[th].discardReady
                          /\ NotifyAll[th].op # "none" => NotifyAll[th].notified
  BY <1>1 DEF NotifyAll, CallType
<1>3. NotifyAll \in [Threads -> CallType]
  BY <1>2 DEF NotifyAll
<1> HIDE DEF NotifyAll
<1> QED BY <1>2, <1>3 DEF CallOK

\* The part of onReady() that completes task t and pads the executing queue.
LEMMA CompleteTaskStep ==
    ASSUME IInv, NEW w \in Workers, comp[w].pc = "onReady",
           NEW Q, NEW T, NEW failed \in BOOLEAN, QOK(Q), ~Q.disposed,
           Q.maxReadyOrExecuting = q.maxReadyOrExecuting,
           \A u \in Tasks : q.owner[u] = "Executing" => Q.owner[u] = "Executing",
           RunsFollow(q, Q, task, T), CompleteTask(w, comp[w].task, Q, T, failed)
    PROVE  IInv'
<1> DEFINE t == comp[w].task
           keep == KeepTask(Q, failed)
           Q1 == [Q EXCEPT !.executingCount = @ - 1]
           Q2 == IF keep THEN MoveTaskToReadyQueue(Q1, t) ELSE UnlinkAndDestroy(Q1, t)
           Q3 == PadExecutingQueue(Q2)
           candidate == IF Drained(Q3) THEN Q3.activeWorkGeneration ELSE 0
           R == [Q3 EXCEPT !.lastCandidateGeneration = Q3.activeWorkGeneration]
           T1 == [T EXCEPT ![t].state = "Completed", ![t].failed = failed]
           event == IF keep THEN "TaskReady" ELSE "TaskDiscarded"
           x == AfterLock(Q3, event, candidate)
<1>1. t \in Tasks /\ Q.owner[t] = "Executing" /\ keep \in BOOLEAN
  BY CompletingTask DEF KeepTask
<1>2. /\ q' = IF Drained(Q3) THEN R ELSE Q3
      /\ task' = Schedule(T1, Scheduled(Q2, Q3))
      /\ call' = NotifyAll
      /\ comp' = [comp EXCEPT ![w] = x]
      /\ notifyOwner' = notifyOwner
  BY DEF CompleteTask
<1>3. /\ QOK(Q2) /\ SameSettings(Q, Q2)
      /\ Q2.owner = [Q.owner EXCEPT ![t] = IF keep THEN "Ready" ELSE "None"]
  <2> HIDE DEF keep, t
  <2> QED BY <1>1, FinishLemma
<1> HIDE DEF Q2, keep
<1>4. /\ QOK(Q3) /\ SameSettings(Q2, Q3)
      /\ Q3.pending # <<>> => Throttled(Q3, 0)
      /\ \A u \in Tasks : \/ Q3.owner[u] = Q2.owner[u]
                          \/ Q2.owner[u] = "Pending" /\ Q3.owner[u] = "Executing"
  <2>1. QOK(Q2)
    BY <1>3
  <2> QED BY <2>1, PadLemma
<1> HIDE DEF Q3
<1>5. WC(Q3) /\ DisposedIsEmpty(Q3)
  BY <1>3, <1>4, ThrottledWC DEF DisposedIsEmpty, SameSettings
<1>6. Quiet(Q3, q') /\ q'.owner = Q3.owner /\ q'.maxReadyOrExecuting = q.maxReadyOrExecuting
  <2>1. Q3 \in QueueType /\ Q3.activeWorkGeneration \in Nat
    BY <1>4, QOKFields DEF QOK
  <2>2. /\ R \in QueueType
        /\ R.pending = Q3.pending /\ R.executing = Q3.executing /\ R.ready = Q3.ready
        /\ R.owner = Q3.owner /\ R.executingCount = Q3.executingCount
        /\ R.readyCount = Q3.readyCount /\ R.maxExecuting = Q3.maxExecuting
        /\ R.maxReadyOrExecuting = Q3.maxReadyOrExecuting /\ R.disposed = Q3.disposed
    BY <2>1 DEF QueueType
  <2> HIDE DEF R
  <2>3. Quiet(Q3, R)
    BY <1>4, <1>5, <2>2, ListsKeptQuiet
  <2>4. Quiet(Q3, Q3)
    BY <1>4, <1>5 DEF Quiet
  <2>5. Q3.maxReadyOrExecuting = q.maxReadyOrExecuting
    BY <1>3, <1>4 DEF SameSettings
  <2> QED BY <1>2, <2>2, <2>3, <2>4, <2>5
<1>7. QOK(q') /\ WC(q') /\ DisposedIsEmpty(q')
  BY <1>6 DEF Quiet
<1>8. T1 \in [Tasks -> TaskType] /\ \A u \in Tasks : T1[u].state = IF u = t THEN "Completed" ELSE T[u].state
  <2>1. T \in [Tasks -> TaskType]
    BY DEF RunsFollow
  <2>2. [T[t] EXCEPT !.state = "Completed", !.failed = failed] \in TaskType
    BY <1>1, <2>1 DEF TaskType
  <2>3. T1 = [T EXCEPT ![t] = [T[t] EXCEPT !.state = "Completed", !.failed = failed]]
    OBVIOUS
  <2>4. [T[t] EXCEPT !.state = "Completed", !.failed = failed].state = "Completed"
    BY <1>1, <2>1 DEF TaskType
  <2> HIDE DEF T1
  <2> QED BY <1>1, <2>1, <2>2, <2>3, <2>4
<1> HIDE DEF T1
<1>9. RunsFollow(Q2, Q3, T1, task')
  BY <1>2, <1>8, ScheduleFollows
<1>10. x \in CompType /\ x.pc # "onReady"
  <2>1. candidate \in Nat
    BY <1>4, QOKFields
  <2>2. event \in Events \cup {"none"}
    BY DEF Events, TaskEvents
  <2> HIDE DEF candidate, event
  <2> QED BY <2>1, <2>2, AfterLockLemma
<1> HIDE DEF x
<1>11. \A u \in Tasks : Q2.owner[u] = IF u = t THEN (IF keep THEN "Ready" ELSE "None") ELSE Q.owner[u]
  <2>1. Q.owner \in [Tasks -> OwnerQueues]
    BY QOKFields
  <2> QED BY <1>1, <1>3, <2>1
<1>12. \A u \in Tasks : u # t =>
          /\ q.owner[u] = "Executing" => q'.owner[u] = "Executing"
          /\ task'[u].state = IF q.owner[u] # "Executing" /\ q'.owner[u] = "Executing"
                              THEN "Running" ELSE task[u].state
  <2> SUFFICES ASSUME NEW u \in Tasks, u # t
               PROVE  /\ q.owner[u] = "Executing" => q'.owner[u] = "Executing"
                      /\ task'[u].state = IF q.owner[u] # "Executing" /\ q'.owner[u] = "Executing"
                                          THEN "Running" ELSE task[u].state
    OBVIOUS
  <2>1. Q2.owner[u] = Q.owner[u] /\ q'.owner[u] = Q3.owner[u] /\ T1[u].state = T[u].state
    BY <1>6, <1>8, <1>11
  <2>2. Q3.owner[u] = Q2.owner[u] \/ (Q2.owner[u] = "Pending" /\ Q3.owner[u] = "Executing")
    BY <1>4
  <2>3. T[u].state = IF q.owner[u] # "Executing" /\ Q.owner[u] = "Executing"
                     THEN "Running" ELSE task[u].state
    BY DEF RunsFollow
  <2>4. task'[u].state = IF Q2.owner[u] # "Executing" /\ Q3.owner[u] = "Executing"
                         THEN "Running" ELSE T1[u].state
    BY <1>9 DEF RunsFollow
  <2> QED BY <2>1, <2>2, <2>3, <2>4
<1>13. q'.owner[t] # "Executing" /\ task'[t].state = "Completed"
  <2>1. Q2.owner[t] \in {"Ready", "None"}
    BY <1>1, <1>11
  <2>2. Q3.owner[t] = Q2.owner[t]
    BY <1>1, <1>4, <2>1
  <2>3. task'[t].state = T1[t].state
    BY <1>1, <1>9, <2>1, <2>2 DEF RunsFollow
  <2> QED BY <1>1, <1>6, <1>8, <2>1, <2>2, <2>3
<1>14. OneCompletionPerRun'
  <2>1. OneCompletionPerRun /\ comp \in [Workers -> CompType]
    BY DEF IInv
  <2>2. t \in Tasks => (q'.owner[t] = "Executing" <=> task'[t].state = "Running")
    BY <1>13
  <2> QED BY <1>2, <1>10, <1>12, <2>1, <2>2, CompletionRuns
<1>15. CallOK(call') /\ \A th \in Threads : call'[th].op # "none" => call'[th].notified
  <2>1. CallOK(call)
    BY DEF IInv
  <2> QED BY <1>2, <2>1, NotifyAllLemma
<1>16. /\ comp' \in [Workers -> CompType]
       /\ \A v \in Workers : comp'[v].pc = "onReady" => comp'[v].task \in Tasks
  BY <1>2, <1>10 DEF IInv
<1>17. ObserverLimits \subseteq {0} => WaitersOK(q', call')
  BY <1>6, <1>15 DEF IInv, WaitersOK
<1>18. task' \in [Tasks -> TaskType] /\ notifyOwner' \in Workers \cup {Null}
  BY <1>2, <1>9 DEF RunsFollow, IInv
<1> QED BY <1>7, <1>14, <1>15, <1>16, <1>17, <1>18 DEF IInv

\* onReady() of a task that is its own continuation: it goes to the back of the
\* pending queue, and the padding leaves some task executing.
LEMMA OnReadySelfStep ==
    ASSUME IInv, NEW w \in Workers, comp[w].pc = "onReady", ~q.disposed, OnReadySelf(w)
    PROVE  IInv'
<1> DEFINE t == comp[w].task
           Q1 == [MoveExecutingTaskToPendingQueue(q, t) EXCEPT !.activeWorkGeneration = @ + 1]
           Q2 == PadExecutingQueue(Q1)
<1>1. /\ QOK(q) /\ task \in [Tasks -> TaskType] /\ OneCompletionPerRun
      /\ comp \in [Workers -> CompType] /\ CallOK(call) /\ notifyOwner \in Workers \cup {Null}
  BY DEF IInv
<1>2. t \in Tasks /\ q.owner[t] = "Executing" /\ task[t].state = "PendingCompletion"
  BY CompletingTask
<1>3. /\ q' = Q2 /\ task' = Schedule(task, Scheduled(Q1, Q2))
      /\ comp' = [comp EXCEPT ![w] = Idle] /\ UNCHANGED <<call, notifyOwner>>
  BY DEF OnReadySelf
<1>4. QOK(Q1) /\ SameSettings(q, Q1) /\ Q1.owner = [q.owner EXCEPT ![t] = "Pending"]
  <2> HIDE DEF t
  <2> QED BY <1>1, <1>2, RequeueLemma
<1> HIDE DEF Q1
<1>5. /\ QOK(Q2) /\ SameSettings(Q1, Q2)
      /\ Q2.pending # <<>> => Throttled(Q2, 0)
      /\ \A u \in Tasks : \/ Q2.owner[u] = Q1.owner[u]
                          \/ Q1.owner[u] = "Pending" /\ Q2.owner[u] = "Executing"
  <2>1. QOK(Q1)
    BY <1>4
  <2> QED BY <2>1, PadLemma
<1>6. RunsFollow(Q1, Q2, task, task')
  BY <1>1, <1>3, ScheduleFollows
<1> HIDE DEF Q2
<1>7. WC(Q2) /\ DisposedIsEmpty(Q2)
  BY <1>4, <1>5, ThrottledWC DEF DisposedIsEmpty, SameSettings
<1>8. \A u \in Tasks : Q1.owner[u] = IF u = t THEN "Pending" ELSE q.owner[u]
  <2>1. q.owner \in [Tasks -> OwnerQueues]
    BY <1>1, QOKFields
  <2> QED BY <1>2, <1>4, <2>1
<1>9. Idle \in CompType /\ Idle.pc # "onReady"
  BY DEF Idle, CompType
<1>10. \A u \in Tasks : u # t =>
          /\ q.owner[u] = "Executing" => q'.owner[u] = "Executing"
          /\ task'[u].state = IF q.owner[u] # "Executing" /\ q'.owner[u] = "Executing"
                              THEN "Running" ELSE task[u].state
  BY <1>3, <1>5, <1>6, <1>8 DEF RunsFollow
<1>11. q'.owner[t] = "Executing" <=> task'[t].state = "Running"
  <2>1. Q1.owner[t] = "Pending"
    BY <1>2, <1>8
  <2> QED BY <1>2, <1>3, <1>6, <2>1 DEF RunsFollow
<1>12. OneCompletionPerRun'
  <2> HIDE DEF Idle
  <2> QED BY <1>1, <1>3, <1>9, <1>10, <1>11, CompletionRuns
<1>13. /\ comp' \in [Workers -> CompType]
       /\ \A v \in Workers : comp'[v].pc = "onReady" => comp'[v].task \in Tasks
  BY <1>3, <1>9 DEF IInv
<1>14. ObserverLimits \subseteq {0} => WaitersOK(q', call')
  <2> SUFFICES ASSUME ObserverLimits \subseteq {0} PROVE WaitersOK(q', call')
    OBVIOUS
  <2>1. Q2.maxReadyOrExecuting = 0
    BY <1>4, <1>5 DEF IInv, WaitersOK, SameSettings
  <2>2. HasPendingOrExecuting(Q2)
    <3>1. Q2.owner[t] \in {"Pending", "Executing"}
      BY <1>2, <1>5, <1>8
    <3> QED BY <1>2, <1>5, <3>1, OwnerHope
  <2>3. Q2.executing # <<>>
    BY <1>5, <1>7, <2>1, <2>2, WaitersHope
  <2> QED BY <1>3, <2>1, <2>3 DEF WaitersOK
<1>15. task' \in [Tasks -> TaskType]
  BY <1>6 DEF RunsFollow
<1> QED BY <1>1, <1>3, <1>5, <1>7, <1>12, <1>13, <1>14, <1>15 DEF IInv

\* onReady() of a task whose continuation is another task.
LEMMA OnReadyOtherStep ==
    ASSUME IInv, NEW w \in Workers, comp[w].pc = "onReady", ~q.disposed,
           NEW u \in Tasks, OnReadyOther(w, u)
    PROVE  IInv'
<1> DEFINE t == comp[w].task
           Q == PushInternalNoLock(q, u, FALSE, FALSE)
           T == Schedule(task, Scheduled(q, Q))
<1>1. QOK(q) /\ task \in [Tasks -> TaskType]
  BY DEF IInv
<1>2. q.owner[u] \in {"None", "Ready"} /\ CompleteTask(w, t, Q, T, task[t].failed)
  BY DEF OnReadyOther
<1>3. /\ QOK(Q) /\ SameSettings(q, Q)
      /\ \A v \in Tasks : q.owner[v] = "Executing" => Q.owner[v] = "Executing"
  <2>1. FALSE \in BOOLEAN /\ QOK(q) /\ q.owner[u] \in {"None", "Ready"}
    BY <1>1, <1>2
  <2> QED BY <2>1, PushLemma
<1>4. RunsFollow(q, Q, task, T)
  BY <1>1, ScheduleFollows
<1>5. task[t].failed \in BOOLEAN
  BY <1>1, CompletingTask DEF TaskType
<1> HIDE DEF Q, T
<1>6. ~Q.disposed /\ Q.maxReadyOrExecuting = q.maxReadyOrExecuting
  BY <1>3 DEF SameSettings
<1> QED BY <1>2, <1>3, <1>4, <1>5, <1>6, CompleteTaskStep

\* onReady() of a task without a continuation.
LEMMA OnReadyDoneStep ==
    ASSUME IInv, NEW w \in Workers, comp[w].pc = "onReady", ~q.disposed,
           NEW throws \in BOOLEAN, OnReadyDone(w, throws)
    PROVE  IInv'
<1> DEFINE t == comp[w].task
           failed == task[t].failed \/ throws
<1>1. QOK(q) /\ task \in [Tasks -> TaskType]
  BY DEF IInv
<1>2. CompleteTask(w, t, q, task, failed)
  BY DEF OnReadyDone
<1>3. RunsFollow(q, q, task, task)
  BY <1>1 DEF RunsFollow
<1>4. failed \in BOOLEAN
  OBVIOUS
<1> HIDE DEF failed
<1> QED BY <1>1, <1>2, <1>3, <1>4, CompleteTaskStep

\* onReady() in all its cases.  It never finds the queue disposed: dispose() waits for
\* the executing tasks, and the task that completes is one of them.
LEMMA OnReadyStep ==
    ASSUME IInv, NEW w \in Workers, OnReady(w)
    PROVE  IInv'
<1>1. comp[w].pc = "onReady"
  BY DEF OnReady
<1>2. ~q.disposed
  <2>1. QOK(q) /\ DisposedIsEmpty(q)
    BY DEF IInv
  <2>2. comp[w].task \in Tasks /\ q.owner[comp[w].task] = "Executing"
    BY <1>1, CompletingTask
  <2>3. q.executing \in Seq(Tasks) /\ ListHolds(q.executing, q.owner, "Executing")
    BY <2>1, QOKFields
  <2>4. q.executing # <<>>
    BY <2>2, <2>3, ListNonEmpty
  <2> QED BY <2>1, <2>4 DEF DisposedIsEmpty, IsEmptyInternal
<1>3. \/ OnReadyDone(w, FALSE) \/ OnReadyDone(w, TRUE) \/ OnReadySelf(w)
      \/ \E u \in Tasks : OnReadyOther(w, u)
  BY <1>2 DEF OnReady
<1>4. ASSUME NEW throws \in BOOLEAN, OnReadyDone(w, throws) PROVE IInv'
  BY <1>1, <1>2, <1>4, OnReadyDoneStep
<1>5. CASE OnReadySelf(w)
  BY <1>1, <1>2, <1>5, OnReadySelfStep
<1>6. ASSUME NEW u \in Tasks, OnReadyOther(w, u) PROVE IInv'
  BY <1>1, <1>2, <1>6, OnReadyOtherStep
<1> QED BY <1>3, <1>4, <1>5, <1>6

-----------------------------------------------------------------------------
(***************************************************************************)
(* The theorems.                                                           *)
(***************************************************************************)

\* A new queue satisfies the invariant.
LEMMA InitInvariant == Init => IInv
<1> SUFFICES ASSUME Init PROVE IInv
  OBVIOUS
<1>1. PICK o \in Options, l \in ThrottleLimits :
         q = [pending |-> <<>>, executing |-> <<>>, ready |-> <<>>,
              owner |-> [t \in Tasks |-> "None"],
              executingCount |-> 0, readyCount |-> 0, activeWorkGeneration |-> 0,
              lastPublishedGeneration |-> 0, lastCandidateGeneration |-> 0,
              maxExecuting |-> l, maxReadyOrExecuting |-> 0, options |-> o,
              observer |-> FALSE, eventsMask |-> {}, delivery |-> "Concurrent",
              disposed |-> FALSE]
  BY DEF Init
<1>2. o \in SUBSET KeepFlags /\ l \in Nat /\ <<>> \in Seq(Tasks)
  BY ConstantsAssumption
<1>3. q \in QueueType
  BY <1>1, <1>2 DEF QueueType, OwnerQueues
<1>4. ListsConsistent(q)
  BY <1>1 DEF ListsConsistent, ListHolds, NoDuplicates, IsIn
<1>5. WC(q) /\ DisposedIsEmpty(q)
  BY <1>1 DEF WC, DisposedIsEmpty
<1>6. task \in [Tasks -> TaskType] /\ \A t \in Tasks : task[t].state = "Created"
  BY DEF Init, TaskType
<1>7. comp \in [Workers -> CompType] /\ \A w \in Workers : comp[w].pc = "idle"
  BY DEF Init, Idle, CompType
<1>8. call \in [Threads -> CallType] /\ \A th \in Threads : call[th].op = "none"
  BY DEF Init, NoCall, CallType
<1>9. OneCompletionPerRun
  BY <1>1, <1>6, <1>7 DEF OneCompletionPerRun
<1>10. WaitersOK(q, call) /\ CallOK(call)
  BY <1>1, <1>8 DEF WaitersOK, CallOK
<1> QED BY <1>3, <1>4, <1>5, <1>6, <1>7, <1>9, <1>10 DEF IInv, QOK, Init

\* Every step of every thread keeps the invariant.
LEMMA NextInvariant == IInv /\ [Next]_vars => IInv'
<1> SUFFICES ASSUME IInv, [Next]_vars PROVE IInv'
  OBVIOUS
<1>1. ASSUME NEW w \in Workers, WorkerStep(w) PROVE IInv'
  <2>1. CASE Complete(w)
    BY <2>1, NotifyReadyStep DEF Complete
  <2>2. CASE OnReady(w)
    BY <2>2, OnReadyStep
  <2>3. CASE BeginCallback(w)
    BY <2>3, BeginCallbackStep
  <2>4. CASE EndCallback(w)
    BY <2>4, EndCallbackStep
  <2>5. CASE ValidateCandidate(w)
    BY <2>5, ValidateCandidateStep
  <2> QED BY <1>1, <2>1, <2>2, <2>3, <2>4, <2>5 DEF WorkerStep
<1>2. ASSUME NEW th \in Threads, Wake(th) PROVE IInv'
  <2>1. CASE WakeGetFirstReady(th)
    BY <2>1, WakeGetFirstReadyStep
  <2>2. CASE WakeWait(th)
    BY <2>2, WakeWaitStep
  <2>3. CASE WakeFlush(th)
    BY <2>3, WakeFlushStep
  <2> QED BY <1>2, <2>1, <2>2, <2>3 DEF Wake
<1>3. ASSUME NEW th \in Threads, ClientCall(th) PROVE IInv'
  <2>1. ASSUME NEW t \in Tasks, NEW isBack \in BOOLEAN, NEW dontSchedule \in BOOLEAN,
               Push(th, t, isBack, dontSchedule) PROVE IInv'
    BY <2>1, PushStep
  <2>2. ASSUME NEW op \in {"pop", "top"}, NEW wait \in BOOLEAN, GetFirstReady(th, op, wait)
        PROVE  IInv'
    BY <2>2, GetFirstReadyStep
  <2>3. ASSUME NEW t \in Tasks, NEW prioritize \in BOOLEAN, NEW cancel \in BOOLEAN,
               Wait(th, t, prioritize, cancel) PROVE IInv'
    BY <2>3, WaitStep
  <2>4. ASSUME NEW t \in Tasks, Prioritize(th, t) PROVE IInv'
    BY <2>4, PrioritizeStep
  <2>5. CASE Flush(th)
    <3>1. PICK m \in FlushModes : FlushInternal(th, "flush", TRUE, m)
      BY <2>5 DEF Flush
    <3>2. m \in FlushArgs
      BY ConstantsAssumption
    <3> QED BY <3>1, <3>2, FlushStep
  <2>6. ASSUME NEW wait \in BOOLEAN, CancelAll(th, wait) PROVE IInv'
    <3>1. DiscardAll \in FlushArgs
      BY DEF DiscardAll, FlushArgs
    <3>2. FlushInternal(th, "cancelAll", wait, DiscardAll)
      BY <2>6 DEF CancelAll
    <3> HIDE DEF DiscardAll
    <3> QED BY <3>1, <3>2, FlushStep
  <2>7. CASE Dispose(th)
    <3>1. DiscardAll \in FlushArgs /\ DiscardAll.discardReady
      BY DEF DiscardAll, FlushArgs
    <3>2. FlushInternal(th, "dispose", TRUE, DiscardAll)
      BY <2>7 DEF Dispose
    <3> HIDE DEF DiscardAll
    <3> QED BY <3>1, <3>2, FlushStep
  <2>8. ASSUME NEW t \in Tasks, Cancel(th, t) PROVE IInv'
    BY <2>8, CancelStep
  <2>9. ASSUME NEW limit \in ThrottleLimits, SetThrottleLimit(th, limit) PROVE IInv'
    BY <2>9, SetThrottleLimitStep
  <2>10. ASSUME NEW options \in Options, SetOptions(th, options) PROVE IInv'
    BY <2>10, SetOptionsStep
  <2>11. ASSUME NEW observer \in BOOLEAN, NEW limit \in ObserverLimits, NEW mask \in EventMasks,
                NEW delivery \in Deliveries,
                SetNotifyCallback(th, observer, limit, mask, delivery) PROVE IInv'
    BY <2>11, SetNotifyCallbackStep
  <2> QED BY <1>3, <2>1, <2>2, <2>3, <2>4, <2>5, <2>6, <2>7, <2>8, <2>9, <2>10, <2>11 DEF ClientCall
<1>4. CASE DisconnectObserver
  BY <1>4, DisconnectStep
<1>5. CASE UNCHANGED vars
  BY <1>5 DEF vars, IInv, OneCompletionPerRun
<1> QED BY <1>1, <1>2, <1>3, <1>4, <1>5 DEF Next

\* The inductive invariant holds in every state the queue can reach, for any number of
\* tasks and threads, any limits and any continuations.
THEOREM Invariance == Spec => []IInv
BY InitInvariant, NextInvariant, PTL DEF Spec

\* The members of the queue, the tasks and the threads keep their types in every
\* execution: m_executingCount and m_readyCount are never decremented below zero.
THEOREM TypeCorrect == Spec => []TypeOK
<1>1. IInv => TypeOK
  BY DEF IInv, TypeOK, QOK, CallOK
<1> QED BY <1>1, Invariance, PTL

\* Each task is in the list its TaskInfo names and in no other, and the counts equal
\* the lengths of the lists, whatever operations, completions and continuations of
\* any number of threads and tasks interleave.
THEOREM ListsStayConsistent == Spec => []Consistent
<1>1. IInv => Consistent
  BY DEF IInv, Consistent, QOK
<1> QED BY <1>1, Invariance, PTL

\* onReady() runs exactly once for every run of a task.
THEOREM CompletionExactlyOnce == Spec => []OneCompletionPerRun
<1>1. IInv => OneCompletionPerRun
  BY DEF IInv
<1> QED BY <1>1, Invariance, PTL

\* No operation leaves a task pending beside a free place.
THEOREM QueueIsWorkConserving == Spec => []WorkConserving
<1>1. IInv => WorkConserving
  BY DEF IInv, WC, WorkConserving
<1> QED BY <1>1, Invariance, PTL

\* After dispose() the queue is empty and no completion is on its way to it.
THEOREM DisposeIsFinal == Spec => []DisposedIsQuiescent
<1>1. IInv => DisposedIsQuiescent
  <2> SUFFICES ASSUME IInv, q.disposed PROVE DisposedIsQuiescent
    BY DEF DisposedIsQuiescent
  <2>1. QOK(q) /\ IsEmptyInternal(q) /\ OneCompletionPerRun
    BY DEF IInv, DisposedIsEmpty
  <2>2. \A t \in Tasks : q.owner[t] # "Executing"
    <3>1. ListHolds(q.executing, q.owner, "Executing") /\ q.executing = <<>>
      BY <2>1, QOKFields DEF IsEmptyInternal
    <3> QED BY <3>1 DEF ListHolds, IsIn
  <2>3. \A t \in Tasks : task[t].state # "Running"
    BY <2>1, <2>2 DEF OneCompletionPerRun
  <2>4. \A w \in Workers : comp[w].pc # "onReady"
    BY <2>2, CompletingTask
  <2> QED BY <2>1, <2>3, <2>4 DEF DisposedIsQuiescent
<1> QED BY <1>1, Invariance, PTL

\* When no observer limits the ready and executing tasks, no operation leaves a thread
\* asleep on m_cvReady without an executing task whose completion will notify it.
THEOREM WaitersHaveHope ==
    ASSUME ObserverLimits \subseteq {0}
    PROVE  Spec => []NoStrandedWaiter
<1>1. IInv => NoStrandedWaiter
  BY DEF IInv, WaitersOK, NoStrandedWaiter
<1> QED BY <1>1, Invariance, PTL
=============================================================================
