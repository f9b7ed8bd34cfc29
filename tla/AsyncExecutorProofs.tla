------------------------ MODULE AsyncExecutorProofs -------------------------
(***************************************************************************)
(* Proofs about AsyncExecutor, for any number of operations, executor      *)
(* tasks and calls and for every limit of the queue.                       *)
(***************************************************************************)
EXTENDS AsyncExecutor, SequenceTheorems, TLAPS

(***************************************************************************)
(* The members of an executor task between asyncBegin() and the            *)
(* terminating call.  Every onExecute() that is still to come is posted    *)
(* already, or will be: when the task is executed, when the task of its    *)
(* operation is ready, or when it is stopped.  A call whose operation task *)
(* makes it a new one is counted only when that task is ready.             *)
(***************************************************************************)
Count(b) == IF b THEN 1 ELSE 0

TaskActive(r) == r.opTask \in {"running", "cancelled", "continued"}

CallDue(r) == r.callback # None /\ ~(TaskActive(r) /\ r.newCall)

Counted(r, executing, calling) ==
    /\ r.callsExpected = 1 + Count(CallDue(r))
    /\ r.callsExpected = r.posted + Count(~executing) + Count(~r.stopped)
                            + Count(TaskActive(r) /\ ~r.newCall)
    /\ r.remaining = Count(CallDue(r)) + Count(calling)
    /\ r.opTask # "none" => ~r.stopped /\ r.callback # None /\ executing
    /\ r.cancelPending => r.opTask # "none"
    /\ r.callback # None => ~calling

(***************************************************************************)
(* An executor task that no operation was given, or that consumed its      *)
(* terminating call.                                                       *)
(***************************************************************************)
Quiet(r) == r.posted = 0 /\ r.opTask = "none" /\ r.callback = None

TasksKnown ==
    \A t \in Tasks :
        IF task[t].assigned
        THEN /\ Counted(task[t], t \in workers.executing, exec[t].pc = "call")
             /\ exec[t].pc # "terminate"
        ELSE /\ Quiet(task[t])
             /\ exec[t].pc \notin {"call", "callback"}
             /\ exec[t].pc = "terminate" <=> t \in workers.executing

(***************************************************************************)
(* The lists of m_workers: a task is in one of them, once.                 *)
(***************************************************************************)
Distinct(s) == \A i, j \in DOMAIN s : s[i] = s[j] => i = j

ListsKnown ==
    /\ Distinct(workers.pending) /\ Distinct(workers.ready)
    /\ \A t \in ToSet(workers.pending) : task[t].assigned /\ t \notin workers.executing
    /\ \A t \in ToSet(workers.ready) : ~task[t].assigned /\ t \notin workers.executing
    /\ disposing = "no" => \A t \in Tasks :
          task[t].assigned => t \in workers.executing \/ t \in ToSet(workers.pending)

(***************************************************************************)
(* An operation whose owner may use it has an executor task of its own,    *)
(* which was not told to stop; a task that was not is such an operation's. *)
(***************************************************************************)
Owns(o, t) == op[o] = t /\ owner[o].stage \in {"idle", "waiting"}

Holds(t, c) == task[t].callback = c \/ (exec[t].pc = "call" /\ exec[t].call = c)

OwnersKnown ==
    /\ \A o \in Operations :
          /\ owner[o].stage \in {"none", "cancelled"} => op[o] = None
          /\ owner[o].stage \in {"waiting", "cancelling", "releasing"} => op[o] \in Tasks
          /\ owner[o].stage = "waiting" =>
                /\ owner[o].call \in Calls
                /\ Holds(op[o], owner[o].call)
                /\ call[owner[o].call] = "requested"
          /\ owner[o].stage = "idle" /\ op[o] # None =>
                task[op[o]].callback = None /\ exec[op[o]].pc # "call"
    /\ \A t \in Tasks, o \in Operations :
          Owns(o, t) => task[t].assigned /\ ~task[t].stopped /\ ~task[t].cancelPending
    /\ \A t \in Tasks, o, p \in Operations : Owns(o, t) /\ Owns(p, t) => o = p
    /\ \A t \in Tasks :
          task[t].assigned /\ ~task[t].stopped /\ ~task[t].cancelPending
              => \E o \in Operations : Owns(o, t)

(***************************************************************************)
(* A call that was not answered is held by one executor task, which will   *)
(* execute or abort it; a task that was told to stop holds a cancelled one.*)
(***************************************************************************)
CallsKnown ==
    /\ \A t \in Tasks : exec[t].pc = "call" => exec[t].call \in Calls
    /\ \A t \in Tasks, c \in Calls : Holds(t, c) => call[c] \in {"requested", "cancelled"}
    /\ \A t, u \in Tasks, c \in Calls : Holds(t, c) /\ Holds(u, c) => t = u
    /\ \A c \in Calls : call[c] \in {"requested", "cancelled"} => \E t \in Tasks : Holds(t, c)
    /\ \A t \in Tasks, c \in Calls :
          task[t].callback = c /\ (task[t].stopped \/ task[t].cancelPending)
              => call[c] = "cancelled"
    /\ \A t \in Tasks :
          exec[t].pc = "call" /\ exec[t].stopped => call[exec[t].call] = "cancelled"

(***************************************************************************)
(* dispose() runs when no operation is active, and ends when no task has   *)
(* anything left to do.                                                    *)
(***************************************************************************)
DisposeKnown ==
    /\ disposing # "no" => \A o \in Operations : owner[o].stage \in {"none", "cancelled"}
    /\ disposing = "done" => \A t \in Tasks :
          task[t].posted = 0 /\ exec[t].pc = "free" /\ t \notin workers.executing

IInv ==
    /\ TypeOK /\ TasksKnown /\ ListsKnown /\ OwnersKnown /\ CallsKnown /\ DisposeKnown
    /\ DisposedIsQuiet

-----------------------------------------------------------------------------
(* Lists.                                                                  *)

LEMMA ListEmpty ==
    /\ Distinct(<<>>) /\ ToSet(<<>>) = {} /\ <<>> \in Seq(Tasks)
BY DEF Distinct, ToSet

LEMMA ListTyped ==
    ASSUME NEW s \in Seq(Tasks)
    PROVE  /\ ToSet(s) \subseteq Tasks
           /\ \A t \in Tasks : Contains(s, t) <=> t \in ToSet(s)
BY DEF ToSet, Contains

(***************************************************************************)
(* push_back()                                                             *)
(***************************************************************************)
LEMMA ListAppend ==
    ASSUME NEW s \in Seq(Tasks), Distinct(s), NEW t \in Tasks, t \notin ToSet(s)
    PROVE  /\ Append(s, t) \in Seq(Tasks) /\ Distinct(Append(s, t))
           /\ ToSet(Append(s, t)) = ToSet(s) \cup {t}
<1> DEFINE r == Append(s, t)
<1>1. r \in Seq(Tasks) /\ Len(r) = Len(s) + 1
  OBVIOUS
<1>2. \A i \in 1..Len(r) : r[i] = IF i = Len(s) + 1 THEN t ELSE s[i]
  BY <1>1
<1>3. DOMAIN s = 1..Len(s) /\ DOMAIN r = 1..Len(r) /\ Len(s) \in Nat
  BY <1>1
<1> HIDE DEF r
<1>4. Distinct(r)
  BY <1>1, <1>2, <1>3 DEF Distinct, ToSet
<1>5. ToSet(r) = ToSet(s) \cup {t}
  <2>1. \A i \in DOMAIN s : i \in DOMAIN r /\ r[i] = s[i]
    BY <1>1, <1>2, <1>3
  <2>2. Len(s) + 1 \in DOMAIN r /\ r[Len(s) + 1] = t
    BY <1>1, <1>2, <1>3
  <2>3. \A i \in DOMAIN r : r[i] = t \/ i \in DOMAIN s
    BY <1>1, <1>2, <1>3
  <2> QED BY <2>1, <2>2, <2>3 DEF ToSet
<1> QED BY <1>1, <1>4, <1>5 DEF r

(***************************************************************************)
(* The first task of a list is taken from it.                              *)
(***************************************************************************)
LEMMA ListTail ==
    ASSUME NEW s \in Seq(Tasks), Distinct(s), s # <<>>
    PROVE  /\ Head(s) \in Tasks /\ Head(s) \in ToSet(s)
           /\ Tail(s) \in Seq(Tasks) /\ Distinct(Tail(s))
           /\ ToSet(Tail(s)) = ToSet(s) \ {Head(s)}
<1> DEFINE r == Tail(s)
<1>1. /\ r \in Seq(Tasks) /\ Len(r) = Len(s) - 1 /\ Len(s) \in Nat \ {0}
      /\ Head(s) = s[1] /\ s[1] \in Tasks
  OBVIOUS
<1>2. \A i \in 1..Len(r) : r[i] = s[i + 1]
  BY <1>1
<1>3. DOMAIN s = 1..Len(s) /\ DOMAIN r = 1..Len(r)
  BY <1>1
<1> HIDE DEF r
<1>a. \A i \in DOMAIN r : i + 1 \in DOMAIN s /\ r[i] = s[i + 1]
  BY <1>1, <1>2, <1>3
<1>4. Distinct(r)
  <2> SUFFICES ASSUME NEW i \in DOMAIN r, NEW j \in DOMAIN r, r[i] = r[j] PROVE i = j
    BY DEF Distinct
  <2>1. i + 1 = j + 1
    BY <1>a DEF Distinct
  <2> QED BY <1>1, <1>3, <2>1
<1>5. ToSet(r) = ToSet(s) \ {s[1]}
  <2>1. \A i \in DOMAIN r : i + 1 \in DOMAIN s /\ r[i] = s[i + 1] /\ r[i] # s[1]
    BY <1>1, <1>2, <1>3 DEF Distinct
  <2>2. \A i \in DOMAIN s : s[i] # s[1] => i - 1 \in DOMAIN r /\ r[i - 1] = s[i]
    BY <1>1, <1>2, <1>3
  <2> QED BY <2>1, <2>2 DEF ToSet
<1>6. s[1] \in ToSet(s)
  BY <1>1, <1>3 DEF ToSet
<1> QED BY <1>1, <1>4, <1>5, <1>6 DEF r

LEMMA ListPrepend ==
    ASSUME NEW x \in Seq(Tasks), NEW h \in Tasks
    PROVE  /\ <<h>> \o x \in Seq(Tasks) /\ Len(<<h>> \o x) = Len(x) + 1
           /\ \A i \in 1..(Len(x) + 1) :
                 (<<h>> \o x)[i] = IF i = 1 THEN h ELSE x[i - 1]
OBVIOUS

(***************************************************************************)
(* prioritize()                                                            *)
(***************************************************************************)
LEMMA ListToFront ==
    ASSUME NEW s \in Seq(Tasks), Distinct(s), NEW k \in DOMAIN s
    PROVE  /\ <<s[k]>> \o RemoveAt(s, k) \in Seq(Tasks)
           /\ Distinct(<<s[k]>> \o RemoveAt(s, k))
           /\ ToSet(<<s[k]>> \o RemoveAt(s, k)) = ToSet(s)
<1> DEFINE a == SubSeq(s, 1, k - 1)
           b == SubSeq(s, k + 1, Len(s))
           x == a \o b
           r == <<s[k]>> \o x
<1>1. k \in 1..Len(s) /\ DOMAIN s = 1..Len(s) /\ Len(s) \in Nat
  OBVIOUS
<1>2. /\ a \in Seq(Tasks) /\ Len(a) = k - 1
      /\ \A i \in 1..(k - 1) : a[i] = s[i]
  BY <1>1, SubSeqProperties
<1>3. /\ b \in Seq(Tasks) /\ Len(b) = Len(s) - k
      /\ \A i \in 1..(Len(s) - k) : b[i] = s[k + i]
  BY <1>1, SubSeqProperties
<1> HIDE DEF a, b
<1>4. x \in Seq(Tasks) /\ Len(x) = Len(a) + Len(b)
  BY <1>2, <1>3, ConcatProperties, Zenon
<1>5. Len(x) = Len(s) - 1
  BY <1>1, <1>2, <1>3, <1>4
<1>b. ASSUME NEW i \in 1..Len(x) PROVE x[i] = IF i < k THEN s[i] ELSE s[i + 1]
  <2>1. x[i] = IF i <= Len(a) THEN a[i] ELSE b[i - Len(a)]
    BY <1>2, <1>3, <1>4, ConcatProperties
  <2>2. i \in 1..(Len(s) - 1)
    BY <1>5
  <2>3. CASE i < k
    BY <1>1, <1>2, <2>1, <2>2, <2>3
  <2>4. CASE ~(i < k)
    <3>1. x[i] = b[i - (k - 1)] /\ i - (k - 1) \in 1..(Len(s) - k)
      BY <1>1, <1>2, <2>1, <2>2, <2>4
    <3>2. x[i] = s[k + (i - (k - 1))]
      BY <1>3, <3>1
    <3> QED BY <1>1, <2>2, <2>4, <3>2
  <2> QED BY <2>3, <2>4
<1>c. s[k] \in Tasks
  BY <1>1
<1> HIDE DEF x
<1>e. PICK h \in Tasks : h = s[k]
  BY <1>c
<1>6. r \in Seq(Tasks) /\ Len(r) = Len(s)
  <2>1. <<h>> \o x \in Seq(Tasks) /\ Len(<<h>> \o x) = Len(x) + 1
    BY <1>4, ListPrepend
  <2>2. r = <<h>> \o x
    BY <1>e
  <2>3. Len(x) + 1 = Len(s)
    BY <1>1, <1>5
  <2> HIDE DEF r
  <2> QED BY <2>1, <2>2, <2>3
<1>d. \A i \in 1..Len(r) : r[i] = IF i = 1 THEN s[k] ELSE x[i - 1]
  <2>1. \A i \in 1..(Len(x) + 1) : (<<h>> \o x)[i] = IF i = 1 THEN h ELSE x[i - 1]
    BY <1>4, ListPrepend
  <2>2. Len(x) + 1 = Len(s)
    BY <1>1, <1>5
  <2> QED BY <1>6, <1>e, <2>1, <2>2
<1> HIDE DEF r
<1>7. \A i \in 1..Len(s) : r[i] = IF i = 1 THEN s[k] ELSE IF i <= k THEN s[i - 1] ELSE s[i]
  BY <1>1, <1>5, <1>6, <1>b, <1>d
<1>8. DOMAIN r = DOMAIN s
  BY <1>1, <1>6
<1>9. Distinct(r)
  <2> SUFFICES ASSUME NEW i \in DOMAIN r, NEW j \in DOMAIN r, r[i] = r[j] PROVE i = j
    BY DEF Distinct
  <2> DEFINE at(n) == IF n = 1 THEN k ELSE IF n <= k THEN n - 1 ELSE n
  <2>1. /\ at(i) \in DOMAIN s /\ at(j) \in DOMAIN s
        /\ r[i] = s[at(i)] /\ r[j] = s[at(j)]
    BY <1>1, <1>7, <1>8
  <2>2. at(i) = at(j)
    BY <2>1 DEF Distinct
  <2> QED BY <1>1, <1>8, <2>2
<1>10. ToSet(r) = ToSet(s)
  <2>1. \A i \in DOMAIN r : \E j \in DOMAIN s : r[i] = s[j]
    BY <1>1, <1>7, <1>8
  <2>2. \A i \in DOMAIN s : i < k => i + 1 \in DOMAIN r /\ r[i + 1] = s[i]
    BY <1>1, <1>7, <1>8
  <2>3. \A i \in DOMAIN s : i > k => i \in DOMAIN r /\ r[i] = s[i]
    BY <1>1, <1>7, <1>8
  <2>4. 1 \in DOMAIN r /\ r[1] = s[k]
    BY <1>1, <1>7, <1>8
  <2>5. \A i \in DOMAIN s : i < k \/ i > k \/ i = k
    BY <1>1
  <2>6. \A i \in DOMAIN s : \E j \in DOMAIN r : r[j] = s[i]
    BY <2>2, <2>3, <2>4, <2>5
  <2> QED BY <2>1, <2>6 DEF ToSet
<1> QED BY <1>6, <1>9, <1>10 DEF r, x, a, b, RemoveAt

-----------------------------------------------------------------------------
(* The members of an executor task.                                        *)

TaskType ==
    [assigned: BOOLEAN, callsExpected: Nat, remaining: Nat,
     stopped: BOOLEAN, cancelPending: BOOLEAN,
     callback: Calls \cup {None}, posted: Nat,
     opTask: {"none", "running", "cancelled", "continued", "done"}, newCall: BOOLEAN]

(***************************************************************************)
(* Two states of a task that stand for the same assignment to an operation *)
(* and the same call.                                                      *)
(***************************************************************************)
SameCall(r, s) ==
    /\ s.assigned = r.assigned /\ s.callback = r.callback
    /\ s.stopped = r.stopped /\ s.cancelPending = r.cancelPending

LEMMA ScheduleAsyncCallRecord ==
    ASSUME NEW r \in TaskType, NEW b \in BOOLEAN
    PROVE  /\ ScheduleAsyncCall(r, b) \in TaskType
           /\ SameCall(r, ScheduleAsyncCall(r, b))
           /\ ScheduleAsyncCall(r, b).posted = r.posted + 1
           /\ ScheduleAsyncCall(r, b).callsExpected = r.callsExpected + Count(b)
           /\ ScheduleAsyncCall(r, b).remaining = r.remaining + Count(b)
           /\ ScheduleAsyncCall(r, b).opTask = r.opTask
           /\ ScheduleAsyncCall(r, b).newCall = r.newCall
<1> DEFINE p == r.posted + 1
           n == IF b THEN r.callsExpected + 1 ELSE r.callsExpected
           m == IF b THEN r.remaining + 1 ELSE r.remaining
<1>1. p \in Nat /\ n \in Nat /\ m \in Nat
  BY DEF TaskType
<1>2. n = r.callsExpected + Count(b) /\ m = r.remaining + Count(b)
  BY DEF TaskType, Count
<1>3. ScheduleAsyncCall(r, b) = [r EXCEPT !.posted = p, !.callsExpected = n, !.remaining = m]
  BY DEF ScheduleAsyncCall
<1> HIDE DEF n, m
<1> QED BY <1>1, <1>2, <1>3 DEF TaskType, SameCall

(***************************************************************************)
(* scheduleCall(): onExecute() is posted now, or when the task of the      *)
(* operation is ready.                                                     *)
(***************************************************************************)
LEMMA ScheduleCallRecord ==
    ASSUME NEW r \in TaskType, NEW new \in BOOLEAN, NEW kind \in Kinds
    PROVE  /\ ScheduleCall(r, new, kind) \in TaskType
           /\ SameCall(r, ScheduleCall(r, new, kind))
           /\ \/ /\ ScheduleCall(r, new, kind).posted = r.posted + 1
                 /\ ScheduleCall(r, new, kind).callsExpected = r.callsExpected + Count(new)
                 /\ ScheduleCall(r, new, kind).remaining = r.remaining + Count(new)
                 /\ \/ ScheduleCall(r, new, kind).opTask = r.opTask
                    \/ ~r.stopped /\ ScheduleCall(r, new, kind).opTask = "done"
                 /\ ScheduleCall(r, new, kind).newCall = r.newCall
              \/ /\ ~r.stopped
                 /\ ScheduleCall(r, new, kind).posted = r.posted
                 /\ ScheduleCall(r, new, kind).callsExpected = r.callsExpected
                 /\ ScheduleCall(r, new, kind).remaining = r.remaining
                 /\ ScheduleCall(r, new, kind).opTask = "running"
                 /\ ScheduleCall(r, new, kind).newCall = new
<1> DEFINE s == ScheduleCall(r, new, kind)
<1>1. CASE r.stopped \/ kind = "execute"
  <2>1. s = ScheduleAsyncCall(r, new)
    BY <1>1 DEF ScheduleCall
  <2> QED BY <2>1, ScheduleAsyncCallRecord
<1>2. CASE ~(r.stopped \/ kind = "execute") /\ kind = "throws"
  <2> DEFINE d == [r EXCEPT !.opTask = "done"]
  <2>1. s = ScheduleAsyncCall(d, new)
    BY <1>2 DEF ScheduleCall
  <2>2. /\ d \in TaskType /\ SameCall(r, d) /\ d.posted = r.posted
        /\ d.callsExpected = r.callsExpected /\ d.remaining = r.remaining
        /\ d.opTask = "done" /\ d.newCall = r.newCall
    BY DEF TaskType, SameCall
  <2> HIDE DEF d
  <2>3. SameCall(d, ScheduleAsyncCall(d, new)) => SameCall(r, ScheduleAsyncCall(d, new))
    BY <2>2 DEF SameCall
  <2> QED BY <1>2, <2>1, <2>2, <2>3, ScheduleAsyncCallRecord
<1>3. CASE ~(r.stopped \/ kind = "execute") /\ kind # "throws"
  <2>1. s = [r EXCEPT !.opTask = "running", !.newCall = new]
    BY <1>3 DEF ScheduleCall
  <2> QED BY <1>3, <2>1 DEF TaskType, SameCall
<1> QED BY <1>1, <1>2, <1>3

(***************************************************************************)
(* When a task is executed, the onExecute() of its first call is on its    *)
(* way.                                                                    *)
(***************************************************************************)
LEMMA ExecuteCounts ==
    ASSUME NEW r \in TaskType, NEW calling \in BOOLEAN, NEW kind \in Kinds,
           Counted(r, FALSE, calling)
    PROVE  Counted(ScheduleCall(r, FALSE, kind), TRUE, calling)
<1> DEFINE s == ScheduleCall(r, FALSE, kind)
<1>1. /\ s \in TaskType /\ SameCall(r, s)
      /\ \/ /\ s.posted = r.posted + 1
            /\ s.callsExpected = r.callsExpected + Count(FALSE)
            /\ s.remaining = r.remaining + Count(FALSE)
            /\ s.opTask = r.opTask \/ (~r.stopped /\ s.opTask = "done")
            /\ s.newCall = r.newCall
         \/ /\ ~r.stopped
            /\ s.posted = r.posted
            /\ s.callsExpected = r.callsExpected
            /\ s.remaining = r.remaining
            /\ s.opTask = "running"
            /\ s.newCall = FALSE
  BY ScheduleCallRecord
<1> HIDE DEF s
<1>2. /\ r.callsExpected \in Nat /\ r.remaining \in Nat /\ r.posted \in Nat
      /\ r.stopped \in BOOLEAN /\ r.newCall \in BOOLEAN
  BY DEF TaskType
<1>3. r.opTask = "none" /\ ~r.cancelPending /\ (r.callback # None => ~calling)
  BY DEF Counted
<1>4. /\ s.callback = r.callback /\ (s.stopped <=> r.stopped)
      /\ (s.cancelPending <=> r.cancelPending)
  BY <1>1 DEF SameCall
<1>5. /\ r.callsExpected = 1 + (IF r.callback # None THEN 1 ELSE 0)
      /\ r.callsExpected = r.posted + 1 + (IF ~r.stopped THEN 1 ELSE 0)
      /\ r.remaining = (IF r.callback # None THEN 1 ELSE 0) + (IF calling THEN 1 ELSE 0)
  BY <1>2, <1>3 DEF Counted, CallDue, TaskActive, Count
<1>6. ~r.stopped => r.callback # None
  BY <1>2, <1>5
<1>7. Counted(s, TRUE, calling)
  BY <1>1, <1>2, <1>3, <1>4, <1>5, <1>6 DEF Counted, CallDue, TaskActive, Count
<1> QED BY <1>7 DEF s

(***************************************************************************)
(* A new task waits for its place with both of its calls expected.         *)
(***************************************************************************)
LEMMA NewTaskCounts ==
    ASSUME NEW c \in Calls
    PROVE  /\ [ResetTask EXCEPT !.assigned = TRUE, !.callback = c] \in TaskType
           /\ [ResetTask EXCEPT !.assigned = TRUE, !.callback = c].assigned
           /\ [ResetTask EXCEPT !.assigned = TRUE, !.callback = c].callback = c
           /\ ~[ResetTask EXCEPT !.assigned = TRUE, !.callback = c].stopped
           /\ ~[ResetTask EXCEPT !.assigned = TRUE, !.callback = c].cancelPending
           /\ Counted([ResetTask EXCEPT !.assigned = TRUE, !.callback = c], FALSE, FALSE)
<1> DEFINE r == [ResetTask EXCEPT !.assigned = TRUE, !.callback = c]
<1>1. /\ ResetTask \in TaskType /\ ResetTask.callsExpected = 2
      /\ ResetTask.remaining = 1 /\ ResetTask.stopped = FALSE
      /\ ResetTask.cancelPending = FALSE /\ ResetTask.posted = 0
      /\ ResetTask.opTask = "none" /\ ResetTask.newCall = FALSE
  BY DEF ResetTask, TaskType
<1>2. c # None
  BY ConstantsAssumption
<1>3. /\ r \in TaskType /\ r.callsExpected = 2
      /\ r.remaining = 1 /\ r.stopped = FALSE
      /\ r.cancelPending = FALSE /\ r.posted = 0
      /\ r.opTask = "none" /\ r.newCall = FALSE
      /\ r.assigned /\ r.callback = c
  BY <1>1 DEF TaskType
<1> HIDE DEF r
<1>4. Counted(r, FALSE, FALSE)
  BY <1>2, <1>3 DEF Counted, CallDue, TaskActive, Count
<1> QED BY <1>3, <1>4 DEF r

(***************************************************************************)
(* A task that has nothing left to call back takes another call.           *)
(***************************************************************************)
AgainCalled(r, c, kind) == ScheduleCall([r EXCEPT !.callback = c], TRUE, kind)

LEMMA CallAgainRecord ==
    ASSUME NEW r \in TaskType, NEW c \in Calls, NEW kind \in Kinds
    PROVE  /\ AgainCalled(r, c, kind) \in TaskType
           /\ AgainCalled(r, c, kind).callback = c
           /\ AgainCalled(r, c, kind).assigned = r.assigned
           /\ AgainCalled(r, c, kind).stopped = r.stopped
           /\ AgainCalled(r, c, kind).cancelPending = r.cancelPending
<1> DEFINE q == [r EXCEPT !.callback = c]
           s == ScheduleCall(q, TRUE, kind)
<1>1. /\ q \in TaskType /\ q.callback = c /\ q.assigned = r.assigned
      /\ q.stopped = r.stopped /\ q.cancelPending = r.cancelPending
  BY DEF TaskType
<1> HIDE DEF q
<1>2. s \in TaskType /\ SameCall(q, s)
  BY <1>1, ScheduleCallRecord
<1> HIDE DEF s
<1>3. /\ s.callback = c /\ s.stopped = r.stopped /\ s.cancelPending = r.cancelPending
      /\ s.assigned = r.assigned
  BY <1>1, <1>2 DEF SameCall
<1> QED BY <1>2, <1>3 DEF AgainCalled, s, q

LEMMA CallAgainCounts ==
    ASSUME NEW r \in TaskType, NEW executing \in BOOLEAN, NEW c \in Calls,
           NEW kind \in Kinds,
           Counted(r, executing, FALSE), r.callback = None, ~r.stopped, r.remaining = 0
    PROVE  Counted(AgainCalled(r, c, kind), executing, FALSE)
<1> DEFINE q == [r EXCEPT !.callback = c]
           s == ScheduleCall(q, TRUE, kind)
<1>1. /\ q \in TaskType /\ q.callback = c
      /\ q.stopped = r.stopped /\ q.cancelPending = r.cancelPending
      /\ q.posted = r.posted /\ q.callsExpected = r.callsExpected
      /\ q.remaining = r.remaining /\ q.opTask = r.opTask /\ q.newCall = r.newCall
  BY DEF TaskType
<1> HIDE DEF q
<1>2. /\ s \in TaskType /\ SameCall(q, s)
      /\ \/ /\ s.posted = q.posted + 1
            /\ s.callsExpected = q.callsExpected + Count(TRUE)
            /\ s.remaining = q.remaining + Count(TRUE)
            /\ s.opTask = q.opTask \/ (~q.stopped /\ s.opTask = "done")
            /\ s.newCall = q.newCall
         \/ /\ ~q.stopped
            /\ s.posted = q.posted
            /\ s.callsExpected = q.callsExpected
            /\ s.remaining = q.remaining
            /\ s.opTask = "running"
            /\ s.newCall = TRUE
  BY <1>1, ScheduleCallRecord
<1> HIDE DEF s
<1>3. c # None
  BY ConstantsAssumption
<1>4. r.callsExpected \in Nat /\ r.remaining \in Nat /\ r.posted \in Nat
  BY DEF TaskType
<1>5. r.opTask = "none" /\ ~r.cancelPending
  BY DEF Counted
<1>6. r.callsExpected = 1 /\ r.posted = 0 /\ executing
  BY <1>4, <1>5 DEF Counted, CallDue, TaskActive, Count
<1>7. s.callback = c /\ s.stopped = r.stopped /\ s.cancelPending = r.cancelPending
  BY <1>1, <1>2 DEF SameCall
<1>8. Counted(s, executing, FALSE)
  BY <1>1, <1>2, <1>3, <1>4, <1>5, <1>6, <1>7 DEF Counted, CallDue, TaskActive, Count
<1> QED BY <1>8 DEF AgainCalled, s, q

(***************************************************************************)
(* requestCancel() sees to it that the terminating call is posted, once.   *)
(***************************************************************************)
LEMMA RequestCancelCounts ==
    ASSUME NEW r \in TaskType, NEW executing \in BOOLEAN, NEW calling \in BOOLEAN,
           Counted(r, executing, calling)
    PROVE  /\ RequestCancel(r) \in TaskType
           /\ RequestCancel(r).callback = r.callback
           /\ RequestCancel(r).assigned = r.assigned
           /\ RequestCancel(r).stopped \/ RequestCancel(r).cancelPending
           /\ Counted(RequestCancel(r), executing, calling)
<1>0. /\ r.callsExpected \in Nat /\ r.remaining \in Nat /\ r.posted \in Nat
      /\ r.stopped \in BOOLEAN /\ r.cancelPending \in BOOLEAN
  BY DEF TaskType
<1>1. CASE r.stopped
  BY <1>1 DEF RequestCancel
<1>2. CASE ~r.stopped /\ r.opTask # "none"
  <2> DEFINE s == [r EXCEPT !.cancelPending = TRUE]
  <2>1. RequestCancel(r) = s
    BY <1>2 DEF RequestCancel
  <2>2. /\ s \in TaskType /\ s.callback = r.callback /\ s.assigned = r.assigned
        /\ s.cancelPending /\ s.stopped = r.stopped /\ s.posted = r.posted
        /\ s.callsExpected = r.callsExpected /\ s.remaining = r.remaining
        /\ s.opTask = r.opTask /\ s.newCall = r.newCall
    BY DEF TaskType
  <2> HIDE DEF s
  <2>3. Counted(s, executing, calling)
    BY <1>2, <2>2 DEF Counted, CallDue, TaskActive
  <2> QED BY <2>1, <2>2, <2>3
<1>3. CASE ~r.stopped /\ r.opTask = "none"
  <2> DEFINE q == [r EXCEPT !.stopped = TRUE]
             s == ScheduleAsyncCall(q, FALSE)
  <2>1. RequestCancel(r) = s
    BY <1>3 DEF RequestCancel
  <2>2. /\ q \in TaskType /\ q.callback = r.callback /\ q.assigned = r.assigned
        /\ q.cancelPending = r.cancelPending /\ q.stopped /\ q.posted = r.posted
        /\ q.callsExpected = r.callsExpected /\ q.remaining = r.remaining
        /\ q.opTask = r.opTask /\ q.newCall = r.newCall
    BY DEF TaskType
  <2> HIDE DEF q
  <2>3. /\ s \in TaskType /\ SameCall(q, s)
        /\ s.posted = q.posted + 1
        /\ s.callsExpected = q.callsExpected + Count(FALSE)
        /\ s.remaining = q.remaining + Count(FALSE)
        /\ s.opTask = q.opTask /\ s.newCall = q.newCall
    BY <2>2, ScheduleAsyncCallRecord
  <2> HIDE DEF s
  <2>4. /\ s.callback = r.callback /\ s.assigned = r.assigned /\ s.stopped
        /\ s.cancelPending = r.cancelPending
    BY <2>2, <2>3 DEF SameCall
  <2>5. Counted(s, executing, calling)
    BY <1>0, <1>3, <2>2, <2>3, <2>4 DEF Counted, CallDue, TaskActive, Count
  <2> QED BY <2>1, <2>3, <2>4, <2>5
<1> QED BY <1>0, <1>1, <1>2, <1>3

(***************************************************************************)
(* onOperationTaskReady()                                                  *)
(***************************************************************************)
LEMMA TaskReadyCounts ==
    ASSUME NEW r \in TaskType, NEW executing \in BOOLEAN, NEW calling \in BOOLEAN,
           Counted(r, executing, calling), TaskActive(r)
    PROVE  /\ ScheduleAsyncCall([r EXCEPT !.opTask = "done"], r.newCall) \in TaskType
           /\ SameCall(r, ScheduleAsyncCall([r EXCEPT !.opTask = "done"], r.newCall))
           /\ Counted(ScheduleAsyncCall([r EXCEPT !.opTask = "done"], r.newCall),
                      executing, calling)
<1> DEFINE q == [r EXCEPT !.opTask = "done"]
           s == ScheduleAsyncCall(q, r.newCall)
<1>1. /\ q \in TaskType /\ SameCall(r, q) /\ q.posted = r.posted
      /\ q.callsExpected = r.callsExpected /\ q.remaining = r.remaining
      /\ q.opTask = "done" /\ q.newCall = r.newCall
      /\ r.newCall \in BOOLEAN
  BY DEF TaskType, SameCall
<1> HIDE DEF q
<1>2. /\ s \in TaskType /\ SameCall(q, s)
      /\ s.posted = q.posted + 1
      /\ s.callsExpected = q.callsExpected + Count(r.newCall)
      /\ s.remaining = q.remaining + Count(r.newCall)
      /\ s.opTask = q.opTask /\ s.newCall = q.newCall
  BY <1>1, ScheduleAsyncCallRecord
<1> HIDE DEF s
<1>3. SameCall(r, s)
  BY <1>1, <1>2 DEF SameCall
<1>4. /\ s.callback = r.callback /\ s.stopped = r.stopped
      /\ s.cancelPending = r.cancelPending /\ s.opTask = "done"
  BY <1>1, <1>2, <1>3 DEF SameCall
<1>5. /\ r.callsExpected \in Nat /\ r.remaining \in Nat /\ r.posted \in Nat
      /\ r.newCall \in BOOLEAN /\ r.stopped \in BOOLEAN
  BY DEF TaskType
<1>6. r.callback # None /\ ~r.stopped /\ executing /\ ~calling
  BY DEF Counted, TaskActive
<1>7. Counted(s, executing, calling)
  BY <1>1, <1>2, <1>4, <1>5, <1>6 DEF Counted, CallDue, TaskActive, Count
<1> QED BY <1>2, <1>3, <1>7 DEF s, q

(***************************************************************************)
(* onExecute() consumes what was posted and one of the expected calls.     *)
(***************************************************************************)
Consumed(r, q) ==
    /\ SameCall(r, q)
    /\ q.posted = r.posted - 1 /\ q.callsExpected = r.callsExpected - 1
    /\ q.remaining = r.remaining /\ q.opTask = r.opTask /\ q.newCall = r.newCall

LEMMA ExecuteRecord ==
    ASSUME NEW r \in TaskType, r.posted > 0, r.callsExpected > 0
    PROVE  /\ [r EXCEPT !.posted = @ - 1, !.callsExpected = @ - 1] \in TaskType
           /\ Consumed(r, [r EXCEPT !.posted = @ - 1, !.callsExpected = @ - 1])
<1> DEFINE p == r.posted - 1
           n == r.callsExpected - 1
           q == [r EXCEPT !.posted = @ - 1, !.callsExpected = @ - 1]
<1>1. p \in Nat /\ n \in Nat
  BY DEF TaskType
<1>2. q = [r EXCEPT !.posted = p, !.callsExpected = n]
  BY Zenon
<1>3. p = r.posted - 1 /\ n = r.callsExpected - 1
  OBVIOUS
<1> HIDE DEF p, n, q
<1>4. /\ q \in TaskType /\ q.posted = p /\ q.callsExpected = n
      /\ q.remaining = r.remaining /\ q.opTask = r.opTask /\ q.newCall = r.newCall
      /\ SameCall(r, q)
  BY <1>1, <1>2 DEF TaskType, SameCall
<1>5. q \in TaskType /\ Consumed(r, q)
  BY <1>3, <1>4 DEF Consumed
<1> QED BY <1>5 DEF q

(***************************************************************************)
(* onExecute() for a call: the callback is captured and will be called.    *)
(***************************************************************************)
LEMMA CaptureCounts ==
    ASSUME NEW r \in TaskType, NEW executing \in BOOLEAN, NEW q \in TaskType,
           Consumed(r, q),
           Counted(r, executing, FALSE), r.posted > 0, q.callsExpected > 0
    PROVE  /\ Captured(q) \in TaskType
           /\ q.callback = r.callback /\ r.callback \in Calls
           /\ q.stopped = r.stopped
           /\ Captured(q).callback = None /\ Captured(q).assigned = r.assigned
           /\ (Captured(q).stopped <=> r.stopped \/ r.cancelPending)
           /\ ~Captured(q).cancelPending
           /\ Counted(Captured(q), executing, TRUE)
<1>0. /\ r.callsExpected \in Nat /\ r.remaining \in Nat /\ r.posted \in Nat
      /\ r.newCall \in BOOLEAN /\ r.stopped \in BOOLEAN /\ r.cancelPending \in BOOLEAN
      /\ r.callback \in Calls \cup {None}
  BY DEF TaskType
<1>1. /\ q.callback = r.callback /\ q.assigned = r.assigned /\ q.stopped = r.stopped
      /\ q.cancelPending = r.cancelPending
      /\ q.posted = r.posted - 1 /\ q.callsExpected = r.callsExpected - 1
      /\ q.remaining = r.remaining
  BY DEF Consumed, SameCall
<1>2. r.callback # None /\ ~TaskActive(r) /\ r.callsExpected = 2 /\ r.remaining = 1
  BY <1>0, <1>1 DEF Counted, CallDue, TaskActive, Count
<1>a. 2 = r.posted + Count(~executing) + Count(~r.stopped)
  BY <1>0, <1>2 DEF Counted, Count
<1> DEFINE c == [q EXCEPT !.callback = None, !.opTask = "none"]
<1>3. /\ c \in TaskType /\ c.callback = None /\ c.assigned = q.assigned
      /\ c.stopped = q.stopped /\ c.cancelPending = q.cancelPending
      /\ c.posted = q.posted /\ c.callsExpected = q.callsExpected
      /\ c.remaining = q.remaining /\ c.opTask = "none"
  BY DEF TaskType
<1>4. CASE r.cancelPending
  <2> DEFINE d == [c EXCEPT !.cancelPending = FALSE, !.stopped = TRUE]
             s == ScheduleAsyncCall(d, FALSE)
  <2>1. Captured(q) = s
    BY <1>1, <1>4 DEF Captured
  <2> HIDE DEF c
  <2>2. /\ d \in TaskType /\ d.callback = None /\ d.assigned = c.assigned
        /\ d.stopped /\ ~d.cancelPending
        /\ d.posted = c.posted /\ d.callsExpected = c.callsExpected
        /\ d.remaining = c.remaining /\ d.opTask = "none"
    BY <1>3 DEF TaskType
  <2> HIDE DEF d
  <2>3. /\ s \in TaskType /\ SameCall(d, s)
        /\ s.posted = d.posted + 1
        /\ s.callsExpected = d.callsExpected + Count(FALSE)
        /\ s.remaining = d.remaining + Count(FALSE)
        /\ s.opTask = d.opTask
    BY <2>2, ScheduleAsyncCallRecord
  <2> HIDE DEF s
  <2>4. s.callback = None /\ s.assigned = r.assigned /\ s.stopped /\ ~s.cancelPending
    BY <1>1, <1>3, <2>2, <2>3 DEF SameCall
  <2>5. ~r.stopped
    BY <1>4 DEF Counted
  <2>6. s.stopped \in BOOLEAN
    BY <2>3 DEF TaskType
  <2>7. s.posted = r.posted /\ s.callsExpected = 1 /\ s.remaining = 1 /\ s.opTask = "none"
    BY <1>0, <1>1, <1>2, <1>3, <2>2, <2>3 DEF Count
  <2>8. Counted(s, executing, TRUE)
    BY <1>0, <1>a, <2>4, <2>5, <2>7 DEF Counted, CallDue, TaskActive, Count
  <2>9. (s.stopped <=> r.stopped \/ r.cancelPending)
    BY <1>4, <2>4, <2>6
  <2> QED BY <1>0, <1>1, <1>2, <2>1, <2>3, <2>4, <2>8, <2>9
<1>5. CASE ~r.cancelPending
  <2>1. Captured(q) = c
    BY <1>1, <1>5 DEF Captured
  <2> HIDE DEF c
  <2>2. c.posted = r.posted - 1 /\ c.callsExpected = 1 /\ c.remaining = 1
    BY <1>1, <1>2, <1>3
  <2>3. Counted(c, executing, TRUE)
    BY <1>0, <1>1, <1>3, <1>5, <1>a, <2>2 DEF Counted, CallDue, TaskActive, Count
  <2>4. (c.stopped <=> r.stopped \/ r.cancelPending)
    BY <1>0, <1>1, <1>3, <1>5
  <2> QED BY <1>0, <1>1, <1>2, <1>3, <1>5, <2>1, <2>3, <2>4
<1> QED BY <1>0, <1>4, <1>5

-----------------------------------------------------------------------------
(* The types, and what steps have in common.                               *)

OwnerType ==
    [stage: {"none", "idle", "waiting", "cancelled", "cancelling", "releasing"},
     call: Calls \cup {None}, tail: {"none", "cancelTask", "prioritize"}]

ExecType ==
    [pc: {"free", "call", "callback", "terminate", "leave"},
     call: Calls \cup {None}, stopped: BOOLEAN]

WorkersType == [pending: Seq(Tasks), executing: SUBSET Tasks, ready: Seq(Tasks)]

CallType == {"none", "requested", "cancelled", "executed", "aborted"}

LEMMA Typed ==
    TypeOK <=> /\ owner \in [Operations -> OwnerType]
               /\ op \in [Operations -> Tasks \cup {None}]
               /\ task \in [Tasks -> TaskType]
               /\ exec \in [Tasks -> ExecType]
               /\ workers \in WorkersType
               /\ call \in [Calls -> CallType]
               /\ disposing \in {"no", "flushing", "done"}
BY DEF TypeOK, OwnerType, TaskType, ExecType, WorkersType, CallType

LEMMA TypedNext ==
    TypeOK' <=> /\ owner' \in [Operations -> OwnerType]
                /\ op' \in [Operations -> Tasks \cup {None}]
                /\ task' \in [Tasks -> TaskType]
                /\ exec' \in [Tasks -> ExecType]
                /\ workers' \in WorkersType
                /\ call' \in [Calls -> CallType]
                /\ disposing' \in {"no", "flushing", "done"}
BY DEF TypeOK, OwnerType, TaskType, ExecType, WorkersType, CallType

LEMMA WorkersTyped ==
    ASSUME IInv
    PROVE  /\ workers.pending \in Seq(Tasks) /\ workers.ready \in Seq(Tasks)
           /\ workers.executing \subseteq Tasks
           /\ Distinct(workers.pending) /\ Distinct(workers.ready)
BY Typed DEF IInv, ListsKnown, WorkersType

(***************************************************************************)
(* Nothing is left to do once dispose() has returned.                      *)
(***************************************************************************)
LEMMA NothingAfterDispose ==
    ASSUME IInv, disposing = "done", NEW t \in Tasks
    PROVE  /\ task[t].posted = 0 /\ exec[t].pc = "free" /\ task[t].opTask = "none"
           /\ t \notin workers.executing
<1>1. task[t].posted = 0 /\ exec[t].pc = "free" /\ t \notin workers.executing
  BY DEF IInv, DisposeKnown
<1>2. task[t].opTask = "none"
  <2>1. CASE task[t].assigned
    BY <1>1, <2>1 DEF IInv, TasksKnown, Counted
  <2>2. CASE ~task[t].assigned
    BY <1>1, <2>2 DEF IInv, TasksKnown, Quiet
  <2> QED BY <2>1, <2>2
<1> QED BY <1>1, <1>2

(***************************************************************************)
(* While an owner is doing something the executor is not disposed of.      *)
(***************************************************************************)
LEMMA NotDisposing ==
    ASSUME IInv, NEW o \in Operations, owner[o].stage \notin {"none", "cancelled"}
    PROVE  disposing = "no"
BY DEF IInv, DisposeKnown

(***************************************************************************)
(* Steps in which no owner acts, no call is captured or answered and no    *)
(* task is assigned or stopped.                                            *)
(***************************************************************************)
LEMMA CallsKept ==
    ASSUME IInv, owner' = owner, op' = op, call' = call,
           \A t \in Tasks : SameCall(task[t], task'[t]),
           \A t \in Tasks : exec'[t].pc = "call" <=> exec[t].pc = "call",
           \A t \in Tasks : exec[t].pc = "call" => exec'[t] = exec[t]
    PROVE  OwnersKnown' /\ CallsKnown'
<1>1. \A t \in Tasks : \A c : Holds(t, c)' <=> Holds(t, c)
  BY DEF Holds, SameCall
<1>2. \A t, o : Owns(o, t)' <=> Owns(o, t)
  BY DEF Owns
<1>3. OwnersKnown'
  <2>1. \A o \in Operations :
          /\ owner[o].stage \in {"none", "cancelled"} => op[o] = None
          /\ owner[o].stage \in {"waiting", "cancelling", "releasing"} => op[o] \in Tasks
          /\ owner[o].stage = "waiting" =>
                /\ owner[o].call \in Calls
                /\ Holds(op[o], owner[o].call)
                /\ call[owner[o].call] = "requested"
          /\ owner[o].stage = "idle" /\ op[o] # None =>
                task[op[o]].callback = None /\ exec[op[o]].pc # "call"
    BY DEF IInv, OwnersKnown
  <2>2. \A o \in Operations : op[o] \in Tasks \cup {None}
    BY Typed DEF IInv
  <2>3. \A o \in Operations :
          /\ owner'[o].stage \in {"none", "cancelled"} => op'[o] = None
          /\ owner'[o].stage \in {"waiting", "cancelling", "releasing"} => op'[o] \in Tasks
          /\ owner'[o].stage = "waiting" =>
                /\ owner'[o].call \in Calls
                /\ Holds(op[o], owner[o].call)'
                /\ call'[owner'[o].call] = "requested"
          /\ owner'[o].stage = "idle" /\ op'[o] # None =>
                task'[op'[o]].callback = None /\ exec'[op'[o]].pc # "call"
    <3> SUFFICES ASSUME NEW o \in Operations
                 PROVE  /\ owner[o].stage = "waiting" => Holds(op[o], owner[o].call)'
                        /\ owner[o].stage = "idle" /\ op[o] # None =>
                              task'[op[o]].callback = None /\ exec'[op[o]].pc # "call"
      BY <2>1
    <3>1. owner[o].stage = "waiting" => Holds(op[o], owner[o].call)'
      <4>1. SUFFICES ASSUME owner[o].stage = "waiting" PROVE Holds(op[o], owner[o].call)'
        OBVIOUS
      <4>2. op[o] \in Tasks /\ Holds(op[o], owner[o].call)
        BY <2>1, <4>1
      <4> QED BY <4>2 DEF Holds, SameCall
    <3> QED BY <2>1, <2>2, <3>1 DEF SameCall
  <2>4. /\ \A t \in Tasks, o \in Operations :
             Owns(o, t)' => task'[t].assigned /\ ~task'[t].stopped /\ ~task'[t].cancelPending
        /\ \A t \in Tasks, o, p \in Operations : Owns(o, t)' /\ Owns(p, t)' => o = p
        /\ \A t \in Tasks :
             task'[t].assigned /\ ~task'[t].stopped /\ ~task'[t].cancelPending
                 => \E o \in Operations : Owns(o, t)'
    BY <1>2 DEF IInv, OwnersKnown, SameCall
  <2> QED BY <2>3, <2>4 DEF OwnersKnown
<1>4. CallsKnown'
  <2>1. \A t \in Tasks : exec'[t].pc = "call" => exec'[t].call \in Calls
    BY DEF IInv, CallsKnown
  <2>2. /\ \A t \in Tasks, c \in Calls : Holds(t, c)' => call'[c] \in {"requested", "cancelled"}
        /\ \A t, u \in Tasks, c \in Calls : Holds(t, c)' /\ Holds(u, c)' => t = u
        /\ \A c \in Calls :
              call'[c] \in {"requested", "cancelled"} => \E t \in Tasks : Holds(t, c)'
    BY <1>1 DEF IInv, CallsKnown
  <2>3. \A t \in Tasks, c \in Calls :
          task'[t].callback = c /\ (task'[t].stopped \/ task'[t].cancelPending)
              => call'[c] = "cancelled"
    BY DEF IInv, CallsKnown, SameCall
  <2>4. \A t \in Tasks :
          exec'[t].pc = "call" /\ exec'[t].stopped => call'[exec'[t].call] = "cancelled"
    BY DEF IInv, CallsKnown
  <2> QED BY <2>1, <2>2, <2>3, <2>4 DEF CallsKnown
<1> QED BY <1>3, <1>4

(***************************************************************************)
(* Steps of tasks other than the end of dispose() do not happen after it.  *)
(***************************************************************************)
LEMMA DisposeKept ==
    ASSUME IInv, disposing' = disposing, disposing # "done",
           \A o \in Operations : owner[o].stage \in {"none", "cancelled"}
                                    => owner'[o].stage \in {"none", "cancelled"}
    PROVE  DisposeKnown' /\ DisposedIsQuiet'
BY DEF IInv, DisposeKnown, DisposedIsQuiet

(***************************************************************************)
(* One task changes; it stays where it is.                                 *)
(***************************************************************************)
LEMMA TasksKept ==
    ASSUME IInv, NEW t \in Tasks,
           \A u \in Tasks \ {t} : task'[u] = task[u] /\ exec'[u] = exec[u],
           workers' = workers,
           IF task'[t].assigned
           THEN /\ Counted(task'[t], t \in workers.executing, exec'[t].pc = "call")
                /\ exec'[t].pc # "terminate"
           ELSE /\ Quiet(task'[t])
                /\ exec'[t].pc \notin {"call", "callback"}
                /\ exec'[t].pc = "terminate" <=> t \in workers.executing
    PROVE  TasksKnown'
<1> SUFFICES ASSUME NEW u \in Tasks
             PROVE  IF task'[u].assigned
                    THEN /\ Counted(task'[u], u \in workers'.executing, exec'[u].pc = "call")
                         /\ exec'[u].pc # "terminate"
                    ELSE /\ Quiet(task'[u])
                         /\ exec'[u].pc \notin {"call", "callback"}
                         /\ exec'[u].pc = "terminate" <=> u \in workers'.executing
  BY DEF TasksKnown
<1>1. CASE u = t
  BY <1>1
<1>2. CASE u # t
  BY <1>2 DEF IInv, TasksKnown
<1> QED BY <1>1, <1>2

-----------------------------------------------------------------------------
(* Steps of executor tasks.                                                *)

LEMMA OnOperationTaskReadyInvariant ==
    ASSUME IInv, NEW t \in Tasks, OnOperationTaskReady(t) PROVE IInv'
<1> DEFINE s == ScheduleAsyncCall([task[t] EXCEPT !.opTask = "done"], task[t].newCall)
<1>1. /\ task' = [task EXCEPT ![t] = s]
      /\ UNCHANGED <<owner, op, exec, workers, call, disposing>>
      /\ TaskActive(task[t])
  BY DEF OnOperationTaskReady, TaskActive
<1>2. task[t] \in TaskType /\ task \in [Tasks -> TaskType]
  BY Typed DEF IInv
<1>3. task[t].assigned
  BY <1>1 DEF IInv, TasksKnown, Quiet, TaskActive
<1>4. Counted(task[t], t \in workers.executing, exec[t].pc = "call")
      /\ exec[t].pc # "terminate"
  BY <1>3 DEF IInv, TasksKnown
<1>5. /\ s \in TaskType /\ SameCall(task[t], s)
      /\ Counted(s, t \in workers.executing, exec[t].pc = "call")
  <2>1. (t \in workers.executing) \in BOOLEAN /\ (exec[t].pc = "call") \in BOOLEAN
    OBVIOUS
  <2> QED BY <1>1, <1>2, <1>4, <2>1, TaskReadyCounts, Zenon
<1> HIDE DEF s
<1>6. /\ task' \in [Tasks -> TaskType] /\ task'[t] = s
      /\ \A u \in Tasks \ {t} : task'[u] = task[u]
  BY <1>1, <1>2, <1>5
<1>7. TypeOK'
  BY <1>1, <1>6, Typed, TypedNext DEF IInv
<1>8. TasksKnown'
  BY <1>1, <1>3, <1>4, <1>5, <1>6, TasksKept DEF SameCall
<1>9. \A u \in Tasks : SameCall(task[u], task'[u])
  BY <1>5, <1>6 DEF SameCall
<1>10. OwnersKnown' /\ CallsKnown'
  BY <1>1, <1>9, CallsKept
<1>11. ListsKnown'
  BY <1>1, <1>9, WorkersTyped, ListTyped DEF IInv, ListsKnown, SameCall
<1>12. DisposeKnown' /\ DisposedIsQuiet'
  <2>1. disposing # "done"
    BY <1>1, NothingAfterDispose DEF TaskActive
  <2> QED BY <1>1, <2>1, DisposeKept
<1> QED BY <1>7, <1>8, <1>10, <1>11, <1>12 DEF IInv

(***************************************************************************)
(* A continuation of the operation's task takes its place.                 *)
(***************************************************************************)
LEMMA ContinueOperationTaskInvariant ==
    ASSUME IInv, NEW t \in Tasks, ContinueOperationTask(t) PROVE IInv'
<1> DEFINE s == [task[t] EXCEPT !.opTask = "continued"]
<1>1. /\ task' = [task EXCEPT ![t] = s]
      /\ UNCHANGED <<owner, op, exec, workers, call, disposing>>
      /\ TaskActive(task[t])
  BY DEF ContinueOperationTask, TaskActive
<1>2. task[t] \in TaskType /\ task \in [Tasks -> TaskType]
  BY Typed DEF IInv
<1>3. task[t].assigned
  BY <1>1 DEF IInv, TasksKnown, Quiet, TaskActive
<1>4. Counted(task[t], t \in workers.executing, exec[t].pc = "call")
      /\ exec[t].pc # "terminate"
  BY <1>3 DEF IInv, TasksKnown
<1>5. /\ s \in TaskType /\ SameCall(task[t], s)
      /\ Counted(s, t \in workers.executing, exec[t].pc = "call")
  <2>1. /\ s \in TaskType /\ SameCall(task[t], s) /\ s.opTask = "continued"
        /\ s.posted = task[t].posted /\ s.callsExpected = task[t].callsExpected
        /\ s.remaining = task[t].remaining /\ s.newCall = task[t].newCall
    BY <1>2 DEF TaskType, SameCall
  <2> HIDE DEF s
  <2> QED BY <1>1, <1>4, <2>1 DEF Counted, SameCall, CallDue, TaskActive
<1> HIDE DEF s
<1>6. /\ task' \in [Tasks -> TaskType] /\ task'[t] = s
      /\ \A u \in Tasks \ {t} : task'[u] = task[u]
  BY <1>1, <1>2, <1>5
<1>7. TypeOK'
  BY <1>1, <1>6, Typed, TypedNext DEF IInv
<1>8. TasksKnown'
  BY <1>1, <1>3, <1>4, <1>5, <1>6, TasksKept DEF SameCall
<1>9. \A u \in Tasks : SameCall(task[u], task'[u])
  BY <1>5, <1>6 DEF SameCall
<1>10. OwnersKnown' /\ CallsKnown'
  BY <1>1, <1>9, CallsKept
<1>11. ListsKnown'
  BY <1>1, <1>9, WorkersTyped, ListTyped DEF IInv, ListsKnown, SameCall
<1>12. DisposeKnown' /\ DisposedIsQuiet'
  <2>1. disposing # "done"
    BY <1>1, NothingAfterDispose DEF TaskActive
  <2> QED BY <1>1, <2>1, DisposeKept
<1> QED BY <1>7, <1>8, <1>10, <1>11, <1>12 DEF IInv

LEMMA ReturnFromExecuteInvariant ==
    ASSUME IInv, NEW t \in Tasks, ReturnFromExecute(t) PROVE IInv'
<1>1. /\ exec[t].pc \in {"callback", "leave"}
      /\ exec' = [exec EXCEPT ![t] = NoExec]
      /\ UNCHANGED <<owner, op, task, workers, call, disposing>>
  BY DEF ReturnFromExecute
<1>2. NoExec \in ExecType /\ NoExec.pc = "free"
  BY DEF NoExec, ExecType
<1>3. /\ exec' \in [Tasks -> ExecType] /\ exec'[t].pc = "free"
      /\ \A u \in Tasks \ {t} : exec'[u] = exec[u]
  BY <1>1, <1>2, Typed DEF IInv
<1>4. TypeOK'
  BY <1>1, <1>3, Typed, TypedNext DEF IInv
<1>5. TasksKnown'
  <2>1. /\ exec[t].pc # "call" /\ exec'[t].pc # "call"
        /\ exec[t].pc # "terminate" /\ exec'[t].pc # "terminate"
        /\ exec'[t].pc # "callback"
    BY <1>1, <1>3
  <2>2. CASE task[t].assigned
    <3>1. Counted(task[t], t \in workers.executing, FALSE)
      BY <2>1, <2>2 DEF IInv, TasksKnown
    <3>2. (exec'[t].pc = "call") = FALSE
      BY <2>1
    <3>3. Counted(task'[t], t \in workers.executing, exec'[t].pc = "call")
      BY <1>1, <3>1, <3>2
    <3> QED BY <1>1, <1>3, <2>1, <2>2, <3>3, TasksKept
  <2>3. CASE ~task[t].assigned
    <3>1. Quiet(task[t]) /\ t \notin workers.executing
      BY <2>1, <2>3 DEF IInv, TasksKnown
    <3> QED BY <1>1, <1>3, <2>1, <2>3, <3>1, TasksKept
  <2> QED BY <2>2, <2>3
<1>6. OwnersKnown' /\ CallsKnown'
  BY <1>1, <1>3, CallsKept DEF SameCall
<1>7. ListsKnown'
  BY <1>1 DEF IInv, ListsKnown
<1>8. DisposeKnown' /\ DisposedIsQuiet'
  <2>1. disposing # "done"
    BY <1>1, NothingAfterDispose
  <2> QED BY <1>1, <2>1, DisposeKept
<1> QED BY <1>4, <1>5, <1>6, <1>7, <1>8 DEF IInv

(***************************************************************************)
(* onExecute() tells the terminating call from a call of the operation.    *)
(***************************************************************************)
LEMMA OnExecuteInvariant ==
    ASSUME IInv, NEW t \in Tasks, OnExecute(t) PROVE IInv'
<1> DEFINE q == [task[t] EXCEPT !.posted = @ - 1, !.callsExpected = @ - 1]
<1>1. /\ task[t].posted > 0 /\ exec[t].pc = "free"
      /\ UNCHANGED <<owner, op, workers, call, disposing>>
  BY DEF OnExecute
<1>2. /\ task[t] \in TaskType /\ task \in [Tasks -> TaskType] /\ exec \in [Tasks -> ExecType]
      /\ task[t].posted \in Nat /\ task[t].callsExpected \in Nat
      /\ task[t].stopped \in BOOLEAN
  BY Typed DEF IInv, TaskType
<1>3. task[t].assigned
  BY <1>1, <1>2 DEF IInv, TasksKnown, Quiet
<1>4. Counted(task[t], t \in workers.executing, FALSE)
  <2>1. (exec[t].pc = "call") = FALSE
    BY <1>1
  <2>2. Counted(task[t], t \in workers.executing, exec[t].pc = "call")
    BY <1>3 DEF IInv, TasksKnown
  <2> QED BY <2>1, <2>2
<1>5. /\ q \in TaskType /\ q.posted = task[t].posted - 1
      /\ q.callsExpected = task[t].callsExpected - 1
      /\ q.callback = task[t].callback /\ q.opTask = task[t].opTask
      /\ Consumed(task[t], q)
  <2>1. task[t].callsExpected > 0
    BY <1>2, <1>4 DEF Counted, Count
  <2>2. q \in TaskType /\ Consumed(task[t], q)
    BY <1>1, <1>2, <2>1, ExecuteRecord, Zenon
  <2> HIDE DEF q
  <2> QED BY <2>2 DEF Consumed, SameCall
<1>6. disposing # "done"
  BY <1>1, NothingAfterDispose
<1>7. DisposeKnown' /\ DisposedIsQuiet'
  BY <1>1, <1>6, DisposeKept
<1>8. CASE q.callsExpected > 0
  <2> DEFINE s == Captured(q)
             x == [pc |-> "call", call |-> q.callback, stopped |-> q.stopped]
  <2>1. /\ task' = [task EXCEPT ![t] = s]
        /\ exec' = [exec EXCEPT ![t] = x]
    BY <1>8 DEF OnExecute
  <2>2. /\ s \in TaskType /\ q.callback = task[t].callback /\ task[t].callback \in Calls
        /\ q.stopped = task[t].stopped
        /\ s.callback = None /\ s.assigned = task[t].assigned
        /\ (s.stopped <=> task[t].stopped \/ task[t].cancelPending)
        /\ ~s.cancelPending
        /\ Counted(s, t \in workers.executing, TRUE)
    <3> DEFINE e == t \in workers.executing
    <3>1. e \in BOOLEAN
      OBVIOUS
    <3>2. Counted(task[t], e, FALSE)
      BY <1>4
    <3>3. q \in TaskType /\ task[t] \in TaskType /\ q.callsExpected > 0
      BY <1>2, <1>5, <1>8
    <3>4. Consumed(task[t], q) /\ task[t].posted > 0
      BY <1>1, <1>5
    <3> HIDE DEF q, e, s
    <3>5. /\ Captured(q) \in TaskType
          /\ q.callback = task[t].callback /\ task[t].callback \in Calls
          /\ q.stopped = task[t].stopped
          /\ Captured(q).callback = None /\ Captured(q).assigned = task[t].assigned
          /\ (Captured(q).stopped <=> task[t].stopped \/ task[t].cancelPending)
          /\ ~Captured(q).cancelPending
          /\ Counted(Captured(q), e, TRUE)
      BY ONLY <3>1, <3>2, <3>3, <3>4, CaptureCounts
    <3> QED BY <3>5 DEF s, e
  <2> HIDE DEF q, s
  <2>3. x \in ExecType /\ x.pc = "call" /\ x.call = task[t].callback
        /\ x.stopped = task[t].stopped
    BY <1>2, <2>2 DEF ExecType
  <2> HIDE DEF x
  <2>4. /\ task' \in [Tasks -> TaskType] /\ task'[t] = s
        /\ \A u \in Tasks \ {t} : task'[u] = task[u]
        /\ exec' \in [Tasks -> ExecType] /\ exec'[t] = x
        /\ \A u \in Tasks \ {t} : exec'[u] = exec[u]
    BY <1>2, <2>1, <2>2, <2>3
  <2>5. TypeOK'
    BY <1>1, <2>4, Typed, TypedNext DEF IInv
  <2>6. TasksKnown'
    <3>1. (exec'[t].pc = "call") = TRUE
      BY <2>3, <2>4
    <3>2. Counted(task'[t], t \in workers.executing, exec'[t].pc = "call")
      BY <2>2, <2>4, <3>1
    <3> QED BY <1>1, <1>3, <2>2, <2>3, <2>4, <3>2, TasksKept
  <2>7. ListsKnown'
    <3>1. \A u \in Tasks : task'[u].assigned = task[u].assigned
      BY <2>2, <2>4
    <3> QED BY <1>1, <3>1, WorkersTyped, ListTyped DEF IInv, ListsKnown
  <2>8. \A u \in Tasks, c \in Calls : Holds(u, c)' <=> Holds(u, c)
    <3> SUFFICES ASSUME NEW u \in Tasks, NEW c \in Calls PROVE Holds(u, c)' <=> Holds(u, c)
      OBVIOUS
    <3>1. CASE u = t
      BY <1>1, <2>2, <2>3, <2>4, <3>1, ConstantsAssumption DEF Holds
    <3>2. CASE u # t
      BY <2>4, <3>2 DEF Holds
    <3> QED BY <3>1, <3>2
  <2>9. \A u \in Tasks :
          (task'[u].assigned /\ ~task'[u].stopped /\ ~task'[u].cancelPending)
             <=> (task[u].assigned /\ ~task[u].stopped /\ ~task[u].cancelPending)
    BY <2>2, <2>4
  <2>10. \A o \in Operations : ~(owner[o].stage = "idle" /\ op[o] = t)
    <3> SUFFICES ASSUME NEW o \in Operations, owner[o].stage = "idle", op[o] = t
                 PROVE  FALSE
      OBVIOUS
    <3>1. task[t].callback = None
      BY ConstantsAssumption DEF IInv, OwnersKnown
    <3> QED BY <2>2, <3>1, ConstantsAssumption
  <2>11. OwnersKnown'
    <3>1. \A o \in Operations : op[o] \in Tasks \cup {None}
      BY Typed DEF IInv
    <3>2. ASSUME NEW o \in Operations
          PROVE  /\ owner'[o].stage \in {"none", "cancelled"} => op'[o] = None
                 /\ owner'[o].stage \in {"waiting", "cancelling", "releasing"}
                       => op'[o] \in Tasks
                 /\ owner'[o].stage = "waiting" =>
                       /\ owner'[o].call \in Calls
                       /\ Holds(op[o], owner[o].call)'
                       /\ call'[owner'[o].call] = "requested"
                 /\ owner'[o].stage = "idle" /\ op'[o] # None =>
                       task'[op'[o]].callback = None /\ exec'[op'[o]].pc # "call"
      BY <1>1, <2>4, <2>8, <2>10, <3>1 DEF IInv, OwnersKnown
    <3>3. \A u, o : Owns(o, u)' <=> Owns(o, u)
      BY <1>1 DEF Owns
    <3>4. /\ \A u \in Tasks, o \in Operations :
               Owns(o, u)' => task'[u].assigned /\ ~task'[u].stopped /\ ~task'[u].cancelPending
          /\ \A u \in Tasks, o, p \in Operations : Owns(o, u)' /\ Owns(p, u)' => o = p
          /\ \A u \in Tasks :
               task'[u].assigned /\ ~task'[u].stopped /\ ~task'[u].cancelPending
                   => \E o \in Operations : Owns(o, u)'
      BY <2>9, <3>3 DEF IInv, OwnersKnown
    <3> QED BY <3>2, <3>4 DEF OwnersKnown
  <2>12. CallsKnown'
    <3>1. \A u \in Tasks : exec'[u].pc = "call" => exec'[u].call \in Calls
      BY <2>2, <2>3, <2>4 DEF IInv, CallsKnown
    <3>2. /\ \A u \in Tasks, c \in Calls :
                Holds(u, c)' => call'[c] \in {"requested", "cancelled"}
          /\ \A u, v \in Tasks, c \in Calls : Holds(u, c)' /\ Holds(v, c)' => u = v
          /\ \A c \in Calls :
                call'[c] \in {"requested", "cancelled"} => \E u \in Tasks : Holds(u, c)'
      BY <1>1, <2>8 DEF IInv, CallsKnown
    <3>3. \A u \in Tasks, c \in Calls :
            task'[u].callback = c /\ (task'[u].stopped \/ task'[u].cancelPending)
                => call'[c] = "cancelled"
      BY <1>1, <2>2, <2>4, ConstantsAssumption DEF IInv, CallsKnown
    <3>4. \A u \in Tasks :
            exec'[u].pc = "call" /\ exec'[u].stopped => call'[exec'[u].call] = "cancelled"
      BY <1>1, <2>2, <2>3, <2>4 DEF IInv, CallsKnown
    <3> QED BY <3>1, <3>2, <3>3, <3>4 DEF CallsKnown
  <2> QED BY <1>7, <2>5, <2>6, <2>7, <2>11, <2>12 DEF IInv
<1>9. CASE ~(q.callsExpected > 0)
  <2> DEFINE s == [q EXCEPT !.assigned = FALSE]
             x == [NoExec EXCEPT !.pc = "terminate"]
  <2>1. /\ task' = [task EXCEPT ![t] = s]
        /\ exec' = [exec EXCEPT ![t] = x]
    BY <1>9 DEF OnExecute
  <2> HIDE DEF q
  <2>2. /\ task[t].callback = None /\ task[t].opTask = "none" /\ task[t].posted = 1
        /\ task[t].stopped /\ t \in workers.executing
    <3>1. task[t].callsExpected = 1
      BY <1>2, <1>4, <1>5, <1>9 DEF Counted, Count
    <3>2. ~CallDue(task[t])
      BY <1>4, <3>1 DEF Counted, Count
    <3>3. /\ task[t].posted + Count(~(t \in workers.executing)) + Count(~task[t].stopped)
                + Count(TaskActive(task[t]) /\ ~task[t].newCall) = 1
      BY <1>4, <3>1 DEF Counted
    <3>4. task[t].posted = 1 /\ task[t].stopped /\ t \in workers.executing
      BY <1>1, <1>2, <3>3 DEF Count
    <3> QED BY <1>4, <3>2, <3>4 DEF Counted, CallDue, TaskActive
  <2>3. s \in TaskType /\ ~s.assigned /\ s.posted = 0 /\ s.opTask = "none" /\ s.callback = None
    <3>1. q \in TaskType /\ q.posted = 0 /\ q.opTask = "none" /\ q.callback = None
      BY <1>5, <2>2
    <3> QED BY <3>1 DEF TaskType
  <2>4. x \in ExecType /\ x.pc = "terminate"
    BY DEF NoExec, ExecType
  <2> HIDE DEF s, x
  <2>5. /\ task' \in [Tasks -> TaskType] /\ task'[t] = s
        /\ \A u \in Tasks \ {t} : task'[u] = task[u]
        /\ exec' \in [Tasks -> ExecType] /\ exec'[t] = x
        /\ \A u \in Tasks \ {t} : exec'[u] = exec[u]
    BY <1>2, <2>1, <2>3, <2>4
  <2>6. TypeOK'
    BY <1>1, <2>5, Typed, TypedNext DEF IInv
  <2>7. TasksKnown'
    BY <1>1, <2>2, <2>3, <2>4, <2>5, TasksKept DEF Quiet
  <2>8. ListsKnown'
    <3>1. t \notin ToSet(workers.pending) /\ t \notin ToSet(workers.ready)
      BY <2>2 DEF IInv, ListsKnown
    <3> QED BY <1>1, <2>2, <2>5, <3>1, WorkersTyped, ListTyped DEF IInv, ListsKnown
  <2>9. \A u \in Tasks, c \in Calls : Holds(u, c)' <=> Holds(u, c)
    <3> SUFFICES ASSUME NEW u \in Tasks, NEW c \in Calls PROVE Holds(u, c)' <=> Holds(u, c)
      OBVIOUS
    <3>1. CASE u = t
      BY <1>1, <2>2, <2>3, <2>4, <2>5, <3>1, ConstantsAssumption DEF Holds
    <3>2. CASE u # t
      BY <2>5, <3>2 DEF Holds
    <3> QED BY <3>1, <3>2
  <2>10. \A o \in Operations : ~Owns(o, t)
    BY <2>2 DEF IInv, OwnersKnown
  <2>11. OwnersKnown'
    <3>1. \A o \in Operations : op[o] \in Tasks \cup {None}
      BY Typed DEF IInv
    <3>2. ASSUME NEW o \in Operations
          PROVE  /\ owner'[o].stage \in {"none", "cancelled"} => op'[o] = None
                 /\ owner'[o].stage \in {"waiting", "cancelling", "releasing"}
                       => op'[o] \in Tasks
                 /\ owner'[o].stage = "waiting" =>
                       /\ owner'[o].call \in Calls
                       /\ Holds(op[o], owner[o].call)'
                       /\ call'[owner'[o].call] = "requested"
                 /\ owner'[o].stage = "idle" /\ op'[o] # None =>
                       task'[op'[o]].callback = None /\ exec'[op'[o]].pc # "call"
      <4>1. owner[o].stage = "idle" => op[o] # t
        BY <2>10 DEF Owns
      <4> QED BY <1>1, <2>5, <2>9, <3>1, <4>1 DEF IInv, OwnersKnown
    <3>3. \A u, o : Owns(o, u)' <=> Owns(o, u)
      BY <1>1 DEF Owns
    <3>4. /\ \A u \in Tasks, o \in Operations :
               Owns(o, u)' => task'[u].assigned /\ ~task'[u].stopped /\ ~task'[u].cancelPending
          /\ \A u \in Tasks, o, p \in Operations : Owns(o, u)' /\ Owns(p, u)' => o = p
          /\ \A u \in Tasks :
               task'[u].assigned /\ ~task'[u].stopped /\ ~task'[u].cancelPending
                   => \E o \in Operations : Owns(o, u)'
      BY <2>3, <2>5, <2>10, <3>3 DEF IInv, OwnersKnown
    <3> QED BY <3>2, <3>4 DEF OwnersKnown
  <2>12. CallsKnown'
    <3>1. \A u \in Tasks : exec'[u].pc = "call" => exec'[u].call \in Calls
      BY <2>4, <2>5 DEF IInv, CallsKnown
    <3>2. /\ \A u \in Tasks, c \in Calls :
                Holds(u, c)' => call'[c] \in {"requested", "cancelled"}
          /\ \A u, v \in Tasks, c \in Calls : Holds(u, c)' /\ Holds(v, c)' => u = v
          /\ \A c \in Calls :
                call'[c] \in {"requested", "cancelled"} => \E u \in Tasks : Holds(u, c)'
      BY <1>1, <2>9 DEF IInv, CallsKnown
    <3>3. \A u \in Tasks, c \in Calls :
            task'[u].callback = c /\ (task'[u].stopped \/ task'[u].cancelPending)
                => call'[c] = "cancelled"
      BY <1>1, <2>3, <2>5, ConstantsAssumption DEF IInv, CallsKnown
    <3>4. \A u \in Tasks :
            exec'[u].pc = "call" /\ exec'[u].stopped => call'[exec'[u].call] = "cancelled"
      BY <1>1, <2>4, <2>5 DEF IInv, CallsKnown
    <3> QED BY <3>1, <3>2, <3>3, <3>4 DEF CallsKnown
  <2> QED BY <1>7, <2>6, <2>7, <2>8, <2>11, <2>12 DEF IInv
<1> QED BY <1>8, <1>9

(***************************************************************************)
(* Once the callback is called the task has nothing to call back.          *)
(***************************************************************************)
LEMMA CallBackCounts ==
    ASSUME NEW r \in TaskType, NEW executing \in BOOLEAN, Counted(r, executing, TRUE)
    PROVE  /\ r.callback = None
           /\ [r EXCEPT !.remaining = @ - 1] \in TaskType
           /\ SameCall(r, [r EXCEPT !.remaining = @ - 1])
           /\ Counted([r EXCEPT !.remaining = @ - 1], executing, FALSE)
<1> DEFINE m == r.remaining - 1
           s == [r EXCEPT !.remaining = m]
<1>1. r.remaining \in Nat /\ r.callback = None
  BY DEF TaskType, Counted
<1>2. r.remaining = 1
  BY <1>1 DEF Counted, CallDue, Count
<1>3. m \in Nat /\ m = r.remaining - 1
  BY <1>2
<1>4. [r EXCEPT !.remaining = @ - 1] = s
  BY Zenon
<1> HIDE DEF m
<1>5. /\ s \in TaskType /\ SameCall(r, s) /\ s.remaining = m /\ s.posted = r.posted
      /\ s.callsExpected = r.callsExpected /\ s.opTask = r.opTask /\ s.newCall = r.newCall
  BY <1>3 DEF TaskType, SameCall
<1> HIDE DEF s
<1>6. /\ s.callback = r.callback /\ s.stopped = r.stopped
      /\ s.cancelPending = r.cancelPending
  BY <1>5 DEF SameCall
<1>7. s.remaining = 0
  BY <1>2, <1>3, <1>5
<1>8. Counted(s, executing, FALSE)
  BY <1>1, <1>5, <1>6, <1>7 DEF Counted, CallDue, TaskActive, Count
<1> QED BY <1>1, <1>4, <1>5, <1>8

(***************************************************************************)
(* The callback is called: the call is answered, and the owner that waits  *)
(* for it may go on.                                                       *)
(***************************************************************************)
LEMMA CallBackInvariant ==
    ASSUME IInv, NEW t \in Tasks, CallBack(t) PROVE IInv'
<1> DEFINE c == exec[t].call
           s == [task[t] EXCEPT !.remaining = @ - 1]
           x == [exec[t] EXCEPT !.pc = "callback"]
           answer == IF exec[t].stopped THEN "aborted" ELSE "executed"
<1>1. /\ exec[t].pc = "call"
      /\ exec' = [exec EXCEPT ![t] = x]
      /\ task' = [task EXCEPT ![t] = s]
      /\ call' = [call EXCEPT ![c] = answer]
      /\ owner' = [o \in Operations |->
            IF owner[o].stage = "waiting" /\ owner[o].call = c
            THEN [owner[o] EXCEPT !.stage = "idle"] ELSE owner[o]]
      /\ UNCHANGED <<op, workers, disposing>>
  BY DEF CallBack
<1>2. /\ task[t] \in TaskType /\ task \in [Tasks -> TaskType] /\ exec \in [Tasks -> ExecType]
      /\ owner \in [Operations -> OwnerType] /\ call \in [Calls -> CallType]
      /\ exec[t] \in ExecType
  BY Typed DEF IInv
<1>3. task[t].assigned /\ c \in Calls /\ Holds(t, c)
  BY <1>1 DEF IInv, TasksKnown, CallsKnown, Holds
<1>4. /\ task[t].callback = None /\ s \in TaskType /\ SameCall(task[t], s)
      /\ Counted(s, t \in workers.executing, FALSE)
  <2> DEFINE e == t \in workers.executing
  <2>1. (exec[t].pc = "call") = TRUE
    BY <1>1
  <2>2. Counted(task[t], e, TRUE)
    BY <1>3, <2>1 DEF IInv, TasksKnown
  <2>3. e \in BOOLEAN
    OBVIOUS
  <2> HIDE DEF e, s
  <2>4. /\ task[t].callback = None
        /\ [task[t] EXCEPT !.remaining = @ - 1] \in TaskType
        /\ SameCall(task[t], [task[t] EXCEPT !.remaining = @ - 1])
        /\ Counted([task[t] EXCEPT !.remaining = @ - 1], e, FALSE)
    BY ONLY <1>2, <2>2, <2>3, CallBackCounts, Zenon
  <2> QED BY <2>4, Zenon DEF s, e
<1>5. x \in ExecType /\ x.pc = "callback"
  BY <1>2 DEF ExecType
<1>6. answer \in CallType /\ answer \notin {"requested", "cancelled"}
  BY DEF CallType
<1> HIDE DEF s, x, answer
<1>7. /\ task' \in [Tasks -> TaskType] /\ task'[t] = s
      /\ \A u \in Tasks \ {t} : task'[u] = task[u]
      /\ exec' \in [Tasks -> ExecType] /\ exec'[t] = x
      /\ \A u \in Tasks \ {t} : exec'[u] = exec[u]
  BY <1>1, <1>2, <1>4, <1>5
<1>8. /\ call' \in [Calls -> CallType] /\ call'[c] = answer
      /\ \A d \in Calls \ {c} : call'[d] = call[d]
  BY <1>1, <1>2, <1>3, <1>6
<1>9. \A o \in Operations :
         IF owner[o].stage = "waiting" /\ owner[o].call = c
         THEN owner'[o] \in OwnerType /\ owner'[o].stage = "idle"
         ELSE owner'[o] = owner[o]
  BY <1>1, <1>2 DEF OwnerType
<1>10. TypeOK'
  <2>1. owner' \in [Operations -> OwnerType]
    <3>1. \A o \in Operations : owner'[o] \in OwnerType
      BY <1>2, <1>9
    <3>2. owner' = [o \in Operations |-> owner'[o]]
      BY <1>1
    <3> QED BY <3>1, <3>2
  <2> QED BY <1>1, <1>7, <1>8, <2>1, Typed, TypedNext DEF IInv
<1>11. TasksKnown'
  <2>1. (exec'[t].pc = "call") = FALSE
    BY <1>5, <1>7
  <2>2. Counted(task'[t], t \in workers.executing, exec'[t].pc = "call")
    BY <1>4, <1>7, <2>1
  <2> QED BY <1>1, <1>3, <1>4, <1>5, <1>7, <2>2, TasksKept DEF SameCall
<1>12. \A u \in Tasks : SameCall(task[u], task'[u])
  BY <1>4, <1>7 DEF SameCall
<1>13. ListsKnown'
  BY <1>1, <1>12, WorkersTyped, ListTyped DEF IInv, ListsKnown, SameCall
<1>14. \A u \in Tasks, d \in Calls : Holds(u, d)' <=> Holds(u, d) /\ d # c
  <2> SUFFICES ASSUME NEW u \in Tasks, NEW d \in Calls
               PROVE  Holds(u, d)' <=> Holds(u, d) /\ d # c
    OBVIOUS
  <2>1. CASE u = t
    BY <1>1, <1>4, <1>5, <1>7, <2>1, ConstantsAssumption DEF Holds, SameCall
  <2>2. CASE u # t
    <3>1. ~Holds(u, c)
      BY <1>3, <2>2 DEF IInv, CallsKnown
    <3> QED BY <1>7, <2>2, <3>1 DEF Holds
  <2> QED BY <2>1, <2>2
<1>15. \A o \in Operations : \A u \in Tasks : Owns(o, u)' <=> Owns(o, u)
  BY <1>1, <1>9 DEF Owns
<1>16. OwnersKnown'
  <2>1. \A o \in Operations : op[o] \in Tasks \cup {None}
    BY Typed DEF IInv
  <2>2. ASSUME NEW o \in Operations
        PROVE  /\ owner'[o].stage \in {"none", "cancelled"} => op'[o] = None
               /\ owner'[o].stage \in {"waiting", "cancelling", "releasing"}
                     => op'[o] \in Tasks
               /\ owner'[o].stage = "waiting" =>
                     /\ owner'[o].call \in Calls
                     /\ Holds(op[o], owner[o].call)'
                     /\ call'[owner'[o].call] = "requested"
               /\ owner'[o].stage = "idle" /\ op'[o] # None =>
                     task'[op'[o]].callback = None /\ exec'[op'[o]].pc # "call"
    <3>1. CASE owner[o].stage = "waiting" /\ owner[o].call = c
      <4>1. op[o] \in Tasks /\ Holds(op[o], c)
        BY <3>1 DEF IInv, OwnersKnown
      <4>2. op[o] = t
        BY <1>3, <4>1 DEF IInv, CallsKnown
      <4>3. owner'[o].stage = "idle"
        BY <1>9, <3>1
      <4> QED BY <1>1, <1>4, <1>5, <1>7, <4>2, <4>3 DEF SameCall
    <3>2. CASE owner[o].stage = "waiting" /\ owner[o].call # c
      <4>1. /\ op[o] \in Tasks /\ owner[o].call \in Calls
            /\ Holds(op[o], owner[o].call) /\ call[owner[o].call] = "requested"
        BY <3>2 DEF IInv, OwnersKnown
      <4>2. owner'[o] = owner[o]
        BY <1>9, <3>2
      <4>3. Holds(op[o], owner[o].call)'
        <5>1. \E u \in Tasks, d \in Calls : u = op[o] /\ d = owner[o].call
          BY <4>1
        <5>2. op'[o] = op[o]
          BY <1>1
        <5> QED BY <1>14, <3>2, <4>1, <4>2, <5>1, <5>2 DEF Holds
      <4> QED BY <1>1, <1>8, <3>2, <4>1, <4>2, <4>3
    <3>3. CASE owner[o].stage # "waiting"
      <4>1. owner'[o] = owner[o]
        BY <1>9, <3>3
      <4>2. owner[o].stage = "idle" /\ op[o] # None =>
               /\ op[o] # t
               /\ task[op[o]].callback = None /\ exec[op[o]].pc # "call"
        BY <1>1 DEF IInv, OwnersKnown
      <4>3. /\ owner[o].stage \in {"none", "cancelled"} => op[o] = None
            /\ owner[o].stage \in {"cancelling", "releasing"} => op[o] \in Tasks
        BY DEF IInv, OwnersKnown
      <4>4. owner[o].stage = "idle" /\ op[o] # None =>
               task'[op[o]] = task[op[o]] /\ exec'[op[o]] = exec[op[o]]
        BY <1>7, <2>1, <4>2
      <4> QED BY <1>1, <3>3, <4>1, <4>2, <4>3, <4>4
    <3> QED BY <3>1, <3>2, <3>3
  <2>3. /\ \A u \in Tasks, o \in Operations :
             Owns(o, u)' => task'[u].assigned /\ ~task'[u].stopped /\ ~task'[u].cancelPending
        /\ \A u \in Tasks, o, p \in Operations : Owns(o, u)' /\ Owns(p, u)' => o = p
        /\ \A u \in Tasks :
             task'[u].assigned /\ ~task'[u].stopped /\ ~task'[u].cancelPending
                 => \E o \in Operations : Owns(o, u)'
    BY <1>12, <1>15 DEF IInv, OwnersKnown, SameCall
  <2> QED BY <2>2, <2>3 DEF OwnersKnown
<1>17. CallsKnown'
  <2>1. \A u \in Tasks : exec'[u].pc = "call" => u # t
    BY <1>5, <1>7
  <2>2. \A u \in Tasks \ {t} : exec[u].pc = "call" => exec[u].call \in Calls /\ exec[u].call # c
    <3> SUFFICES ASSUME NEW u \in Tasks \ {t}, exec[u].pc = "call"
                 PROVE  exec[u].call \in Calls /\ exec[u].call # c
      OBVIOUS
    <3>1. exec[u].call \in Calls
      BY DEF IInv, CallsKnown
    <3>2. exec[u].call = c => Holds(u, c)
      BY DEF Holds
    <3> QED BY <1>3, <3>1, <3>2 DEF IInv, CallsKnown
  <2>3. \A u \in Tasks : exec'[u].pc = "call" => exec'[u].call \in Calls
    BY <1>7, <2>1, <2>2
  <2>4. /\ \A u \in Tasks, d \in Calls : Holds(u, d)' => call'[d] \in {"requested", "cancelled"}
        /\ \A u, v \in Tasks, d \in Calls : Holds(u, d)' /\ Holds(v, d)' => u = v
    BY <1>8, <1>14 DEF IInv, CallsKnown
  <2>5. \A d \in Calls : call'[d] \in {"requested", "cancelled"} => \E u \in Tasks : Holds(u, d)'
    BY <1>6, <1>8, <1>14 DEF IInv, CallsKnown
  <2>6. \A u \in Tasks, d \in Calls :
          task'[u].callback = d /\ (task'[u].stopped \/ task'[u].cancelPending)
              => call'[d] = "cancelled"
    <3> SUFFICES ASSUME NEW u \in Tasks, NEW d \in Calls, task'[u].callback = d,
                        task'[u].stopped \/ task'[u].cancelPending
                 PROVE  call'[d] = "cancelled"
      OBVIOUS
    <3>1. task[u].callback = d /\ (task[u].stopped \/ task[u].cancelPending)
      BY <1>12 DEF SameCall
    <3>2. u # t
      BY <1>4, <3>1, ConstantsAssumption
    <3>3. d # c
      BY <1>3, <3>1, <3>2 DEF IInv, CallsKnown, Holds
    <3> QED BY <1>8, <3>1, <3>3 DEF IInv, CallsKnown
  <2>7. \A u \in Tasks :
          exec'[u].pc = "call" /\ exec'[u].stopped => call'[exec'[u].call] = "cancelled"
    BY <1>7, <1>8, <2>1, <2>2 DEF IInv, CallsKnown
  <2> QED BY <2>3, <2>4, <2>5, <2>6, <2>7 DEF CallsKnown
<1>18. DisposeKnown' /\ DisposedIsQuiet'
  <2>1. disposing # "done"
    BY <1>1, NothingAfterDispose
  <2>2. \A o \in Operations : owner[o].stage \in {"none", "cancelled"}
                                 => owner'[o].stage \in {"none", "cancelled"}
    BY <1>9
  <2> QED BY <1>1, <2>1, <2>2, DisposeKept
<1> QED BY <1>10, <1>11, <1>13, <1>16, <1>17, <1>18 DEF IInv

(***************************************************************************)
(* The terminating call completes the task, and the place it had goes to   *)
(* the first pending one.                                                  *)
(***************************************************************************)
LEMMA TerminateInvariant ==
    ASSUME IInv, NEW t \in Tasks, NEW kind \in Kinds, Terminate(t, kind) PROVE IInv'
<1> DEFINE first == IF workers.pending = <<>> THEN {} ELSE {Head(workers.pending)}
           rest == IF workers.pending = <<>> THEN <<>> ELSE Tail(workers.pending)
           x == [exec[t] EXCEPT !.pc = "leave"]
<1>1. /\ exec[t].pc = "terminate"
      /\ exec' = [exec EXCEPT ![t] = x]
      /\ workers' = [pending |-> rest, executing |-> (workers.executing \ {t}) \cup first,
                     ready |-> Append(workers.ready, t)]
      /\ task' = [u \in Tasks |-> IF u \in workers'.executing \ workers.executing
                                  THEN ScheduleCall(task[u], FALSE, kind) ELSE task[u]]
      /\ UNCHANGED <<owner, op, call, disposing>>
  BY DEF Terminate, TaskCompletes
<1>2. /\ task \in [Tasks -> TaskType] /\ exec \in [Tasks -> ExecType]
      /\ exec[t] \in ExecType
  BY Typed DEF IInv
<1>3. /\ ~task[t].assigned /\ t \in workers.executing /\ Quiet(task[t])
  BY <1>1 DEF IInv, TasksKnown
<1>4. /\ workers.pending \in Seq(Tasks) /\ Distinct(workers.pending)
      /\ workers.ready \in Seq(Tasks) /\ Distinct(workers.ready)
      /\ workers.executing \subseteq Tasks
  BY WorkersTyped
<1>5. /\ first \subseteq ToSet(workers.pending) /\ first \subseteq Tasks
      /\ rest \in Seq(Tasks) /\ Distinct(rest)
      /\ ToSet(rest) = ToSet(workers.pending) \ first
  <2>1. CASE workers.pending = <<>>
    <3>1. first = {} /\ rest = <<>>
      BY <2>1
    <3> HIDE DEF first, rest
    <3> QED BY <2>1, <3>1, ListEmpty
  <2>2. CASE workers.pending # <<>>
    <3>1. first = {Head(workers.pending)} /\ rest = Tail(workers.pending)
      BY <2>2
    <3> HIDE DEF first, rest
    <3> QED BY <1>4, <2>2, <3>1, ListTail
  <2> QED BY <2>1, <2>2
<1>6. \A u \in first : task[u].assigned /\ u \notin workers.executing
  <2> HIDE DEF first
  <2> QED BY <1>5 DEF IInv, ListsKnown
<1>7. x \in ExecType /\ x.pc = "leave"
  BY <1>2 DEF ExecType
<1> HIDE DEF x, first, rest
<1>8. /\ exec' \in [Tasks -> ExecType] /\ exec'[t] = x
      /\ \A u \in Tasks \ {t} : exec'[u] = exec[u]
  BY <1>1, <1>2, <1>7
<1>9. /\ workers'.pending = rest /\ workers'.ready = Append(workers.ready, t)
      /\ workers'.executing = (workers.executing \ {t}) \cup first
  BY <1>1
<1>10. workers'.executing \ workers.executing = first
  BY <1>6, <1>9
<1>11. \A u \in Tasks : task'[u] = IF u \in first THEN ScheduleCall(task[u], FALSE, kind)
                                   ELSE task[u]
  BY <1>1, <1>10
<1>12. \A u \in Tasks : task'[u] \in TaskType /\ SameCall(task[u], task'[u])
  <2> SUFFICES ASSUME NEW u \in Tasks PROVE task'[u] \in TaskType /\ SameCall(task[u], task'[u])
    OBVIOUS
  <2>0. task[u] \in TaskType
    BY <1>2
  <2>1. CASE u \in first
    BY <1>11, <2>0, <2>1, ScheduleCallRecord
  <2>2. CASE u \notin first
    BY <1>11, <2>0, <2>2 DEF SameCall
  <2> QED BY <2>1, <2>2
<1>13. /\ Append(workers.ready, t) \in Seq(Tasks) /\ Distinct(Append(workers.ready, t))
       /\ ToSet(Append(workers.ready, t)) = ToSet(workers.ready) \cup {t}
  <2>1. t \notin ToSet(workers.ready)
    BY <1>3 DEF IInv, ListsKnown
  <2> QED BY <1>4, <2>1, ListAppend
<1>14. TypeOK'
  <2>1. task' \in [Tasks -> TaskType]
    BY <1>1, <1>12
  <2>2. workers' \in WorkersType
    BY <1>1, <1>4, <1>5, <1>13 DEF WorkersType
  <2> QED BY <1>1, <1>8, <2>1, <2>2, Typed, TypedNext DEF IInv
<1>15. TasksKnown'
  <2> SUFFICES ASSUME NEW u \in Tasks
               PROVE  IF task'[u].assigned
                      THEN /\ Counted(task'[u], u \in workers'.executing, exec'[u].pc = "call")
                           /\ exec'[u].pc # "terminate"
                      ELSE /\ Quiet(task'[u])
                           /\ exec'[u].pc \notin {"call", "callback"}
                           /\ exec'[u].pc = "terminate" <=> u \in workers'.executing
    BY DEF TasksKnown
  <2>1. CASE u = t
    <3>1. t \notin first
      BY <1>3, <1>6
    <3> QED BY <1>3, <1>7, <1>8, <1>9, <1>11, <2>1, <3>1
  <2>2. CASE u \in first
    <3> DEFINE calling == exec[u].pc = "call"
    <3>1. u # t /\ task[u].assigned /\ u \notin workers.executing
      BY <1>3, <1>6, <2>2
    <3>2. Counted(task[u], u \in workers.executing, calling) /\ exec[u].pc # "terminate"
      BY <3>1 DEF IInv, TasksKnown
    <3>3. (u \in workers.executing) = FALSE /\ (u \in workers'.executing) = TRUE
      BY <1>9, <2>2, <3>1
    <3>4. Counted(task[u], FALSE, calling)
      BY <3>2, <3>3
    <3>5. calling \in BOOLEAN /\ task[u] \in TaskType
      BY <1>2
    <3>6. Counted(ScheduleCall(task[u], FALSE, kind), TRUE, calling)
      <4> HIDE DEF calling
      <4> QED BY <3>4, <3>5, ExecuteCounts
    <3>7. task'[u] = ScheduleCall(task[u], FALSE, kind) /\ exec'[u] = exec[u]
      BY <1>8, <1>11, <2>2, <3>1
    <3>8. Counted(task'[u], u \in workers'.executing, exec'[u].pc = "call")
      BY <3>3, <3>6, <3>7
    <3>9. task'[u].assigned
      BY <1>12, <3>1 DEF SameCall
    <3> QED BY <3>2, <3>7, <3>8, <3>9
  <2>3. CASE u # t /\ u \notin first
    <3>1. task'[u] = task[u] /\ exec'[u] = exec[u]
      BY <1>8, <1>11, <2>3
    <3>2. (u \in workers'.executing) = (u \in workers.executing)
      BY <1>9, <2>3
    <3> QED BY <3>1, <3>2 DEF IInv, TasksKnown
  <2> QED BY <2>1, <2>2, <2>3
<1>16. ListsKnown'
  <2>1. \A u \in Tasks : task'[u].assigned = task[u].assigned
    BY <1>12 DEF SameCall
  <2>2. /\ ToSet(workers'.pending) = ToSet(workers.pending) \ first
        /\ ToSet(workers'.ready) = ToSet(workers.ready) \cup {t}
        /\ ToSet(workers.pending) \subseteq Tasks /\ ToSet(workers.ready) \subseteq Tasks
    BY <1>4, <1>5, <1>9, <1>13, ListTyped
  <2>3. Distinct(workers'.pending) /\ Distinct(workers'.ready)
    BY <1>5, <1>9, <1>13
  <2>4. \A u \in ToSet(workers'.pending) : task'[u].assigned /\ u \notin workers'.executing
    BY <1>9, <2>1, <2>2 DEF IInv, ListsKnown
  <2>5. \A u \in ToSet(workers'.ready) : ~task'[u].assigned /\ u \notin workers'.executing
    BY <1>3, <1>6, <1>9, <2>1, <2>2 DEF IInv, ListsKnown
  <2>6. disposing' = "no" => \A u \in Tasks :
          task'[u].assigned => u \in workers'.executing \/ u \in ToSet(workers'.pending)
    BY <1>1, <1>3, <1>9, <2>1, <2>2 DEF IInv, ListsKnown
  <2> QED BY <2>3, <2>4, <2>5, <2>6 DEF ListsKnown
<1>17. OwnersKnown' /\ CallsKnown'
  <2>1. \A u \in Tasks : exec'[u].pc = "call" <=> exec[u].pc = "call"
    BY <1>1, <1>7, <1>8
  <2>2. \A u \in Tasks : exec[u].pc = "call" => exec'[u] = exec[u]
    BY <1>1, <1>8
  <2> QED BY <1>1, <1>12, <2>1, <2>2, CallsKept
<1>18. DisposeKnown' /\ DisposedIsQuiet'
  <2>1. disposing # "done"
    BY <1>1, NothingAfterDispose
  <2> QED BY <1>1, <2>1, DisposeKept
<1> QED BY <1>14, <1>15, <1>16, <1>17, <1>18 DEF IInv

-----------------------------------------------------------------------------
(* Steps of owners.                                                        *)

(***************************************************************************)
(* Nothing but the operation itself changes.                               *)
(***************************************************************************)
LEMMA CreateOperationInvariant ==
    ASSUME IInv, NEW o \in Operations, CreateOperation(o) PROVE IInv'
<1> DEFINE x == [owner[o] EXCEPT !.stage = "idle"]
<1>1. /\ owner[o].stage = "none" /\ disposing = "no"
      /\ owner' = [owner EXCEPT ![o] = x]
      /\ UNCHANGED <<op, task, exec, workers, call, disposing>>
  BY DEF CreateOperation, ExecutorLockFree
<1>2. owner \in [Operations -> OwnerType] /\ op[o] = None
  BY <1>1, Typed DEF IInv, OwnersKnown
<1>3. x \in OwnerType /\ x.stage = "idle"
  BY <1>2 DEF OwnerType
<1> HIDE DEF x
<1>4. /\ owner' \in [Operations -> OwnerType] /\ owner'[o].stage = "idle"
      /\ \A p \in Operations \ {o} : owner'[p] = owner[p]
  BY <1>1, <1>2, <1>3
<1>5. TypeOK'
  BY <1>1, <1>4, Typed, TypedNext DEF IInv
<1>6. TasksKnown' /\ ListsKnown'
  BY <1>1 DEF IInv, TasksKnown, ListsKnown
<1>7. \A p \in Operations, u \in Tasks : Owns(p, u)' <=> Owns(p, u)
  <2> SUFFICES ASSUME NEW p \in Operations, NEW u \in Tasks PROVE Owns(p, u)' <=> Owns(p, u)
    OBVIOUS
  <2>1. CASE p = o
    BY <1>1, <1>2, <2>1, ConstantsAssumption DEF Owns
  <2>2. CASE p # o
    BY <1>1, <1>4, <2>2 DEF Owns
  <2> QED BY <2>1, <2>2
<1>8. \A c, u : Holds(u, c)' <=> Holds(u, c)
  BY <1>1 DEF Holds
<1>9. OwnersKnown'
  <2>1. ASSUME NEW p \in Operations
        PROVE  /\ owner'[p].stage \in {"none", "cancelled"} => op'[p] = None
               /\ owner'[p].stage \in {"waiting", "cancelling", "releasing"} => op'[p] \in Tasks
               /\ owner'[p].stage = "waiting" =>
                     /\ owner'[p].call \in Calls
                     /\ Holds(op[p], owner[p].call)'
                     /\ call'[owner'[p].call] = "requested"
               /\ owner'[p].stage = "idle" /\ op'[p] # None =>
                     task'[op'[p]].callback = None /\ exec'[op'[p]].pc # "call"
    <3>1. CASE p = o
      BY <1>1, <1>2, <1>4, <3>1
    <3>2. CASE p # o
      <4>1. owner'[p] = owner[p] /\ op'[p] = op[p]
        BY <1>1, <1>4, <3>2
      <4> QED BY <1>1, <4>1 DEF IInv, OwnersKnown, Holds
    <3> QED BY <3>1, <3>2
  <2>2. /\ \A u \in Tasks, p \in Operations :
             Owns(p, u)' => task'[u].assigned /\ ~task'[u].stopped /\ ~task'[u].cancelPending
        /\ \A u \in Tasks, p, q \in Operations : Owns(p, u)' /\ Owns(q, u)' => p = q
        /\ \A u \in Tasks :
             task'[u].assigned /\ ~task'[u].stopped /\ ~task'[u].cancelPending
                 => \E p \in Operations : Owns(p, u)'
    BY <1>1, <1>7 DEF IInv, OwnersKnown
  <2> QED BY <2>1, <2>2, <1>4 DEF OwnersKnown, Holds
<1>10. CallsKnown'
  BY <1>1, <1>8 DEF IInv, CallsKnown
<1>11. DisposeKnown' /\ DisposedIsQuiet'
  BY <1>1 DEF DisposeKnown, DisposedIsQuiet
<1> QED BY <1>5, <1>6, <1>9, <1>10, <1>11 DEF IInv

(***************************************************************************)
(* asyncBegin() gives a call to a task, which belongs to the operation.    *)
(***************************************************************************)
LEMMA CallGiven ==
    ASSUME IInv, NEW o \in Operations, NEW t \in Tasks, NEW c \in Calls,
           owner[o].stage = "idle", call[c] = "none", op[o] \in {None, t},
           task[t].callback = None, exec[t].pc # "call",
           \A p \in Operations : Owns(p, t) => p = o,
           owner'[o].stage = "waiting", owner'[o].call = c, op'[o] = t,
           \A p \in Operations \ {o} : owner'[p] = owner[p] /\ op'[p] = op[p],
           task'[t].assigned, task'[t].callback = c, ~task'[t].stopped,
           ~task'[t].cancelPending,
           \A u \in Tasks \ {t} : task'[u] = task[u],
           exec' = exec,
           call'[c] = "requested", \A d \in Calls \ {c} : call'[d] = call[d]
    PROVE  OwnersKnown' /\ CallsKnown'
<1>1. \A u \in Tasks : ~Holds(u, c)
  BY DEF IInv, CallsKnown
<1>2. \A u \in Tasks, d \in Calls : Holds(u, d)' <=> Holds(u, d) \/ (u = t /\ d = c)
  <2> SUFFICES ASSUME NEW u \in Tasks, NEW d \in Calls
               PROVE  Holds(u, d)' <=> Holds(u, d) \/ (u = t /\ d = c)
    OBVIOUS
  <2>1. CASE u = t
    BY <2>1, ConstantsAssumption DEF Holds
  <2>2. CASE u # t
    BY <2>2 DEF Holds
  <2> QED BY <2>1, <2>2
<1>3. \A p \in Operations, u \in Tasks : Owns(p, u)' <=> Owns(p, u) \/ (p = o /\ u = t)
  <2> SUFFICES ASSUME NEW p \in Operations, NEW u \in Tasks
               PROVE  Owns(p, u)' <=> Owns(p, u) \/ (p = o /\ u = t)
    OBVIOUS
  <2>1. CASE p = o
    BY <2>1, ConstantsAssumption DEF Owns
  <2>2. CASE p # o
    BY <2>2 DEF Owns
  <2> QED BY <2>1, <2>2
<1>4. OwnersKnown'
  <2>1. ASSUME NEW p \in Operations
        PROVE  /\ owner'[p].stage \in {"none", "cancelled"} => op'[p] = None
               /\ owner'[p].stage \in {"waiting", "cancelling", "releasing"} => op'[p] \in Tasks
               /\ owner'[p].stage = "waiting" =>
                     /\ owner'[p].call \in Calls
                     /\ \/ task'[op'[p]].callback = owner'[p].call
                        \/ exec'[op'[p]].pc = "call" /\ exec'[op'[p]].call = owner'[p].call
                     /\ call'[owner'[p].call] = "requested"
               /\ owner'[p].stage = "idle" /\ op'[p] # None =>
                     task'[op'[p]].callback = None /\ exec'[op'[p]].pc # "call"
    <3>1. CASE p = o
      BY <3>1
    <3>2. CASE p # o
      <4>1. owner'[p] = owner[p] /\ op'[p] = op[p]
        BY <3>2
      <4>2. op[p] \in Tasks \cup {None}
        BY Typed DEF IInv
      <4>3. /\ owner[p].stage \in {"none", "cancelled"} => op[p] = None
            /\ owner[p].stage \in {"waiting", "cancelling", "releasing"} => op[p] \in Tasks
            /\ owner[p].stage = "waiting" =>
                  /\ owner[p].call \in Calls
                  /\ \/ task[op[p]].callback = owner[p].call
                     \/ exec[op[p]].pc = "call" /\ exec[op[p]].call = owner[p].call
                  /\ call[owner[p].call] = "requested"
            /\ owner[p].stage = "idle" /\ op[p] # None =>
                  task[op[p]].callback = None /\ exec[op[p]].pc # "call"
        BY DEF IInv, OwnersKnown, Holds
      <4>4. owner[p].stage \in {"idle", "waiting"} => op[p] # t
        BY <3>2 DEF Owns
      <4>5. owner[p].stage \in {"idle", "waiting"} /\ op[p] # None => task'[op[p]] = task[op[p]]
        BY <4>2, <4>4
      <4>6. owner[p].stage = "waiting" => op[p] # None
        BY <4>3, ConstantsAssumption
      <4>7. owner[p].stage = "waiting" => call'[owner[p].call] = "requested"
        BY <4>3
      <4> QED BY <4>1, <4>3, <4>5, <4>6, <4>7
    <3> QED BY <3>1, <3>2
  <2>2. \A u \in Tasks, p \in Operations :
             Owns(p, u)' => task'[u].assigned /\ ~task'[u].stopped /\ ~task'[u].cancelPending
    BY <1>3 DEF IInv, OwnersKnown
  <2>3. \A u \in Tasks, p, q \in Operations : Owns(p, u)' /\ Owns(q, u)' => p = q
    <3> SUFFICES ASSUME NEW u \in Tasks, NEW p \in Operations, NEW q \in Operations,
                        Owns(p, u)', Owns(q, u)'
                 PROVE  p = q
      OBVIOUS
    <3>1. CASE u = t
      BY <1>3, <3>1
    <3>2. CASE u # t
      BY <1>3, <3>2 DEF IInv, OwnersKnown
    <3> QED BY <3>1, <3>2
  <2>4. \A u \in Tasks :
             task'[u].assigned /\ ~task'[u].stopped /\ ~task'[u].cancelPending
                 => \E p \in Operations : Owns(p, u)'
    <3> SUFFICES ASSUME NEW u \in Tasks, task'[u].assigned, ~task'[u].stopped,
                        ~task'[u].cancelPending
                 PROVE  \E p \in Operations : Owns(p, u)'
      OBVIOUS
    <3>1. CASE u = t
      BY <1>3, <3>1
    <3>2. CASE u # t
      BY <1>3, <3>2 DEF IInv, OwnersKnown
    <3> QED BY <3>1, <3>2
  <2> QED BY <2>1, <2>2, <2>3, <2>4 DEF OwnersKnown, Holds
<1>5. CallsKnown'
  <2>1. \A u \in Tasks : exec'[u].pc = "call" => exec'[u].call \in Calls
    BY DEF IInv, CallsKnown
  <2>2. \A u \in Tasks, d \in Calls : Holds(u, d)' => call'[d] \in {"requested", "cancelled"}
    BY <1>1, <1>2 DEF IInv, CallsKnown
  <2>3. \A u, v \in Tasks, d \in Calls : Holds(u, d)' /\ Holds(v, d)' => u = v
    BY <1>1, <1>2 DEF IInv, CallsKnown
  <2>4. \A d \in Calls : call'[d] \in {"requested", "cancelled"} => \E u \in Tasks : Holds(u, d)'
    BY <1>2 DEF IInv, CallsKnown
  <2>5. \A u \in Tasks, d \in Calls :
          task'[u].callback = d /\ (task'[u].stopped \/ task'[u].cancelPending)
              => call'[d] = "cancelled"
    <3> SUFFICES ASSUME NEW u \in Tasks, NEW d \in Calls, task'[u].callback = d,
                        task'[u].stopped \/ task'[u].cancelPending
                 PROVE  call'[d] = "cancelled"
      OBVIOUS
    <3>1. u # t
      OBVIOUS
    <3>2. task[u].callback = d /\ (task[u].stopped \/ task[u].cancelPending)
      BY <3>1
    <3>3. d # c
      BY <1>1, <3>2 DEF Holds
    <3> QED BY <3>2, <3>3 DEF IInv, CallsKnown
  <2>6. \A u \in Tasks :
          exec'[u].pc = "call" /\ exec'[u].stopped => call'[exec'[u].call] = "cancelled"
    <3> SUFFICES ASSUME NEW u \in Tasks, exec[u].pc = "call", exec[u].stopped
                 PROVE  call'[exec[u].call] = "cancelled"
      OBVIOUS
    <3>1. exec[u].call \in Calls /\ call[exec[u].call] = "cancelled"
      BY DEF IInv, CallsKnown
    <3> QED BY <3>1
  <2> QED BY <2>1, <2>2, <2>3, <2>4, <2>5, <2>6 DEF CallsKnown
<1> QED BY <1>4, <1>5

(***************************************************************************)
(* The owner and the call of asyncBegin(), in either of its branches.      *)
(***************************************************************************)
LEMMA CallBegun ==
    ASSUME IInv, NEW o \in Operations, NEW c \in Calls,
           owner' = [owner EXCEPT ![o].stage = "waiting", ![o].call = c],
           call' = [call EXCEPT ![c] = "requested"]
    PROVE  /\ owner' \in [Operations -> OwnerType]
           /\ owner'[o].stage = "waiting" /\ owner'[o].call = c
           /\ \A p \in Operations \ {o} : owner'[p] = owner[p]
           /\ call' \in [Calls -> CallType] /\ call'[c] = "requested"
           /\ \A d \in Calls \ {c} : call'[d] = call[d]
<1>1. owner \in [Operations -> OwnerType] /\ call \in [Calls -> CallType]
  BY Typed DEF IInv
<1> DEFINE x == [owner[o] EXCEPT !.stage = "waiting", !.call = c]
<1>2. owner' = [owner EXCEPT ![o] = x]
  BY <1>1
<1>3. x \in OwnerType /\ x.stage = "waiting" /\ x.call = c
  BY <1>1 DEF OwnerType
<1> HIDE DEF x
<1>4. "requested" \in CallType
  BY DEF CallType
<1> QED BY <1>1, <1>2, <1>3, <1>4

(***************************************************************************)
(* asyncBegin() of an operation that has its task.                         *)
(***************************************************************************)
LEMMA AsyncBeginAgainInvariant ==
    ASSUME IInv, NEW o \in Operations, NEW c \in Calls, NEW kind \in Kinds,
           AsyncBeginAgain(o, c, kind)
    PROVE  IInv'
<1> DEFINE t == op[o]
           s == AgainCalled(task[t], c, kind)
<1>1. /\ owner[o].stage = "idle" /\ t # None
      /\ disposing = "no" /\ call[c] = "none"
      /\ task[t].remaining = 0
      /\ task' = [task EXCEPT ![t] = s]
      /\ owner' = [owner EXCEPT ![o].stage = "waiting", ![o].call = c]
      /\ call' = [call EXCEPT ![c] = "requested"]
      /\ UNCHANGED <<op, exec, workers, disposing>>
  BY DEF AsyncBeginAgain, ExecutorLockFree, AgainCalled
<1>2. /\ t \in Tasks /\ task \in [Tasks -> TaskType]
  BY <1>1, Typed DEF IInv
<1>3. task[t] \in TaskType
  BY <1>2
<1>4. /\ Owns(o, t) /\ task[t].assigned /\ ~task[t].stopped /\ ~task[t].cancelPending
      /\ task[t].callback = None /\ exec[t].pc # "call"
      /\ \A p \in Operations : Owns(p, t) => p = o
  <2>1. Owns(o, t)
    BY <1>1 DEF Owns
  <2> QED BY <1>1, <1>2, <2>1 DEF IInv, OwnersKnown
<1> HIDE DEF t
<1>5. Counted(task[t], t \in workers.executing, FALSE) /\ exec[t].pc # "terminate"
  <2>1. (exec[t].pc = "call") = FALSE
    BY <1>4
  <2>2. Counted(task[t], t \in workers.executing, exec[t].pc = "call")
        /\ exec[t].pc # "terminate"
    BY <1>2, <1>4 DEF IInv, TasksKnown
  <2> QED BY <2>1, <2>2
<1>6. /\ s \in TaskType /\ s.callback = c /\ s.assigned = task[t].assigned
      /\ s.stopped = task[t].stopped /\ s.cancelPending = task[t].cancelPending
  BY <1>3, CallAgainRecord
<1>a. Counted(s, t \in workers.executing, FALSE)
  <2>1. (t \in workers.executing) \in BOOLEAN
    OBVIOUS
  <2>2. task[t].remaining = 0
    BY <1>1
  <2> QED BY <1>3, <1>4, <1>5, <2>1, <2>2, CallAgainCounts, Zenon
<1> HIDE DEF s
<1>7. /\ task' \in [Tasks -> TaskType] /\ task'[t] = s
      /\ \A u \in Tasks \ {t} : task'[u] = task[u]
  BY <1>1, <1>2, <1>6
<1>8. /\ owner' \in [Operations -> OwnerType]
      /\ owner'[o].stage = "waiting" /\ owner'[o].call = c
      /\ \A p \in Operations \ {o} : owner'[p] = owner[p]
      /\ call' \in [Calls -> CallType] /\ call'[c] = "requested"
      /\ \A d \in Calls \ {c} : call'[d] = call[d]
  BY <1>1, CallBegun
<1>9. TypeOK'
  BY <1>1, <1>7, <1>8, Typed, TypedNext DEF IInv
<1>10. TasksKnown'
  <2>1. (exec'[t].pc = "call") = FALSE
    BY <1>1, <1>4
  <2>2. Counted(task'[t], t \in workers.executing, exec'[t].pc = "call")
    BY <1>6, <1>7, <1>a, <2>1
  <2> QED BY <1>1, <1>2, <1>4, <1>5, <1>6, <1>7, <2>2, TasksKept
<1>11. ListsKnown'
  <2>1. \A u \in Tasks : task'[u].assigned <=> task[u].assigned
    BY <1>6, <1>7
  <2> QED BY <1>1, <2>1, WorkersTyped, ListTyped DEF IInv, ListsKnown
<1>12. OwnersKnown' /\ CallsKnown'
  <2>1. op[o] = t /\ op'[o] = t /\ \A p \in Operations \ {o} : op'[p] = op[p]
    BY <1>1 DEF t
  <2>2. /\ task'[t].assigned /\ task'[t].callback = c /\ ~task'[t].stopped
        /\ ~task'[t].cancelPending
    BY <1>4, <1>6, <1>7
  <2> QED BY <1>1, <1>2, <1>4, <1>7, <1>8, <2>1, <2>2, CallGiven
<1>13. DisposeKnown' /\ DisposedIsQuiet'
  BY <1>1 DEF DisposeKnown, DisposedIsQuiet
<1> QED BY <1>9, <1>10, <1>11, <1>12, <1>13 DEF IInv

(***************************************************************************)
(* asyncBegin() of an operation that has no task: a task is taken that     *)
(* nobody uses, from the ready queue or new, and executed or made to wait  *)
(* for a place.                                                            *)
(***************************************************************************)
LEMMA AsyncBeginInvariant ==
    ASSUME IInv, NEW o \in Operations, NEW c \in Calls, NEW kind \in Kinds,
           AsyncBegin(o, c, kind)
    PROVE  IInv'
<1> DEFINE rest == IF workers.ready = <<>> THEN workers.ready ELSE Tail(workers.ready)
           w == [workers EXCEPT !.ready = IF @ = <<>> THEN @ ELSE Tail(@)]
           r == [ResetTask EXCEPT !.assigned = TRUE, !.callback = c]
<1>1. /\ owner[o].stage = "idle" /\ op[o] = None
      /\ disposing = "no" /\ call[c] = "none"
      /\ owner' = [owner EXCEPT ![o].stage = "waiting", ![o].call = c]
      /\ call' = [call EXCEPT ![c] = "requested"]
      /\ UNCHANGED <<exec, disposing>>
  BY DEF AsyncBegin, ExecutorLockFree
<1>2. PICK t \in Tasks :
         /\ IF workers.ready # <<>> THEN t = Head(workers.ready)
            ELSE t \notin workers.executing /\ ~Contains(workers.pending, t)
         /\ workers' = PushBack(w, t)
         /\ task' = [task EXCEPT ![t] =
               IF HasRoom(w) THEN ScheduleCall(r, FALSE, kind) ELSE r]
         /\ op' = [op EXCEPT ![o] = t]
  BY Zenon DEF AsyncBegin
<1>3. /\ task \in [Tasks -> TaskType] /\ op \in [Operations -> Tasks \cup {None}]
      /\ workers \in WorkersType
  BY Typed DEF IInv
<1>4. /\ workers.pending \in Seq(Tasks) /\ Distinct(workers.pending)
      /\ workers.ready \in Seq(Tasks) /\ Distinct(workers.ready)
      /\ workers.executing \subseteq Tasks
  BY WorkersTyped
<1>5. /\ rest \in Seq(Tasks) /\ Distinct(rest) /\ ToSet(rest) = ToSet(workers.ready) \ {t}
      /\ ~task[t].assigned /\ t \notin workers.executing
      /\ t \notin ToSet(workers.pending)
  <2>1. CASE workers.ready = <<>>
    <3>1. rest = <<>> /\ ToSet(workers.ready) = {}
      BY <2>1, ListEmpty
    <3>2. t \notin workers.executing /\ t \notin ToSet(workers.pending)
      BY <1>2, <1>4, <2>1, ListTyped
    <3>3. ~task[t].assigned
      BY <1>1, <3>2 DEF IInv, ListsKnown
    <3> HIDE DEF rest
    <3> QED BY <3>1, <3>2, <3>3, ListEmpty
  <2>2. CASE workers.ready # <<>>
    <3>1. rest = Tail(workers.ready) /\ t = Head(workers.ready)
      BY <1>2, <2>2
    <3> HIDE DEF rest
    <3>2. /\ t \in ToSet(workers.ready) /\ rest \in Seq(Tasks) /\ Distinct(rest)
          /\ ToSet(rest) = ToSet(workers.ready) \ {t}
      BY <1>4, <2>2, <3>1, ListTail
    <3>3. ~task[t].assigned /\ t \notin workers.executing
      BY <3>2 DEF IInv, ListsKnown
    <3>4. t \notin ToSet(workers.pending)
      BY <3>3 DEF IInv, ListsKnown
    <3> QED BY <3>2, <3>3, <3>4
  <2> QED BY <2>1, <2>2
<1>6. /\ Quiet(task[t]) /\ exec[t].pc \notin {"call", "callback", "terminate"}
      /\ \A p \in Operations : ~Owns(p, t)
  BY <1>5 DEF IInv, TasksKnown, OwnersKnown
<1>7. /\ r \in TaskType /\ r.assigned /\ r.callback = c
      /\ ~r.stopped /\ ~r.cancelPending /\ Counted(r, FALSE, FALSE)
  BY NewTaskCounts
<1>8. w = [pending |-> workers.pending, executing |-> workers.executing, ready |-> rest]
  <2>1. w = [workers EXCEPT !.ready = rest]
    BY Zenon
  <2> HIDE DEF rest, w
  <2> QED BY <1>3, <1>5, <2>1 DEF WorkersType
<1> DEFINE s == IF HasRoom(w) THEN ScheduleCall(r, FALSE, kind) ELSE r
           executing == IF HasRoom(w) THEN workers.executing \cup {t}
                        ELSE workers.executing
           pending == IF HasRoom(w) THEN workers.pending ELSE Append(workers.pending, t)
<1> HIDE DEF r
<1>9. /\ s \in TaskType /\ s.assigned /\ s.callback = c
      /\ ~s.stopped /\ ~s.cancelPending /\ Counted(s, HasRoom(w), FALSE)
  <2>1. CASE HasRoom(w)
    <3>1. s = ScheduleCall(r, FALSE, kind) /\ HasRoom(w) = TRUE
      BY <2>1 DEF HasRoom
    <3>2. ScheduleCall(r, FALSE, kind) \in TaskType /\ SameCall(r, ScheduleCall(r, FALSE, kind))
      BY <1>7, ScheduleCallRecord
    <3>3. Counted(ScheduleCall(r, FALSE, kind), TRUE, FALSE)
      BY <1>7, ExecuteCounts
    <3> HIDE DEF s
    <3>4. Counted(s, HasRoom(w), FALSE)
      BY <3>1, <3>3
    <3> QED BY <1>7, <3>1, <3>2, <3>4 DEF SameCall
  <2>2. CASE ~HasRoom(w)
    <3>1. s = r /\ HasRoom(w) = FALSE
      BY <2>2 DEF HasRoom
    <3> HIDE DEF s
    <3>2. Counted(s, HasRoom(w), FALSE)
      BY <1>7, <3>1
    <3> QED BY <1>7, <3>1, <3>2
  <2> QED BY <2>1, <2>2
<1>10. workers' = [pending |-> pending, executing |-> executing, ready |-> rest]
  BY <1>2, <1>8 DEF PushBack
<1>11. /\ pending \in Seq(Tasks) /\ Distinct(pending)
       /\ ToSet(pending) = ToSet(workers.pending) \cup (IF HasRoom(w) THEN {} ELSE {t})
  BY <1>4, <1>5, ListAppend
<1>12. executing = workers.executing \cup (IF HasRoom(w) THEN {t} ELSE {})
  OBVIOUS
<1>13. task' = [task EXCEPT ![t] = s]
  BY <1>2
<1>b. HasRoom(w) \in BOOLEAN
  BY DEF HasRoom
<1> HIDE DEF s, executing, pending, rest, w
<1>14. /\ task' \in [Tasks -> TaskType] /\ task'[t] = s
       /\ \A u \in Tasks \ {t} : task'[u] = task[u]
  BY <1>3, <1>9, <1>13
<1>15. /\ workers'.pending = pending /\ workers'.executing = executing
       /\ workers'.ready = rest
  BY <1>10
<1>16. /\ owner' \in [Operations -> OwnerType]
       /\ owner'[o].stage = "waiting" /\ owner'[o].call = c
       /\ \A p \in Operations \ {o} : owner'[p] = owner[p]
       /\ call' \in [Calls -> CallType] /\ call'[c] = "requested"
       /\ \A d \in Calls \ {c} : call'[d] = call[d]
  BY <1>1, CallBegun
<1>17. /\ op' \in [Operations -> Tasks \cup {None}] /\ op'[o] = t
       /\ \A p \in Operations \ {o} : op'[p] = op[p]
  BY <1>2, <1>3
<1>18. TypeOK'
  <2>1. workers' \in WorkersType
    BY <1>4, <1>5, <1>10, <1>11, <1>12 DEF WorkersType
  <2> QED BY <1>1, <1>14, <1>16, <1>17, <2>1, Typed, TypedNext DEF IInv
<1>19. TasksKnown'
  <2> SUFFICES ASSUME NEW u \in Tasks
               PROVE  IF task'[u].assigned
                      THEN /\ Counted(task'[u], u \in workers'.executing, exec'[u].pc = "call")
                           /\ exec'[u].pc # "terminate"
                      ELSE /\ Quiet(task'[u])
                           /\ exec'[u].pc \notin {"call", "callback"}
                           /\ exec'[u].pc = "terminate" <=> u \in workers'.executing
    BY DEF TasksKnown
  <2>1. CASE u = t
    <3>1. (t \in workers'.executing) = HasRoom(w)
      BY <1>5, <1>12, <1>15, <1>b
    <3>2. (exec'[t].pc = "call") = FALSE
      BY <1>1, <1>6
    <3>3. Counted(task'[t], t \in workers'.executing, exec'[t].pc = "call")
      BY <1>9, <1>14, <3>1, <3>2
    <3> QED BY <1>1, <1>6, <1>9, <1>14, <2>1, <3>3
  <2>2. CASE u # t
    <3>1. task'[u] = task[u] /\ exec'[u] = exec[u]
      BY <1>1, <1>14, <2>2
    <3>2. (u \in workers'.executing) = (u \in workers.executing)
      BY <1>12, <1>15, <2>2
    <3> QED BY <3>1, <3>2 DEF IInv, TasksKnown
  <2> QED BY <2>1, <2>2
<1>20. ListsKnown'
  <2>1. ToSet(workers.pending) \subseteq Tasks /\ ToSet(workers.ready) \subseteq Tasks
    BY <1>4, ListTyped
  <2>2. Distinct(workers'.pending) /\ Distinct(workers'.ready)
    BY <1>5, <1>11, <1>15
  <2>3. \A u \in ToSet(workers'.pending) : task'[u].assigned /\ u \notin workers'.executing
    BY <1>5, <1>9, <1>11, <1>12, <1>14, <1>15, <2>1 DEF IInv, ListsKnown
  <2>4. \A u \in ToSet(workers'.ready) : ~task'[u].assigned /\ u \notin workers'.executing
    BY <1>5, <1>12, <1>14, <1>15, <2>1 DEF IInv, ListsKnown
  <2>5. \A u \in Tasks :
          task'[u].assigned => u \in workers'.executing \/ u \in ToSet(workers'.pending)
    <3> SUFFICES ASSUME NEW u \in Tasks, task'[u].assigned
                 PROVE  u \in workers'.executing \/ u \in ToSet(workers'.pending)
      OBVIOUS
    <3>1. CASE u = t
      BY <1>11, <1>12, <1>15, <3>1
    <3>2. CASE u # t
      <4>1. u \in workers.executing \/ u \in ToSet(workers.pending)
        BY <1>1, <1>14, <3>2 DEF IInv, ListsKnown
      <4> QED BY <1>11, <1>12, <1>15, <4>1
    <3> QED BY <3>1, <3>2
  <2> QED BY <2>2, <2>3, <2>4, <2>5 DEF ListsKnown
<1>21. OwnersKnown' /\ CallsKnown'
  <2>1. /\ task'[t].assigned /\ task'[t].callback = c /\ ~task'[t].stopped
        /\ ~task'[t].cancelPending
    BY <1>9, <1>14
  <2>2. task[t].callback = None /\ exec[t].pc # "call"
    BY <1>6 DEF Quiet
  <2>3. op[o] \in {None, t} /\ \A p \in Operations : Owns(p, t) => p = o
    BY <1>1, <1>6
  <2> QED BY <1>1, <1>14, <1>16, <1>17, <2>1, <2>2, <2>3, CallGiven
<1>22. DisposeKnown' /\ DisposedIsQuiet'
  BY <1>1 DEF DisposeKnown, DisposedIsQuiet
<1> QED BY <1>18, <1>19, <1>20, <1>21, <1>22 DEF IInv

(***************************************************************************)
(* resetState() of an operation that has no task.                          *)
(***************************************************************************)
LEMMA ResetWithoutTask ==
    ASSUME IInv, NEW o \in Operations, NEW end \in {"none", "cancelled"},
           op[o] = None, disposing = "no", owner[o].stage # "waiting",
           owner' = [owner EXCEPT ![o] = [stage |-> end, call |-> None, tail |-> "none"]],
           call' \in [Calls -> CallType], \A c \in Calls : call'[c] = call[c],
           UNCHANGED <<op, task, exec, workers, disposing>>
    PROVE  IInv'
<1> DEFINE x == [stage |-> end, call |-> None, tail |-> "none"]
<1>1. x \in OwnerType /\ x.stage = end
  BY DEF OwnerType
<1>2. owner \in [Operations -> OwnerType]
  BY Typed DEF IInv
<1>3. owner' = [owner EXCEPT ![o] = x]
  OBVIOUS
<1> HIDE DEF x
<1>4. /\ owner' \in [Operations -> OwnerType] /\ owner'[o].stage = end
      /\ \A p \in Operations \ {o} : owner'[p] = owner[p]
  BY <1>1, <1>2, <1>3
<1>5. TypeOK'
  BY <1>4, Typed, TypedNext DEF IInv
<1>6. TasksKnown' /\ ListsKnown'
  BY DEF IInv, TasksKnown, ListsKnown
<1>7. \A p \in Operations, u \in Tasks : Owns(p, u)' <=> Owns(p, u)
  <2> SUFFICES ASSUME NEW p \in Operations, NEW u \in Tasks PROVE Owns(p, u)' <=> Owns(p, u)
    OBVIOUS
  <2>1. CASE p = o
    BY <2>1, ConstantsAssumption DEF Owns
  <2>2. CASE p # o
    BY <1>4, <2>2 DEF Owns
  <2> QED BY <2>1, <2>2
<1>8. \A c, u : Holds(u, c)' <=> Holds(u, c)
  BY DEF Holds
<1>9. OwnersKnown'
  <2>1. ASSUME NEW p \in Operations
        PROVE  /\ owner'[p].stage \in {"none", "cancelled"} => op'[p] = None
               /\ owner'[p].stage \in {"waiting", "cancelling", "releasing"} => op'[p] \in Tasks
               /\ owner'[p].stage = "waiting" =>
                     /\ owner'[p].call \in Calls
                     /\ Holds(op[p], owner[p].call)
                     /\ owner'[p] = owner[p]
                     /\ call'[owner'[p].call] = "requested"
               /\ owner'[p].stage = "idle" /\ op'[p] # None =>
                     task'[op'[p]].callback = None /\ exec'[op'[p]].pc # "call"
    <3>1. CASE p = o
      BY <1>4, <3>1
    <3>2. CASE p # o
      BY <1>4, <3>2 DEF IInv, OwnersKnown
    <3> QED BY <3>1, <3>2
  <2>2. /\ \A u \in Tasks, p \in Operations :
             Owns(p, u)' => task'[u].assigned /\ ~task'[u].stopped /\ ~task'[u].cancelPending
        /\ \A u \in Tasks, p, q \in Operations : Owns(p, u)' /\ Owns(q, u)' => p = q
        /\ \A u \in Tasks :
             task'[u].assigned /\ ~task'[u].stopped /\ ~task'[u].cancelPending
                 => \E p \in Operations : Owns(p, u)'
    BY <1>7 DEF IInv, OwnersKnown
  <2> QED BY <2>1, <2>2 DEF OwnersKnown, Holds
<1>10. CallsKnown'
  <2>1. /\ \A u \in Tasks : exec'[u].pc = "call" => exec'[u].call \in Calls
        /\ \A u \in Tasks :
             exec'[u].pc = "call" /\ exec'[u].stopped => call'[exec'[u].call] = "cancelled"
    BY DEF IInv, CallsKnown
  <2>2. /\ \A u \in Tasks, d \in Calls : Holds(u, d)' => call'[d] \in {"requested", "cancelled"}
        /\ \A u, v \in Tasks, d \in Calls : Holds(u, d)' /\ Holds(v, d)' => u = v
        /\ \A d \in Calls :
             call'[d] \in {"requested", "cancelled"} => \E u \in Tasks : Holds(u, d)'
        /\ \A u \in Tasks, d \in Calls :
             task'[u].callback = d /\ (task'[u].stopped \/ task'[u].cancelPending)
                 => call'[d] = "cancelled"
    BY <1>8 DEF IInv, CallsKnown
  <2> QED BY <2>1, <2>2 DEF CallsKnown
<1>11. DisposeKnown' /\ DisposedIsQuiet'
  BY DEF DisposeKnown, DisposedIsQuiet
<1> QED BY <1>5, <1>6, <1>9, <1>10, <1>11 DEF IInv

(***************************************************************************)
(* resetState() of an operation that has a task: the task is told to stop, *)
(* or will be, and what the owner waits for is cancelled.                  *)
(***************************************************************************)
LEMMA ResetWithTask ==
    ASSUME IInv, NEW o \in Operations, NEW t \in Tasks,
           NEW stage \in {"cancelling", "releasing"},
           op[o] = t, disposing = "no", owner[o].stage \in {"idle", "waiting"},
           owner' \in [Operations -> OwnerType], owner'[o].stage = stage,
           \A p \in Operations \ {o} : owner'[p] = owner[p],
           task' = [task EXCEPT ![t] = RequestCancel(@)],
           call' \in [Calls -> CallType],
           \A c \in Calls : call'[c] = IF owner[o].stage = "waiting" /\ c = owner[o].call
                                       THEN "cancelled" ELSE call[c],
           UNCHANGED <<op, exec, workers, disposing>>
    PROVE  IInv'
<1> DEFINE s == RequestCancel(task[t])
<1>1. task \in [Tasks -> TaskType] /\ task[t] \in TaskType
  BY Typed DEF IInv
<1>2. /\ Owns(o, t) /\ task[t].assigned
      /\ \A p \in Operations : Owns(p, t) => p = o
  <2>1. Owns(o, t)
    BY DEF Owns
  <2> QED BY <2>1 DEF IInv, OwnersKnown
<1>3. Counted(task[t], t \in workers.executing, exec[t].pc = "call") /\ exec[t].pc # "terminate"
  BY <1>2 DEF IInv, TasksKnown
<1>4. /\ s \in TaskType /\ s.callback = task[t].callback /\ s.assigned = task[t].assigned
      /\ s.stopped \/ s.cancelPending
      /\ Counted(s, t \in workers.executing, exec[t].pc = "call")
  <2>1. (t \in workers.executing) \in BOOLEAN /\ (exec[t].pc = "call") \in BOOLEAN
    OBVIOUS
  <2> QED BY <1>1, <1>3, <2>1, RequestCancelCounts, Zenon
<1> HIDE DEF s
<1>5. /\ task' \in [Tasks -> TaskType] /\ task'[t] = s
      /\ \A u \in Tasks \ {t} : task'[u] = task[u]
  BY <1>1, <1>4 DEF s
<1>6. TypeOK'
  BY <1>5, Typed, TypedNext DEF IInv
<1>7. TasksKnown'
  BY <1>2, <1>3, <1>4, <1>5, TasksKept
<1>8. \A u \in Tasks : task'[u].assigned = task[u].assigned /\ task'[u].callback = task[u].callback
  BY <1>4, <1>5
<1>9. ListsKnown'
  BY <1>8, WorkersTyped, ListTyped DEF IInv, ListsKnown
<1>10. \A u \in Tasks : \A c : Holds(u, c)' <=> Holds(u, c)
  BY <1>8 DEF Holds
<1>11. \A p \in Operations, u \in Tasks : Owns(p, u)' <=> Owns(p, u) /\ p # o
  <2> SUFFICES ASSUME NEW p \in Operations, NEW u \in Tasks
               PROVE  Owns(p, u)' <=> Owns(p, u) /\ p # o
    OBVIOUS
  <2>1. CASE p = o
    BY <2>1 DEF Owns
  <2>2. CASE p # o
    BY <2>2 DEF Owns
  <2> QED BY <2>1, <2>2
<1>12. owner[o].stage = "waiting" => owner[o].call \in Calls /\ Holds(t, owner[o].call)
  BY DEF IInv, OwnersKnown
<1>13. OwnersKnown'
  <2>1. ASSUME NEW p \in Operations
        PROVE  /\ owner'[p].stage \in {"none", "cancelled"} => op'[p] = None
               /\ owner'[p].stage \in {"waiting", "cancelling", "releasing"} => op'[p] \in Tasks
               /\ owner'[p].stage = "waiting" =>
                     /\ owner'[p].call \in Calls
                     /\ \/ task'[op'[p]].callback = owner'[p].call
                        \/ exec'[op'[p]].pc = "call" /\ exec'[op'[p]].call = owner'[p].call
                     /\ call'[owner'[p].call] = "requested"
               /\ owner'[p].stage = "idle" /\ op'[p] # None =>
                     task'[op'[p]].callback = None /\ exec'[op'[p]].pc # "call"
    <3>1. CASE p = o
      BY <3>1
    <3>2. CASE p # o
      <4>1. owner'[p] = owner[p] /\ op'[p] = op[p]
        BY <3>2
      <4>2. op[p] \in Tasks \cup {None}
        BY Typed DEF IInv
      <4>3. /\ owner[p].stage \in {"none", "cancelled"} => op[p] = None
            /\ owner[p].stage \in {"waiting", "cancelling", "releasing"} => op[p] \in Tasks
            /\ owner[p].stage = "waiting" =>
                  /\ owner[p].call \in Calls
                  /\ \/ task[op[p]].callback = owner[p].call
                     \/ exec[op[p]].pc = "call" /\ exec[op[p]].call = owner[p].call
                  /\ call[owner[p].call] = "requested"
            /\ owner[p].stage = "idle" /\ op[p] # None =>
                  task[op[p]].callback = None /\ exec[op[p]].pc # "call"
        BY DEF IInv, OwnersKnown, Holds
      <4>4. owner[p].stage \in {"idle", "waiting"} => op[p] # t
        BY <1>2, <3>2 DEF Owns
      <4>5. owner[p].stage \in {"idle", "waiting"} /\ op[p] # None => task'[op[p]] = task[op[p]]
        BY <1>5, <4>2, <4>4
      <4>6. owner[p].stage = "waiting" => op[p] # None
        BY <4>3, ConstantsAssumption
      <4>7. owner[p].stage = "waiting" => call'[owner[p].call] = "requested"
        <5> SUFFICES ASSUME owner[p].stage = "waiting" PROVE call'[owner[p].call] = "requested"
          OBVIOUS
        <5>1. Holds(op[p], owner[p].call) /\ op[p] \in Tasks /\ owner[p].call \in Calls
          BY <4>3 DEF Holds
        <5>2. owner[o].stage = "waiting" => owner[p].call # owner[o].call
          BY <1>12, <4>4, <5>1 DEF IInv, CallsKnown
        <5> QED BY <4>3, <5>1, <5>2
      <4> QED BY <4>1, <4>3, <4>5, <4>6, <4>7
    <3> QED BY <3>1, <3>2
  <2>2. /\ \A u \in Tasks, p \in Operations :
             Owns(p, u)' => task'[u].assigned /\ ~task'[u].stopped /\ ~task'[u].cancelPending
        /\ \A u \in Tasks, p, q \in Operations : Owns(p, u)' /\ Owns(q, u)' => p = q
    BY <1>2, <1>5, <1>11 DEF IInv, OwnersKnown
  <2>3. \A u \in Tasks :
             task'[u].assigned /\ ~task'[u].stopped /\ ~task'[u].cancelPending
                 => \E p \in Operations : Owns(p, u)'
    <3> SUFFICES ASSUME NEW u \in Tasks, task'[u].assigned, ~task'[u].stopped,
                        ~task'[u].cancelPending
                 PROVE  \E p \in Operations : Owns(p, u)'
      OBVIOUS
    <3>1. u # t
      BY <1>4, <1>5
    <3>2. PICK p \in Operations : Owns(p, u)
      BY <1>5, <3>1 DEF IInv, OwnersKnown
    <3>3. p # o
      BY <3>1, <3>2 DEF Owns
    <3> QED BY <1>11, <3>2, <3>3
  <2> QED BY <2>1, <2>2, <2>3 DEF OwnersKnown, Holds
<1>14. CallsKnown'
  <2>1. \A u \in Tasks : exec'[u].pc = "call" => exec'[u].call \in Calls
    BY DEF IInv, CallsKnown
  <2>2. \A u \in Tasks, d \in Calls : Holds(u, d)' => call'[d] \in {"requested", "cancelled"}
    BY <1>10 DEF IInv, CallsKnown
  <2>3. \A u, v \in Tasks, d \in Calls : Holds(u, d)' /\ Holds(v, d)' => u = v
    BY <1>10 DEF IInv, CallsKnown
  <2>4. \A d \in Calls : call'[d] \in {"requested", "cancelled"} => \E u \in Tasks : Holds(u, d)'
    BY <1>10, <1>12 DEF IInv, CallsKnown
  <2>5. \A u \in Tasks, d \in Calls :
          task'[u].callback = d /\ (task'[u].stopped \/ task'[u].cancelPending)
              => call'[d] = "cancelled"
    <3> SUFFICES ASSUME NEW u \in Tasks, NEW d \in Calls, task'[u].callback = d,
                        task'[u].stopped \/ task'[u].cancelPending
                 PROVE  call'[d] = "cancelled"
      OBVIOUS
    <3>1. CASE u = t
      <4>1. task[t].callback = d /\ d # None
        BY <1>8, <3>1, ConstantsAssumption
      <4>2. exec[t].pc # "call"
        BY <1>3, <4>1 DEF Counted
      <4>3. owner[o].stage = "waiting"
        BY <4>1, ConstantsAssumption DEF IInv, OwnersKnown
      <4>4. owner[o].call = d
        BY <1>12, <4>1, <4>2, <4>3 DEF Holds
      <4> QED BY <4>3, <4>4
    <3>2. CASE u # t
      BY <1>5, <3>2 DEF IInv, CallsKnown
    <3> QED BY <3>1, <3>2
  <2>6. \A u \in Tasks :
          exec'[u].pc = "call" /\ exec'[u].stopped => call'[exec'[u].call] = "cancelled"
    <3> SUFFICES ASSUME NEW u \in Tasks, exec[u].pc = "call", exec[u].stopped
                 PROVE  call'[exec[u].call] = "cancelled"
      OBVIOUS
    <3>1. exec[u].call \in Calls /\ call[exec[u].call] = "cancelled"
      BY DEF IInv, CallsKnown
    <3> QED BY <3>1
  <2> QED BY <2>1, <2>2, <2>3, <2>4, <2>5, <2>6 DEF CallsKnown
<1>15. DisposeKnown' /\ DisposedIsQuiet'
  BY DEF DisposeKnown, DisposedIsQuiet
<1> QED BY <1>6, <1>7, <1>9, <1>13, <1>14, <1>15 DEF IInv

LEMMA ResetInvariant ==
    ASSUME IInv, NEW o \in Operations, NEW stage \in {"cancelling", "releasing"},
           NEW end \in {"none", "cancelled"}, ResetState(o, stage, end),
           disposing = "no", owner[o].stage \in {"idle", "waiting", "cancelled"},
           call' \in [Calls -> CallType],
           \A c \in Calls : call'[c] = IF owner[o].stage = "waiting" /\ c = owner[o].call
                                       THEN "cancelled" ELSE call[c],
           UNCHANGED <<op, exec, workers, disposing>>
    PROVE  IInv'
<1>1. owner \in [Operations -> OwnerType] /\ op[o] \in Tasks \cup {None}
  BY Typed DEF IInv
<1>2. CASE op[o] = None
  <2>1. /\ owner' = [owner EXCEPT ![o] = [stage |-> end, call |-> None, tail |-> "none"]]
        /\ task' = task
    BY <1>2 DEF ResetState
  <2>2. owner[o].stage # "waiting"
    BY <1>2, ConstantsAssumption DEF IInv, OwnersKnown
  <2> QED BY <1>2, <2>1, <2>2, ResetWithoutTask
<1>3. CASE op[o] # None
  <2> DEFINE t == op[o]
             tail == IF task[t].stopped THEN "none"
                     ELSE IF task[t].opTask # "none" THEN "cancelTask" ELSE "prioritize"
             x == [owner[o] EXCEPT !.stage = stage, !.tail = tail]
  <2>1. t \in Tasks /\ owner[o].stage \in {"idle", "waiting"}
    BY <1>1, <1>3 DEF IInv, OwnersKnown
  <2>2. /\ owner' = [owner EXCEPT ![o].stage = stage, ![o].tail = tail]
        /\ task' = [task EXCEPT ![t] = RequestCancel(@)]
    BY <1>3 DEF ResetState
  <2>3. tail \in {"none", "cancelTask", "prioritize"}
    OBVIOUS
  <2> HIDE DEF tail
  <2>4. owner' = [owner EXCEPT ![o] = x]
    BY <1>1, <2>2
  <2>5. x \in OwnerType /\ x.stage = stage
    BY <1>1, <2>3 DEF OwnerType
  <2> HIDE DEF x
  <2>6. /\ owner' \in [Operations -> OwnerType] /\ owner'[o].stage = stage
        /\ \A p \in Operations \ {o} : owner'[p] = owner[p]
    BY <1>1, <2>4, <2>5
  <2>7. op[o] = t
    OBVIOUS
  <2> HIDE DEF t
  <2> QED BY <2>1, <2>2, <2>6, <2>7, ResetWithTask
<1> QED BY <1>2, <1>3

LEMMA CancelOperationInvariant ==
    ASSUME IInv, NEW o \in Operations, CancelOperation(o) PROVE IInv'
<1>1. /\ owner[o].stage \in {"idle", "waiting"}
      /\ ResetState(o, "cancelling", "cancelled")
      /\ call' = [c \in Calls |->
            IF owner[o].stage = "waiting" /\ c = owner[o].call THEN "cancelled" ELSE call[c]]
      /\ UNCHANGED <<op, exec, workers, disposing>>
  BY DEF CancelOperation
<1>2. disposing = "no"
  BY <1>1, NotDisposing
<1>3. call \in [Calls -> CallType]
  BY Typed DEF IInv
<1>4. call' \in [Calls -> CallType]
  BY <1>1, <1>3 DEF CallType
<1>5. \A c \in Calls : call'[c] = IF owner[o].stage = "waiting" /\ c = owner[o].call
                                  THEN "cancelled" ELSE call[c]
  BY <1>1
<1> QED BY <1>1, <1>2, <1>4, <1>5, ResetInvariant

LEMMA ReleaseOperationInvariant ==
    ASSUME IInv, NEW o \in Operations, ReleaseOperation(o) PROVE IInv'
<1>1. /\ owner[o].stage \in {"idle", "cancelled"} /\ disposing = "no"
      /\ ResetState(o, "releasing", "none")
      /\ UNCHANGED <<op, exec, workers, call, disposing>>
  BY DEF ReleaseOperation, ExecutorLockFree
<1>2. call' \in [Calls -> CallType]
  BY <1>1, Typed DEF IInv
<1>3. \A c \in Calls : call'[c] = IF owner[o].stage = "waiting" /\ c = owner[o].call
                                  THEN "cancelled" ELSE call[c]
  BY <1>1
<1> QED BY <1>1, <1>2, <1>3, ResetInvariant

(***************************************************************************)
(* The rest of resetState() leaves the task to end by itself: nobody owns  *)
(* it any more.                                                            *)
(***************************************************************************)
LEMMA EndResetInvariant ==
    ASSUME IInv, NEW o \in Operations, EndReset(o) PROVE IInv'
<1> DEFINE t == op[o]
           end == IF owner[o].stage = "cancelling" THEN "cancelled" ELSE "none"
           x == [stage |-> end, call |-> None, tail |-> "none"]
<1>1. /\ owner[o].stage \in {"cancelling", "releasing"}
      /\ \/ task[t].opTask = "running" /\ task' = [task EXCEPT ![t].opTask = "cancelled"]
         \/ task' = task
      /\ \/ UNCHANGED workers
         \/ \E i \in DOMAIN workers.pending :
               /\ workers.pending[i] = t
               /\ workers' = [workers EXCEPT !.pending = <<t>> \o RemoveAt(@, i)]
      /\ op' = [op EXCEPT ![o] = None]
      /\ UNCHANGED <<exec, call, disposing>>
  BY DEF EndReset
<1>2. owner' = [owner EXCEPT ![o] = x]
  BY Zenon DEF EndReset
<1>3. /\ task \in [Tasks -> TaskType] /\ owner \in [Operations -> OwnerType]
      /\ op \in [Operations -> Tasks \cup {None}] /\ workers \in WorkersType
      /\ t \in Tasks /\ disposing = "no"
  BY <1>1, Typed, NotDisposing DEF IInv, OwnersKnown
<1>4. end \in {"cancelled", "none"}
  OBVIOUS
<1> HIDE DEF end
<1>5. x \in OwnerType /\ x.stage = end
  BY <1>4 DEF OwnerType
<1> HIDE DEF x
<1>6. /\ owner' \in [Operations -> OwnerType] /\ owner'[o].stage = end
      /\ \A p \in Operations \ {o} : owner'[p] = owner[p]
      /\ op' \in [Operations -> Tasks \cup {None}] /\ op'[o] = None
      /\ \A p \in Operations \ {o} : op'[p] = op[p]
  BY <1>1, <1>2, <1>3, <1>5
<1> HIDE DEF t
<1>7. /\ task' \in [Tasks -> TaskType]
      /\ \A u \in Tasks \ {t} : task'[u] = task[u]
      /\ \/ task'[t] = task[t]
         \/ /\ task[t].opTask = "running" /\ task'[t].opTask = "cancelled"
            /\ SameCall(task[t], task'[t]) /\ task'[t].posted = task[t].posted
            /\ task'[t].callsExpected = task[t].callsExpected
            /\ task'[t].remaining = task[t].remaining
            /\ task'[t].newCall = task[t].newCall
  <2>1. CASE task' = task
    BY <1>3, <2>1
  <2>2. CASE task[t].opTask = "running" /\ task' = [task EXCEPT ![t].opTask = "cancelled"]
    <3>1. PICK r \in TaskType : r = task[t]
      BY <1>3
    <3> DEFINE s == [r EXCEPT !.opTask = "cancelled"]
    <3>2. task' = [task EXCEPT ![t] = s]
      BY <2>2, <3>1
    <3>3. /\ s \in TaskType /\ s.opTask = "cancelled" /\ SameCall(r, s)
          /\ s.posted = r.posted /\ s.callsExpected = r.callsExpected
          /\ s.remaining = r.remaining /\ s.newCall = r.newCall
      BY DEF TaskType, SameCall
    <3> HIDE DEF s
    <3> QED BY <1>3, <2>2, <3>1, <3>2, <3>3
  <2> QED BY <1>1, <2>1, <2>2
<1>8. \A u \in Tasks : SameCall(task[u], task'[u])
  BY <1>7 DEF SameCall
<1>9. /\ workers' \in WorkersType /\ workers'.executing = workers.executing
      /\ workers'.ready = workers.ready /\ Distinct(workers'.pending)
      /\ ToSet(workers'.pending) = ToSet(workers.pending)
  <2>1. CASE workers' = workers
    BY <1>3, <2>1, WorkersTyped
  <2>2. CASE workers' # workers
    <3>1. PICK i \in DOMAIN workers.pending :
             /\ workers.pending[i] = t
             /\ workers' = [workers EXCEPT !.pending = <<t>> \o RemoveAt(@, i)]
      BY <1>1, <2>2
    <3> DEFINE s == workers.pending
               m == <<t>> \o RemoveAt(s, i)
    <3>2. s \in Seq(Tasks) /\ Distinct(s) /\ i \in DOMAIN s /\ s[i] = t
      BY <3>1, WorkersTyped
    <3>3. workers' = [workers EXCEPT !.pending = m]
      BY <3>1
    <3>4. m = <<s[i]>> \o RemoveAt(s, i)
      BY <3>2
    <3> HIDE DEF s, m
    <3>5. m \in Seq(Tasks) /\ Distinct(m) /\ ToSet(m) = ToSet(s)
      BY <3>2, <3>4, ListToFront
    <3>6. /\ workers' \in WorkersType /\ workers'.executing = workers.executing
          /\ workers'.ready = workers.ready /\ workers'.pending = m
      BY <1>3, <3>3, <3>5 DEF WorkersType
    <3> QED BY <3>5, <3>6 DEF s
  <2> QED BY <2>1, <2>2
<1>10. TypeOK'
  BY <1>1, <1>6, <1>7, <1>9, Typed, TypedNext DEF IInv
<1>11. TasksKnown'
  <2> SUFFICES ASSUME NEW u \in Tasks
               PROVE  IF task'[u].assigned
                      THEN /\ Counted(task'[u], u \in workers.executing, exec[u].pc = "call")
                           /\ exec[u].pc # "terminate"
                      ELSE /\ Quiet(task'[u])
                           /\ exec[u].pc \notin {"call", "callback"}
                           /\ exec[u].pc = "terminate" <=> u \in workers.executing
    BY <1>1, <1>9 DEF TasksKnown
  <2>1. CASE task'[u] = task[u]
    BY <2>1 DEF IInv, TasksKnown
  <2>2. CASE task'[u] # task[u]
    <3>1. /\ task[u].opTask = "running" /\ task'[u].opTask = "cancelled"
          /\ SameCall(task[u], task'[u]) /\ task'[u].posted = task[u].posted
          /\ task'[u].callsExpected = task[u].callsExpected
          /\ task'[u].remaining = task[u].remaining
          /\ task'[u].newCall = task[u].newCall
      BY <1>7, <2>2
    <3>2. task[u].assigned
      BY <3>1 DEF IInv, TasksKnown, Quiet
    <3>3. Counted(task[u], u \in workers.executing, exec[u].pc = "call")
          /\ exec[u].pc # "terminate"
      BY <3>2 DEF IInv, TasksKnown
    <3>4. Counted(task'[u], u \in workers.executing, exec[u].pc = "call")
      BY <3>1, <3>3 DEF Counted, SameCall, CallDue, TaskActive
    <3> QED BY <3>1, <3>2, <3>3, <3>4 DEF SameCall
  <2> QED BY <2>1, <2>2
<1>12. ListsKnown'
  <2>1. \A u \in Tasks : task'[u].assigned = task[u].assigned
    BY <1>8 DEF SameCall
  <2> QED BY <1>1, <1>9, <2>1, WorkersTyped, ListTyped DEF IInv, ListsKnown
<1>13. \A c, u : u \in Tasks => (Holds(u, c)' <=> Holds(u, c))
  BY <1>1, <1>8 DEF Holds, SameCall
<1>14. \A p \in Operations, u \in Tasks : Owns(p, u)' <=> Owns(p, u)
  <2> SUFFICES ASSUME NEW p \in Operations, NEW u \in Tasks PROVE Owns(p, u)' <=> Owns(p, u)
    OBVIOUS
  <2>1. CASE p = o
    BY <1>1, <1>4, <1>6, <2>1 DEF Owns
  <2>2. CASE p # o
    BY <1>6, <2>2 DEF Owns
  <2> QED BY <2>1, <2>2
<1>15. OwnersKnown'
  <2>1. ASSUME NEW p \in Operations
        PROVE  /\ owner'[p].stage \in {"none", "cancelled"} => op'[p] = None
               /\ owner'[p].stage \in {"waiting", "cancelling", "releasing"} => op'[p] \in Tasks
               /\ owner'[p].stage = "waiting" =>
                     /\ owner'[p].call \in Calls
                     /\ \/ task'[op'[p]].callback = owner'[p].call
                        \/ exec'[op'[p]].pc = "call" /\ exec'[op'[p]].call = owner'[p].call
                     /\ call'[owner'[p].call] = "requested"
               /\ owner'[p].stage = "idle" /\ op'[p] # None =>
                     task'[op'[p]].callback = None /\ exec'[op'[p]].pc # "call"
    <3>1. CASE p = o
      BY <1>4, <1>6, <3>1
    <3>2. CASE p # o
      <4>1. owner'[p] = owner[p] /\ op'[p] = op[p]
        BY <1>6, <3>2
      <4>2. op[p] \in Tasks \cup {None}
        BY <1>3
      <4>3. /\ owner[p].stage \in {"none", "cancelled"} => op[p] = None
            /\ owner[p].stage \in {"waiting", "cancelling", "releasing"} => op[p] \in Tasks
            /\ owner[p].stage = "waiting" =>
                  /\ owner[p].call \in Calls
                  /\ \/ task[op[p]].callback = owner[p].call
                     \/ exec[op[p]].pc = "call" /\ exec[op[p]].call = owner[p].call
                  /\ call[owner[p].call] = "requested"
            /\ owner[p].stage = "idle" /\ op[p] # None =>
                  task[op[p]].callback = None /\ exec[op[p]].pc # "call"
        BY DEF IInv, OwnersKnown, Holds
      <4>4. op[p] # None => task'[op[p]].callback = task[op[p]].callback
        BY <1>8, <4>2 DEF SameCall
      <4>5. owner[p].stage = "waiting" => op[p] # None
        BY <4>3, ConstantsAssumption
      <4> QED BY <1>1, <4>1, <4>3, <4>4, <4>5
    <3> QED BY <3>1, <3>2
  <2>2. /\ \A u \in Tasks, p \in Operations :
             Owns(p, u)' => task'[u].assigned /\ ~task'[u].stopped /\ ~task'[u].cancelPending
        /\ \A u \in Tasks, p, q \in Operations : Owns(p, u)' /\ Owns(q, u)' => p = q
        /\ \A u \in Tasks :
             task'[u].assigned /\ ~task'[u].stopped /\ ~task'[u].cancelPending
                 => \E p \in Operations : Owns(p, u)'
    BY <1>8, <1>14 DEF IInv, OwnersKnown, SameCall
  <2> QED BY <2>1, <2>2 DEF OwnersKnown, Holds
<1>16. CallsKnown'
  <2>1. /\ \A u \in Tasks : exec'[u].pc = "call" => exec'[u].call \in Calls
        /\ \A u \in Tasks :
             exec'[u].pc = "call" /\ exec'[u].stopped => call'[exec'[u].call] = "cancelled"
    BY <1>1 DEF IInv, CallsKnown
  <2>2. /\ \A u \in Tasks, d \in Calls : Holds(u, d)' => call'[d] \in {"requested", "cancelled"}
        /\ \A u, v \in Tasks, d \in Calls : Holds(u, d)' /\ Holds(v, d)' => u = v
        /\ \A d \in Calls :
             call'[d] \in {"requested", "cancelled"} => \E u \in Tasks : Holds(u, d)'
    BY <1>1, <1>13 DEF IInv, CallsKnown
  <2>3. \A u \in Tasks, d \in Calls :
             task'[u].callback = d /\ (task'[u].stopped \/ task'[u].cancelPending)
                 => call'[d] = "cancelled"
    BY <1>1, <1>8 DEF IInv, CallsKnown, SameCall
  <2> QED BY <2>1, <2>2, <2>3 DEF CallsKnown
<1>17. DisposeKnown' /\ DisposedIsQuiet'
  BY <1>1, <1>3 DEF DisposeKnown, DisposedIsQuiet
<1> QED BY <1>10, <1>11, <1>12, <1>15, <1>16, <1>17 DEF IInv

-----------------------------------------------------------------------------
(* dispose()                                                               *)

LEMMA DisposeInvariant ==
    ASSUME IInv, Dispose PROVE IInv'
<1>1. /\ \A o \in Operations : owner[o].stage \in {"none", "cancelled"}
      /\ disposing' = "flushing"
      /\ workers' = [workers EXCEPT !.pending = <<>>]
      /\ UNCHANGED <<owner, op, task, exec, call>>
  BY DEF Dispose
<1>2. workers \in WorkersType
  BY Typed DEF IInv
<1>3. /\ workers' \in WorkersType /\ workers'.pending = <<>>
      /\ workers'.executing = workers.executing /\ workers'.ready = workers.ready
  <2>1. PICK s \in Seq(Tasks) : s = <<>>
    BY ListEmpty
  <2>2. workers' = [workers EXCEPT !.pending = s]
    BY <1>1, <2>1
  <2> QED BY <1>2, <2>1, <2>2 DEF WorkersType
<1>4. TypeOK'
  BY <1>1, <1>3, Typed, TypedNext DEF IInv
<1>5. TasksKnown'
  BY <1>1, <1>3 DEF IInv, TasksKnown
<1>6. ListsKnown'
  BY <1>1, <1>3, ListEmpty DEF IInv, ListsKnown
<1>7. OwnersKnown' /\ CallsKnown'
  <2>1. UNCHANGED <<owner, op, task, exec, call>>
    BY <1>1
  <2>2. \A t \in Tasks : SameCall(task[t], task'[t])
    BY <2>1 DEF SameCall
  <2> QED BY <2>1, <2>2, CallsKept
<1>8. DisposeKnown' /\ DisposedIsQuiet'
  BY <1>1 DEF DisposeKnown, DisposedIsQuiet
<1> QED BY <1>4, <1>5, <1>6, <1>7, <1>8 DEF IInv

(***************************************************************************)
(* A call that were still unanswered would be held by a task that has      *)
(* nothing posted and no place; its terminating call was never posted, so  *)
(* an operation that is still in use would own it, and there is none.      *)
(***************************************************************************)
LEMMA DisposeEndsInvariant ==
    ASSUME IInv, DisposeEnds PROVE IInv'
<1>1. /\ disposing = "flushing" /\ disposing' = "done"
      /\ workers.executing = {}
      /\ \A t \in Tasks : task[t].posted = 0 /\ exec[t].pc = "free"
      /\ workers' = [workers EXCEPT !.ready = <<>>]
      /\ UNCHANGED <<owner, op, task, exec, call>>
  BY DEF DisposeEnds
<1>2. workers \in WorkersType /\ task \in [Tasks -> TaskType]
  BY Typed DEF IInv
<1>3. /\ workers' \in WorkersType /\ workers'.pending = workers.pending
      /\ workers'.executing = workers.executing /\ workers'.ready = <<>>
  <2>1. PICK s \in Seq(Tasks) : s = <<>>
    BY ListEmpty
  <2>2. workers' = [workers EXCEPT !.ready = s]
    BY <1>1, <2>1
  <2> QED BY <1>2, <2>1, <2>2 DEF WorkersType
<1>4. TypeOK'
  BY <1>1, <1>3, Typed, TypedNext DEF IInv
<1>5. TasksKnown'
  BY <1>1, <1>3 DEF IInv, TasksKnown
<1>6. ListsKnown'
  BY <1>1, <1>3, ListEmpty DEF IInv, ListsKnown
<1>7. OwnersKnown' /\ CallsKnown'
  <2>1. UNCHANGED <<owner, op, task, exec, call>>
    BY <1>1
  <2>2. \A t \in Tasks : SameCall(task[t], task'[t])
    BY <2>1 DEF SameCall
  <2> QED BY <2>1, <2>2, CallsKept
<1>8. DisposeKnown'
  BY <1>1, <1>3 DEF IInv, DisposeKnown
<1>9. ASSUME NEW c \in Calls, call[c] \in {"requested", "cancelled"} PROVE FALSE
  <2>1. PICK t \in Tasks : Holds(t, c)
    BY <1>9 DEF IInv, CallsKnown
  <2>2. task[t].callback = c /\ c # None
    BY <1>1, <2>1, ConstantsAssumption DEF Holds
  <2>3. task[t].assigned
    BY <2>2 DEF IInv, TasksKnown, Quiet
  <2>4. Counted(task[t], FALSE, FALSE)
    <3>1. (t \in workers.executing) = FALSE /\ (exec[t].pc = "call") = FALSE
      BY <1>1
    <3>2. Counted(task[t], t \in workers.executing, exec[t].pc = "call")
      BY <2>3 DEF IInv, TasksKnown
    <3> QED BY <3>1, <3>2
  <2>5. task[t].opTask = "none" /\ ~task[t].cancelPending
    BY <2>4 DEF Counted
  <2>6. ~task[t].stopped
    <3>1. task[t].posted = 0 /\ task[t].callsExpected \in Nat /\ task[t].stopped \in BOOLEAN
      BY <1>1, <1>2 DEF TaskType
    <3>2. CallDue(task[t]) /\ ~TaskActive(task[t])
      BY <2>2, <2>5 DEF CallDue, TaskActive
    <3>3. task[t].callsExpected = 2
      BY <2>4, <3>2 DEF Counted, Count
    <3>4. task[t].callsExpected = task[t].posted + 1 + Count(~task[t].stopped)
      BY <2>4, <3>1, <3>2 DEF Counted, Count
    <3> QED BY <3>1, <3>3, <3>4 DEF Count
  <2>7. PICK o \in Operations : Owns(o, t)
    BY <2>3, <2>5, <2>6 DEF IInv, OwnersKnown
  <2>8. owner[o].stage \in {"none", "cancelled"}
    BY <1>1 DEF IInv, DisposeKnown
  <2> QED BY <2>7, <2>8 DEF Owns
<1>10. DisposedIsQuiet'
  BY <1>1, <1>9 DEF DisposedIsQuiet
<1> QED BY <1>4, <1>5, <1>6, <1>7, <1>8, <1>10 DEF IInv

-----------------------------------------------------------------------------
(* The specification.                                                      *)

LEMMA InitInvariant ==
    ASSUME Init PROVE IInv
<1>1. /\ \A o \in Operations : owner[o].stage = "none" /\ op[o] = None
      /\ \A t \in Tasks : task[t] = ResetTask /\ exec[t] = NoExec
      /\ workers = [pending |-> <<>>, executing |-> {}, ready |-> <<>>]
      /\ \A c \in Calls : call[c] = "none"
      /\ disposing = "no"
  BY DEF Init
<1>2. /\ ResetTask \in TaskType /\ ~ResetTask.assigned /\ ResetTask.posted = 0
      /\ ResetTask.opTask = "none" /\ ResetTask.callback = None
  BY DEF ResetTask, TaskType
<1>3. NoExec \in ExecType /\ NoExec.pc = "free"
  BY DEF NoExec, ExecType
<1>4. TypeOK
  <2>1. owner \in [Operations -> OwnerType]
    BY DEF Init, OwnerType
  <2>2. task \in [Tasks -> TaskType] /\ exec \in [Tasks -> ExecType]
    BY <1>2, <1>3 DEF Init
  <2>3. workers \in WorkersType
    BY <1>1 DEF WorkersType
  <2>4. call \in [Calls -> CallType] /\ op \in [Operations -> Tasks \cup {None}]
    BY DEF Init, CallType
  <2> QED BY <1>1, <2>1, <2>2, <2>3, <2>4, Typed
<1>5. TasksKnown
  BY <1>1, <1>2, <1>3 DEF TasksKnown, Quiet
<1>6. ListsKnown
  BY <1>1, <1>2, ListEmpty DEF ListsKnown
<1>7. \A t \in Tasks, c \in Calls : ~Holds(t, c)
  BY <1>1, <1>2, <1>3, ConstantsAssumption DEF Holds
<1>8. OwnersKnown
  BY <1>1, <1>2 DEF OwnersKnown, Owns
<1>9. CallsKnown
  BY <1>1, <1>2, <1>3, <1>7, ConstantsAssumption DEF CallsKnown
<1>10. DisposeKnown /\ DisposedIsQuiet
  BY <1>1 DEF DisposeKnown, DisposedIsQuiet
<1> QED BY <1>4, <1>5, <1>6, <1>8, <1>9, <1>10 DEF IInv

LEMMA StutterInvariant ==
    ASSUME IInv, UNCHANGED vars PROVE IInv'
<1>1. UNCHANGED <<owner, op, task, exec, workers, call, disposing>>
  BY DEF vars
<1>2. TypeOK'
  BY <1>1, Typed, TypedNext DEF IInv
<1>3. TasksKnown' /\ ListsKnown'
  BY <1>1 DEF IInv, TasksKnown, ListsKnown
<1>4. OwnersKnown' /\ CallsKnown'
  <2>1. \A t \in Tasks : SameCall(task[t], task'[t])
    BY <1>1 DEF SameCall
  <2> QED BY <1>1, <2>1, CallsKept
<1>5. DisposeKnown' /\ DisposedIsQuiet'
  BY <1>1 DEF IInv, DisposeKnown, DisposedIsQuiet
<1> QED BY <1>2, <1>3, <1>4, <1>5 DEF IInv

LEMMA NextInvariant ==
    ASSUME IInv, [Next]_vars PROVE IInv'
<1>1. ASSUME NEW o \in Operations,
             \/ CreateOperation(o)
             \/ \E c \in Calls, k \in Kinds : AsyncBegin(o, c, k) \/ AsyncBeginAgain(o, c, k)
             \/ CancelOperation(o)
             \/ ReleaseOperation(o)
             \/ EndReset(o)
      PROVE  IInv'
  BY <1>1, CreateOperationInvariant, AsyncBeginInvariant, AsyncBeginAgainInvariant,
     CancelOperationInvariant, ReleaseOperationInvariant, EndResetInvariant
<1>2. ASSUME NEW t \in Tasks,
             ContinueOperationTask(t) \/ OnOperationTaskReady(t) \/ ExecuteStep(t)
      PROVE  IInv'
  BY <1>2, ContinueOperationTaskInvariant, OnOperationTaskReadyInvariant, OnExecuteInvariant, CallBackInvariant,
     ReturnFromExecuteInvariant, TerminateInvariant DEF ExecuteStep
<1> QED BY <1>1, <1>2, DisposeInvariant, DisposeEndsInvariant, StutterInvariant DEF Next

LEMMA Invariant == Spec => []IInv
<1>1. Init => IInv
  BY InitInvariant
<1>2. IInv /\ [Next]_vars => IInv'
  BY NextInvariant
<1> QED BY <1>1, <1>2, PTL DEF Spec

(***************************************************************************)
(* The variables keep their types.                                         *)
(***************************************************************************)
THEOREM TypeCorrect == Spec => []TypeOK
<1>1. IInv => TypeOK
  BY DEF IInv
<1> QED BY <1>1, Invariant, PTL

(***************************************************************************)
(* The terminating call is the last of a task: what is in the ready queue, *)
(* from where asyncBegin() takes it, has nothing posted for it.            *)
(***************************************************************************)
THEOREM ReadyCorrect == Spec => []ReadyTaskIsIdle
<1>1. ASSUME IInv PROVE ReadyTaskIsIdle
  <2> SUFFICES ASSUME NEW t \in ToSet(workers.ready)
               PROVE  /\ task[t].posted = 0 /\ task[t].opTask = "none"
                      /\ task[t].callback = None /\ ~task[t].assigned
                      /\ exec[t].pc \in {"leave", "free"}
                      /\ \A o \in Operations :
                            op[o] = t => owner[o].stage \in {"cancelling", "releasing"}
    BY DEF ReadyTaskIsIdle
  <2>1. t \in Tasks /\ ~task[t].assigned /\ t \notin workers.executing
    BY <1>1, WorkersTyped, ListTyped DEF IInv, ListsKnown
  <2>2. Quiet(task[t]) /\ exec[t].pc \notin {"call", "callback", "terminate"}
    BY <1>1, <2>1 DEF IInv, TasksKnown
  <2>3. exec[t] \in ExecType
    BY <1>1, <2>1, Typed DEF IInv
  <2>4. ASSUME NEW o \in Operations, op[o] = t
        PROVE  owner[o].stage \in {"cancelling", "releasing"}
    <3>1. ~Owns(o, t)
      BY <1>1, <2>1 DEF IInv, OwnersKnown
    <3>2. owner[o].stage \notin {"none", "cancelled"}
      BY <1>1, <2>1, <2>4, ConstantsAssumption DEF IInv, OwnersKnown
    <3>3. owner[o] \in OwnerType
      BY <1>1, Typed DEF IInv
    <3> QED BY <2>4, <3>1, <3>2, <3>3 DEF Owns, OwnerType
  <2> QED BY <2>1, <2>2, <2>3, <2>4 DEF Quiet, ExecType
<1>2. IInv => ReadyTaskIsIdle
  BY <1>1
<1> QED BY <1>2, Invariant, PTL

(***************************************************************************)
(* An owner whose callback was called may begin the next call: the         *)
(* executor's ensureNoCallsPending() does not throw.                       *)
(***************************************************************************)
THEOREM OwnerCorrect == Spec => []OwnerMayContinue
<1>1. ASSUME IInv PROVE OwnerMayContinue
  <2> SUFFICES ASSUME NEW o \in Operations, owner[o].stage = "idle", op[o] # None
               PROVE  /\ task[op[o]].remaining = 0
                      /\ task[op[o]].assigned /\ ~task[op[o]].stopped
    BY DEF OwnerMayContinue
  <2> DEFINE t == op[o]
  <2>1. t \in Tasks
    BY <1>1, Typed DEF IInv
  <2>2. Owns(o, t) /\ task[t].callback = None /\ exec[t].pc # "call"
    BY <1>1 DEF IInv, OwnersKnown, Owns
  <2> HIDE DEF t
  <2>3. task[t].assigned /\ ~task[t].stopped
    BY <1>1, <2>1, <2>2 DEF IInv, OwnersKnown
  <2>4. Counted(task[t], t \in workers.executing, FALSE)
    <3>1. (exec[t].pc = "call") = FALSE
      BY <2>2
    <3>2. Counted(task[t], t \in workers.executing, exec[t].pc = "call")
      BY <1>1, <2>1, <2>3 DEF IInv, TasksKnown
    <3> QED BY <3>1, <3>2
  <2>5. task[t].remaining = 0
    BY <2>2, <2>4 DEF Counted, CallDue, Count
  <2> QED BY <2>3, <2>5 DEF t
<1>2. IInv => OwnerMayContinue
  BY <1>1
<1> QED BY <1>2, Invariant, PTL

(***************************************************************************)
(* dispose() leaves no call without its callback.                          *)
(***************************************************************************)
THEOREM DisposeCorrect == Spec => []DisposedIsQuiet
<1>1. IInv => DisposedIsQuiet
  BY DEF IInv
<1> QED BY <1>1, Invariant, PTL

-----------------------------------------------------------------------------
(* The contract.                                                           *)

LEMMA RequestStep ==
    ASSUME NEW c \in Calls, call[c] = "none", call' = [call EXCEPT ![c] = "requested"]
    PROVE  Contract!Next
BY DEF Contract!Next, Contract!Request

LEMMA CancelStep ==
    ASSUME IInv, NEW o \in Operations, CancelOperation(o)
    PROVE  [Contract!Next]_call
<1>1. call' = [c \in Calls |->
            IF owner[o].stage = "waiting" /\ c = owner[o].call THEN "cancelled" ELSE call[c]]
  BY DEF CancelOperation
<1>2. call \in [Calls -> CallType]
  BY Typed DEF IInv
<1>3. CASE owner[o].stage = "waiting"
  <2> DEFINE c == owner[o].call
  <2>1. c \in Calls /\ call[c] = "requested"
    BY <1>3 DEF IInv, OwnersKnown
  <2>2. call' = [call EXCEPT ![c] = "cancelled"]
    BY <1>1, <1>2, <1>3
  <2> HIDE DEF c
  <2>3. Contract!Cancel(c)
    BY <2>1, <2>2 DEF Contract!Cancel
  <2> QED BY <2>1, <2>3 DEF Contract!Next
<1>4. CASE owner[o].stage # "waiting"
  <2>1. call' = call
    BY <1>1, <1>2, <1>4
  <2> QED BY <2>1
<1> QED BY <1>3, <1>4

LEMMA CallBackStep ==
    ASSUME IInv, NEW t \in Tasks, CallBack(t)
    PROVE  Contract!Next
<1> DEFINE c == exec[t].call
<1>1. /\ exec[t].pc = "call"
      /\ call' = [call EXCEPT ![c] = IF exec[t].stopped THEN "aborted" ELSE "executed"]
  BY DEF CallBack
<1>2. c \in Calls /\ call[c] \in {"requested", "cancelled"}
  BY <1>1 DEF IInv, CallsKnown, Holds
<1>3. exec[t].stopped => call[c] = "cancelled"
  BY <1>1 DEF IInv, CallsKnown
<1> HIDE DEF c
<1>4. Contract!CallBack(c)
  BY <1>1, <1>2, <1>3 DEF Contract!CallBack
<1> QED BY <1>2, <1>4 DEF Contract!Next

LEMMA ContractStep ==
    ASSUME IInv, [Next]_vars
    PROVE  [Contract!Next]_call
<1>1. ASSUME NEW o \in Operations,
             CreateOperation(o) \/ ReleaseOperation(o) \/ EndReset(o)
      PROVE  call' = call
  BY <1>1 DEF CreateOperation, ReleaseOperation, EndReset
<1>2. ASSUME NEW o \in Operations, NEW c \in Calls, NEW k \in Kinds,
             AsyncBegin(o, c, k) \/ AsyncBeginAgain(o, c, k)
      PROVE  Contract!Next
  <2>1. call[c] = "none" /\ call' = [call EXCEPT ![c] = "requested"]
    BY <1>2 DEF AsyncBegin, AsyncBeginAgain
  <2> QED BY <2>1, RequestStep
<1>3. ASSUME NEW t \in Tasks,
             \/ ContinueOperationTask(t) \/ OnOperationTaskReady(t)
             \/ OnExecute(t) \/ ReturnFromExecute(t)
             \/ \E k \in Kinds : Terminate(t, k)
      PROVE  call' = call
  BY <1>3 DEF ContinueOperationTask, OnOperationTaskReady, OnExecute, ReturnFromExecute, Terminate
<1>4. Dispose \/ DisposeEnds => call' = call
  BY DEF Dispose, DisposeEnds
<1>5. UNCHANGED vars => call' = call
  BY DEF vars
<1>6. ASSUME NEW o \in Operations,
             \/ CreateOperation(o)
             \/ \E c \in Calls, k \in Kinds : AsyncBegin(o, c, k) \/ AsyncBeginAgain(o, c, k)
             \/ CancelOperation(o)
             \/ ReleaseOperation(o)
             \/ EndReset(o)
      PROVE  [Contract!Next]_call
  BY <1>1, <1>2, <1>6, CancelStep
<1>7. ASSUME NEW t \in Tasks,
             ContinueOperationTask(t) \/ OnOperationTaskReady(t) \/ ExecuteStep(t)
      PROVE  [Contract!Next]_call
  BY <1>3, <1>7, CallBackStep DEF ExecuteStep
<1> QED BY <1>4, <1>5, <1>6, <1>7 DEF Next

(***************************************************************************)
(* Every call is answered at most once, a call that was not cancelled by   *)
(* executing it; that a cancelled one is answered is left to TLC.          *)
(***************************************************************************)
THEOREM KeepsContract == Spec => Contract!Init /\ [][Contract!Next]_call
<1>1. Init => Contract!Init
  BY DEF Init, Contract!Init
<1>2. IInv /\ [Next]_vars => [Contract!Next]_call
  BY ContractStep
<1> QED BY <1>1, <1>2, Invariant, PTL DEF Spec
=============================================================================
