-------------------------- MODULE TimerTaskProofs ---------------------------
(***************************************************************************)
(* Proofs about TimerTask: there is exactly one wait handler from the      *)
(* start of a run to its completion, for any number of runs.               *)
(***************************************************************************)
EXTENDS TimerTask, TLAPS

(***************************************************************************)
(* Where the handler is tells the state of the task, and the guard         *)
(* m_notifyCalled is set exactly once the task has been completed.         *)
(***************************************************************************)
StateMatches ==
    /\ \A w \in Waits :
          /\ wait[w] \in {"armed", "queued", "notify"} => base.state = "Running"
          /\ wait[w] = "callback" => base.state = "PendingCompletion"
    /\ base.notifyCalled <=> base.state \in {"PendingCompletion", "Completed"}

IInv == TypeOK /\ OneHandler /\ StateMatches

-----------------------------------------------------------------------------
(***************************************************************************)
(* The invariant holds before the task is scheduled.                       *)
(***************************************************************************)
LEMMA InitInvariant == Init => IInv
<1> SUFFICES ASSUME Init PROVE IInv
  OBVIOUS
<1>1. TypeOK
  BY DEF Init, TypeOK
<1>2. OneHandler
  BY DEF Init, OneHandler
<1>3. StateMatches
  BY DEF Init, StateMatches
<1> QED BY <1>1, <1>2, <1>3 DEF IInv

(***************************************************************************)
(* Cancelling and arming keep the type of the wait handlers and say which  *)
(* handlers change.                                                        *)
(***************************************************************************)
LEMMA TimerLemma ==
    ASSUME NEW ws \in [Waits -> {"free", "armed", "queued", "notify", "callback"}],
           NEW w \in Waits
    PROVE  /\ Cancelled(ws) \in [Waits -> {"free", "armed", "queued", "notify", "callback"}]
           /\ \A v \in Waits : Cancelled(ws)[v] = IF ws[v] = "armed" THEN "queued" ELSE ws[v]
           /\ Armed(ws, w) \in [Waits -> {"free", "armed", "queued", "notify", "callback"}]
           /\ \A v \in Waits : Armed(ws, w)[v] =
                 IF v = w THEN "armed" ELSE IF ws[v] = "armed" THEN "queued" ELSE ws[v]
BY DEF Cancelled, Armed

(***************************************************************************)
(* Scheduling a task whose handlers are all free leaves one busy handler,  *)
(* in the timer or, when the task was cancelled before it started, queued. *)
(***************************************************************************)
LEMMA ScheduledLemma ==
    ASSUME TypeOK, \A v \in Waits : wait[v] = "free",
           NEW w \in Waits, NEW cancelled \in BOOLEAN
    PROVE  LET ws == Scheduled(Cancelled(wait), w, cancelled)
           IN  /\ ws \in [Waits -> {"free", "armed", "queued", "notify", "callback"}]
               /\ ws[w] \in {"armed", "queued"}
               /\ \A v \in Waits \ {w} : ws[v] = "free"
<1> DEFINE c == Cancelled(wait)
           a == Armed(c, w)
<1>1. /\ c \in [Waits -> {"free", "armed", "queued", "notify", "callback"}]
      /\ \A v \in Waits : c[v] = "free"
  BY TimerLemma DEF TypeOK
<1> HIDE DEF c
<1>2. /\ a \in [Waits -> {"free", "armed", "queued", "notify", "callback"}]
      /\ a[w] = "armed"
      /\ \A v \in Waits \ {w} : a[v] = "free"
  BY <1>1, TimerLemma
<1> HIDE DEF a
<1>3. /\ Cancelled(a) \in [Waits -> {"free", "armed", "queued", "notify", "callback"}]
      /\ Cancelled(a)[w] = "queued"
      /\ \A v \in Waits \ {w} : Cancelled(a)[v] = "free"
  BY <1>2, TimerLemma
<1>4. Scheduled(c, w, cancelled) = IF cancelled THEN Cancelled(a) ELSE a
  BY DEF Scheduled, a
<1> QED BY <1>2, <1>3, <1>4 DEF c

(***************************************************************************)
(* Every step keeps the invariant.                                         *)
(***************************************************************************)
LEMMA StepInvariant == IInv /\ [Next]_vars => IInv'
<1> SUFFICES ASSUME IInv, [Next]_vars PROVE IInv'
  OBVIOUS
<1> USE DEF IInv
<1>1. ASSUME NEW w \in Waits, Expire(w) PROVE IInv'
  BY <1>1 DEF Expire, TypeOK, OneHandler, StateMatches
<1>2. ASSUME NEW w \in Waits, OnTimer(w) PROVE IInv'
  <2>1. base.state = "Running" /\ (\A v \in Waits \ {w} : wait[v] = "free")
    BY <1>2 DEF OnTimer, OneHandler, StateMatches
  <2>2. CASE wait' = [wait EXCEPT ![w] = "notify"] /\ error' \in [Waits -> BOOLEAN]
    BY <1>2, <2>1, <2>2 DEF OnTimer, TypeOK, OneHandler, StateMatches
  <2>3. ASSUME NEW v \in Waits, wait' = Armed([wait EXCEPT ![w] = "free"], v),
               UNCHANGED error
        PROVE  IInv'
    <3> DEFINE ws == [wait EXCEPT ![w] = "free"]
    <3>1. /\ ws \in [Waits -> {"free", "armed", "queued", "notify", "callback"}]
          /\ \A u \in Waits : ws[u] = "free"
      BY <2>1 DEF TypeOK
    <3>2. /\ wait' \in [Waits -> {"free", "armed", "queued", "notify", "callback"}]
          /\ wait'[v] = "armed"
          /\ \A u \in Waits \ {v} : wait'[u] = "free"
      <4> HIDE DEF ws
      <4>1. wait' = Armed(ws, v)
        BY <2>3 DEF ws
      <4> QED BY <3>1, <4>1, TimerLemma
    <3> QED BY <1>2, <2>1, <2>3, <3>2 DEF OnTimer, TypeOK, OneHandler, StateMatches
  <2> QED BY <1>2, <2>2, <2>3 DEF OnTimer, TypeOK
<1>3. ASSUME NEW w \in Waits, NotifyReady(w) PROVE IInv'
  <2>1. base.state = "Running" /\ ~base.notifyCalled
    BY <1>3 DEF NotifyReady, StateMatches
  <2> QED BY <1>3, <2>1 DEF NotifyReady, TypeOK, OneHandler, StateMatches
<1>4. ASSUME NEW w \in Waits, CallReady(w) PROVE IInv'
  <2>1. base.state = "PendingCompletion" /\ (\A v \in Waits \ {w} : wait[v] = "free")
    BY <1>4 DEF CallReady, OneHandler, StateMatches
  <2> QED BY <1>4, <2>1 DEF CallReady, TypeOK, OneHandler, StateMatches
<1>5. ASSUME NEW w \in Waits, ScheduleNothrow(w) PROVE IInv'
  <2> DEFINE cancelled == base.state = "Created" /\ base.cancelRequested
  <2>1. (\A v \in Waits : wait[v] = "free") /\ cancelled \in BOOLEAN
    BY <1>5 DEF ScheduleNothrow, OneHandler, TypeOK
  <2>2. /\ wait' \in [Waits -> {"free", "armed", "queued", "notify", "callback"}]
        /\ wait'[w] \in {"armed", "queued", "notify"}
        /\ \A v \in Waits \ {w} : wait'[v] = "free"
    <3>1. CASE wait' = Scheduled(Cancelled(wait), w, cancelled)
      <4> HIDE DEF cancelled
      <4> QED BY <2>1, <3>1, ScheduledLemma
    <3>2. CASE wait' = [wait EXCEPT ![w] = "notify"]
      BY <2>1, <3>2 DEF TypeOK
    <3> QED BY <1>5, <3>1, <3>2 DEF ScheduleNothrow
  <2>3. /\ base' = [state |-> "Running", failed |-> FALSE, notifyCalled |-> FALSE,
                    cancelRequested |-> cancelled]
        /\ error' \in [Waits -> BOOLEAN] /\ wanted' = FALSE /\ run' = run + 1
    BY <1>5 DEF ScheduleNothrow, TypeOK
  <2>4. TypeOK'
    <3> HIDE DEF cancelled
    <3>1. base' \in [state: {"Created", "Running", "PendingCompletion", "Completed"},
                     failed: BOOLEAN, notifyCalled: BOOLEAN, cancelRequested: BOOLEAN]
      BY <2>1, <2>3
    <3>2. run' \in Nat
      BY <2>3 DEF TypeOK
    <3> QED BY <2>2, <2>3, <3>1, <3>2 DEF TypeOK
  <2>5. OneHandler' /\ StateMatches'
    BY <2>2, <2>3 DEF OneHandler, StateMatches
  <2> QED BY <2>4, <2>5
<1>6. ASSUME wait' \in {wait, Cancelled(wait)}, base'.state = base.state,
             base'.notifyCalled = base.notifyCalled, TypeOK'
      PROVE  IInv'
  <2>1. \A v \in Waits : /\ wait'[v] = "free" <=> wait[v] = "free"
                         /\ wait'[v] = "callback" <=> wait[v] = "callback"
                         /\ wait'[v] \in {"armed", "queued", "notify"}
                               <=> wait[v] \in {"armed", "queued", "notify"}
    BY <1>6, TimerLemma DEF TypeOK
  <2> QED BY <1>6, <2>1 DEF OneHandler, StateMatches
<1>7. CASE RequestCancel
  <2>1. base' \in [state: {"Created", "Running", "PendingCompletion", "Completed"},
                   failed: BOOLEAN, notifyCalled: BOOLEAN, cancelRequested: BOOLEAN]
    BY <1>7 DEF RequestCancel, TypeOK
  <2>2. wait' \in [Waits -> {"free", "armed", "queued", "notify", "callback"}]
    BY <1>7, TimerLemma, ConstantsAssumption DEF RequestCancel, TypeOK
  <2>3. TypeOK'
    BY <1>7, <2>1, <2>2 DEF RequestCancel, TypeOK
  <2> QED BY <1>6, <1>7, <2>3 DEF RequestCancel, TypeOK
<1>8. CASE RunNow
  <2>1. base' \in [state: {"Created", "Running", "PendingCompletion", "Completed"},
                   failed: BOOLEAN, notifyCalled: BOOLEAN, cancelRequested: BOOLEAN]
    BY <1>8 DEF RunNow, TypeOK
  <2>2. wait' \in [Waits -> {"free", "armed", "queued", "notify", "callback"}]
    BY <1>8, TimerLemma, ConstantsAssumption DEF RunNow, TypeOK
  <2>3. TypeOK'
    BY <1>8, <2>1, <2>2 DEF RunNow, TypeOK
  <2> QED BY <1>6, <1>8, <2>3 DEF RunNow, TypeOK
<1>9. CASE UNCHANGED vars
  BY <1>9 DEF vars, TypeOK, OneHandler, StateMatches
<1> QED BY <1>1, <1>2, <1>3, <1>4, <1>5, <1>7, <1>8, <1>9 DEF Next, PoolStep

(***************************************************************************)
(* The inductive invariant holds in every reachable state.                 *)
(***************************************************************************)
THEOREM TimerInvariance == Spec => []IInv
BY InitInvariant, StepInvariant, PTL DEF Spec

(***************************************************************************)
(* Exactly one wait handler is in flight from scheduleTask() to the        *)
(* completion of the task and none otherwise, whatever requestCancel(),    *)
(* runNow(), expiry and restarts do (TimerTaskBase::cancelTask()).         *)
(***************************************************************************)
THEOREM TimerHasOneHandler == Spec => []OneHandler
<1>1. IInv => OneHandler
  BY DEF IInv
<1> QED BY <1>1, TimerInvariance, PTL
=============================================================================
