------------------------ MODULE RetryableTaskProofs -------------------------
(***************************************************************************)
(* Proofs about RetryableTask, for any number of cancelling threads and of *)
(* retries.                                                                *)
(***************************************************************************)
EXTENDS RetryableTask, TLAPS

(***************************************************************************)
(* A request that returned is remembered twice: by the latch, which the    *)
(* next decision reads, and by the task that is about to be scheduled.     *)
(***************************************************************************)
CancelKnown ==
    /\ \A c \in Cancellers : canceller[c] = "latched" => wrapper.cancelRequested
    /\ history.cancelled => wrapper.cancelRequested
    /\ history.cancelled /\ stage = "pending" /\ wrapped.kind = "work"
          => wrapped.cancelRequested
    /\ wrapped.state = "Created" => stage = "pending"

(***************************************************************************)
(* The wrapper sleeps between attempts, and m_currentRetryCount is behind  *)
(* the number of attempts by the one that is under way.                    *)
(***************************************************************************)
CountKnown ==
    /\ stage # "done" => (wrapper.retrying <=> wrapped.kind = "sleep")
    /\ stage # "done" /\ ~wrapper.retrying =>
          /\ history.attempts = wrapper.currentRetryCount + 1
          /\ wrapper.currentRetryCount = 0 \/ wrapper.currentRetryCount < MaxRetryCount
    /\ stage # "done" /\ wrapper.retrying =>
          /\ history.attempts = wrapper.currentRetryCount
          /\ wrapper.currentRetryCount < MaxRetryCount

IInv == TypeOK /\ CancelKnown /\ CountKnown /\ AttemptsUsed /\ OutcomeIsOfWork

-----------------------------------------------------------------------------
(***************************************************************************)
(* The invariant holds before the wrapper is scheduled.                    *)
(***************************************************************************)
LEMMA InitInvariant == Init => IInv
BY ConstantsAssumption
   DEF Init, New, IInv, TypeOK, CancelKnown, CountKnown, AttemptsUsed, OutcomeIsOfWork

(***************************************************************************)
(* What the decision assigns to the members of the wrapper has their type. *)
(***************************************************************************)
LEMMA WrapperTyped ==
    ASSUME NEW w \in [cancelRequested: BOOLEAN, retrying: BOOLEAN, currentRetryCount: Nat],
           NEW n \in Nat
    PROVE  /\ [w EXCEPT !.currentRetryCount = n, !.retrying = TRUE]
                 \in [cancelRequested: BOOLEAN, retrying: BOOLEAN, currentRetryCount: Nat]
           /\ [w EXCEPT !.retrying = FALSE]
                 \in [cancelRequested: BOOLEAN, retrying: BOOLEAN, currentRetryCount: Nat]
OBVIOUS

(***************************************************************************)
(* The decision keeps the invariant.                                       *)
(***************************************************************************)
LEMMA DecideInvariant == IInv /\ Decide => IInv'
<1> SUFFICES ASSUME IInv, Decide PROVE IInv'
  OBVIOUS
<1> USE ConstantsAssumption
    DEF IInv, TypeOK, CancelKnown, CountKnown, AttemptsUsed, OutcomeIsOfWork
<1>1. stage = "deciding" /\ UNCHANGED canceller
  BY DEF Decide
<1>2. CASE GiveUpCancelled
  BY <1>1, <1>2 DEF GiveUpCancelled
<1>3. CASE ~wrapper.cancelRequested /\ AfterWork
  <2>1. PICK ok \in BOOLEAN :
           /\ history' = [history EXCEPT !.ok = ok]
           /\ IF ok \/ wrapper.currentRetryCount + 1 >= MaxRetryCount
              THEN /\ Complete
                   /\ wrapper' = [wrapper EXCEPT
                         !.currentRetryCount = wrapper.currentRetryCount + 1]
              ELSE /\ stage' = "pending"
                   /\ wrapped' = New("sleep")
                   /\ wrapper' = [wrapper EXCEPT
                         !.currentRetryCount = wrapper.currentRetryCount + 1,
                         !.retrying = TRUE]
    BY <1>3 DEF AfterWork, TaskOk, RetriesUsedUp
  <2>2. ~wrapper.retrying
    BY <1>3 DEF AfterWork
  <2>3. CASE ok \/ wrapper.currentRetryCount + 1 >= MaxRetryCount
    BY <1>1, <1>3, <2>1, <2>2, <2>3 DEF Complete
  <2>4. CASE ~(ok \/ wrapper.currentRetryCount + 1 >= MaxRetryCount)
    <3>0. wrapper' = [wrapper EXCEPT
             !.currentRetryCount = wrapper.currentRetryCount + 1, !.retrying = TRUE]
      BY <2>1, <2>4
    <3>a. wrapper.currentRetryCount + 1 \in Nat
      OBVIOUS
    <3>b. wrapper' \in [cancelRequested: BOOLEAN, retrying: BOOLEAN,
                       currentRetryCount: Nat]
      BY <3>0, <3>a, WrapperTyped
    <3>1. /\ wrapper'.currentRetryCount = wrapper.currentRetryCount + 1
          /\ wrapper'.retrying
          /\ wrapper'.cancelRequested <=> wrapper.cancelRequested
      BY <3>0
    <3>2. stage' = "pending" /\ wrapped' = New("sleep") /\ UNCHANGED canceller
      BY <1>1, <2>1, <2>4
    <3>3. /\ history'.attempts = history.attempts
          /\ history'.cancelled = history.cancelled
          /\ history' \in [attempts: Nat, chained: Nat, cancelled: BOOLEAN, ok: BOOLEAN]
      BY <2>1
    <3>4. TypeOK' /\ OutcomeIsOfWork'
      BY <1>1, <3>b, <3>1, <3>2, <3>3 DEF New
    <3>5. CancelKnown'
      BY <1>1, <1>3, <3>1, <3>2, <3>3 DEF New
    <3>6. CountKnown' /\ AttemptsUsed'
      BY <1>1, <2>2, <2>4, <3>1, <3>2, <3>3 DEF New
    <3> QED BY <3>4, <3>5, <3>6
  <2> QED BY <2>3, <2>4
<1>4. CASE ~wrapper.cancelRequested /\ AfterSleep
  <2>1. wrapper.retrying /\ ~history.cancelled
    BY <1>4 DEF AfterSleep
  <2>2. CASE wrapped.error # "none"
    BY <1>1, <1>4, <2>1, <2>2 DEF AfterSleep, Complete
  <2>3. ASSUME wrapper' = [wrapper EXCEPT !.retrying = FALSE],
               stage' = "pending", wrapped' = New("work"),
               history' = [history EXCEPT !.attempts = @ + 1]
        PROVE  IInv'
    <3>0. wrapper' \in [cancelRequested: BOOLEAN, retrying: BOOLEAN,
                       currentRetryCount: Nat]
      BY <2>3, WrapperTyped
    <3>a. history' \in [attempts: Nat, chained: Nat, cancelled: BOOLEAN, ok: BOOLEAN]
      BY <2>3
    <3>1. TypeOK' /\ OutcomeIsOfWork'
      BY <1>1, <2>3, <3>0, <3>a DEF New
    <3>2. CancelKnown'
      BY <1>1, <2>1, <2>3 DEF New
    <3>3. /\ wrapper'.currentRetryCount = wrapper.currentRetryCount
          /\ ~wrapper'.retrying
          /\ history'.attempts = history.attempts + 1
      BY <2>3
    <3>4. /\ wrapper.currentRetryCount \in Nat
          /\ history.attempts = wrapper.currentRetryCount
          /\ wrapper.currentRetryCount < MaxRetryCount
      BY <1>1, <2>1
    <3>5. CountKnown' /\ AttemptsUsed'
      BY <2>3, <3>3, <3>4 DEF New
    <3> QED BY <3>1, <3>2, <3>5
  <2>4. ASSUME wrapper' = [wrapper EXCEPT !.retrying = FALSE],
               stage' = "done", UNCHANGED history,
               wrapped' = [wrapped EXCEPT !.state = "Completed", !.error = "failed"]
        PROVE  IInv'
    BY <1>1, <2>1, <2>4
  <2> QED BY <1>4, <2>2, <2>3, <2>4 DEF AfterSleep
<1> QED BY <1>2, <1>3, <1>4 DEF Decide

(***************************************************************************)
(* Every step keeps the invariant.                                         *)
(***************************************************************************)
LEMMA StepInvariant == IInv /\ [Next]_vars => IInv'
<1> SUFFICES ASSUME IInv, [Next]_vars PROVE IInv'
  OBVIOUS
<1> USE ConstantsAssumption
    DEF IInv, TypeOK, CancelKnown, CountKnown, AttemptsUsed, OutcomeIsOfWork
<1>1. CASE Schedule
  BY <1>1 DEF Schedule
<1>2. CASE ForwardContinuation
  <2>1. stage = "ready" /\ UNCHANGED <<wrapper, canceller>>
    BY <1>2 DEF ForwardContinuation
  <2>2. ASSUME wrapped.kind # "sleep", wrapped' = New("chained"), stage' = "pending",
               history' = [history EXCEPT !.chained = @ + 1]
        PROVE  IInv'
    <3>1. TypeOK' /\ OutcomeIsOfWork' /\ CancelKnown'
      BY <2>1, <2>2 DEF New
    <3>2. CountKnown' /\ AttemptsUsed'
      BY <2>1, <2>2 DEF New
    <3> QED BY <3>1, <3>2
  <2>3. ASSUME stage' = "deciding", UNCHANGED <<wrapped, history>> PROVE IInv'
    BY <2>1, <2>3
  <2> QED BY <1>2, <2>2, <2>3 DEF ForwardContinuation
<1>3. CASE Decide
  BY <1>3, DecideInvariant
<1>4. ASSUME NEW error \in {"none", "failed", "aborted"}, Ends(error) PROVE IInv'
  BY <1>4 DEF Ends
<1>5. CASE WorkEnds \/ SleepCancelled \/ SleepEnds
  BY <1>4, <1>5 DEF WorkEnds, SleepCancelled, SleepEnds
<1>6. ASSUME NEW c \in Cancellers, RequestCancel(c) PROVE IInv'
  <2>1. /\ canceller' = [canceller EXCEPT ![c] = "latched"]
        /\ wrapper' = [wrapper EXCEPT !.cancelRequested = TRUE]
        /\ UNCHANGED <<wrapped, stage, history>>
    BY <1>6 DEF RequestCancel
  <2>2. wrapper'.cancelRequested = TRUE /\ wrapper'.retrying = wrapper.retrying
        /\ wrapper'.currentRetryCount = wrapper.currentRetryCount
    BY <2>1
  <2>3. TypeOK' /\ OutcomeIsOfWork'
    BY <2>1
  <2>4. CancelKnown'
    BY <2>1, <2>2
  <2>5. CountKnown' /\ AttemptsUsed'
    BY <2>1, <2>2
  <2> QED BY <2>3, <2>4, <2>5
<1>7. ASSUME NEW c \in Cancellers, ForwardCancel(c) PROVE IInv'
  BY <1>7 DEF ForwardCancel
<1>8. CASE UNCHANGED vars
  BY <1>8 DEF vars
<1> QED BY <1>1, <1>2, <1>3, <1>5, <1>6, <1>7, <1>8 DEF Next, QueueStep

(***************************************************************************)
(* Every reachable state satisfies the invariant.                          *)
(***************************************************************************)
THEOREM Invariant == Spec => []IInv
<1>1. Init => IInv
  BY InitInvariant
<1>2. IInv /\ [Next]_vars => IInv'
  BY StepInvariant
<1> QED BY <1>1, <1>2, PTL DEF Spec

(***************************************************************************)
(* The retries are used up before an uncancelled wrapper gives up, and     *)
(* never exceeded.                                                         *)
(***************************************************************************)
THEOREM RetriesAreExact == Spec => []AttemptsUsed
BY Invariant, PTL DEF IInv

(***************************************************************************)
(* A wrapper never reports the success of its sleep timer.                 *)
(***************************************************************************)
THEOREM WorkIsReported == Spec => []OutcomeIsOfWork
BY Invariant, PTL DEF IInv

(***************************************************************************)
(* After a requestCancel() has returned no attempt starts to run.          *)
(***************************************************************************)
THEOREM CancelIsLatched == Spec => NoAttemptAfterCancel
<1>1. IInv /\ [Next]_vars
         => [ history.cancelled /\ wrapped.kind = "work" /\ wrapped.state = "Created"
                 => wrapped'.state # "Running" ]_vars
  <2> SUFFICES ASSUME IInv, Next, history.cancelled, wrapped.kind = "work",
                      wrapped.state = "Created"
               PROVE  wrapped'.state # "Running"
    BY DEF vars
  <2> USE DEF IInv, TypeOK, CancelKnown
  <2>1. stage = "pending" /\ wrapped.cancelRequested
    OBVIOUS
  <2>2. CASE Schedule
    BY <2>1, <2>2 DEF Schedule
  <2>3. CASE ForwardContinuation \/ Decide
    BY <2>1, <2>3 DEF ForwardContinuation, Decide
  <2>4. CASE WorkEnds \/ SleepCancelled \/ SleepEnds
    BY <2>1, <2>4 DEF WorkEnds, SleepCancelled, SleepEnds, Ends
  <2>5. CASE \E c \in Cancellers : RequestCancel(c) \/ ForwardCancel(c)
    BY <2>1, <2>5 DEF RequestCancel, ForwardCancel
  <2> QED BY <2>2, <2>3, <2>4, <2>5 DEF Next, QueueStep
<1> QED BY <1>1, Invariant, PTL DEF Spec, NoAttemptAfterCancel
=============================================================================
