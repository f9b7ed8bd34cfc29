---------------------------- MODULE RetryableTask ----------------------------
(***************************************************************************)
(* bl::tasks::RetryableWrapperTaskT over WrapperTaskBase: a task that runs *)
(* another one, and when that fails sleeps on a timer task and runs a new  *)
(* one, until it succeeds or the retries are used up.  For the execution   *)
(* queue all of this is one task that is its own continuation.             *)
(*                                                                         *)
(* requestCancel() is two steps, the latch and the call forwarded to the   *)
(* task that is wrapped then; continuationTask() is two sections of the    *)
(* wrapper's lock.  Between any of them the other may run.                 *)
(*                                                                         *)
(* The work is assumed to leave scheduleEvenIfAlreadyCanceled() at its     *)
(* default, so that it does not start when it was cancelled before.        *)
(***************************************************************************)
EXTENDS Naturals

CONSTANTS
    Cancellers,         \* threads that call requestCancel()
    MaxRetryCount,      \* m_maxRetryCount
    Verifies,           \* TRUE if there is a verification callback
    MaxChained          \* bound on the continuations of the wrapped tasks

ASSUME ConstantsAssumption ==
    /\ MaxRetryCount \in Nat
    /\ Verifies \in BOOLEAN
    /\ MaxChained \in Nat

VARIABLES
    wrapper,    \* the members of RetryableWrapperTask
    wrapped,    \* the task m_wrappedTask points to
    stage,      \* where the queue is with the wrapper task
    canceller,  \* every canceller: "idle", or "latched" inside requestCancel()
    history     \* what happened, for the properties

vars == <<wrapper, wrapped, stage, canceller, history>>

-----------------------------------------------------------------------------
\* A task that was created and not scheduled: the work, a continuation of it, or
\* the timer of the retry sleep.
New(kind) ==
    [kind |-> kind, state |-> "Created", error |-> "none", cancelRequested |-> FALSE]

Init ==
    /\ wrapper = [cancelRequested |-> FALSE, retrying |-> FALSE, currentRetryCount |-> 0]
    /\ wrapped = New("work")
    /\ stage = "pending"
    /\ canceller = [c \in Cancellers |-> "idle"]
    /\ history = [attempts |-> 1, chained |-> 0, cancelled |-> FALSE, ok |-> FALSE]

-----------------------------------------------------------------------------
(* The wrapped task                                                        *)

\* scheduleNothrow(), forwarded: the queue schedules the wrapper.  Work that was
\* cancelled while it was pending is not started but ends as aborted.
Schedule ==
    /\ stage = "pending"
    /\ stage' = "executing"
    /\ wrapped' = [wrapped EXCEPT !.state =
          IF wrapped.kind # "sleep" /\ wrapped.cancelRequested THEN "Refused" ELSE "Running"]
    /\ UNCHANGED <<wrapper, canceller, history>>

\* notifyReadyImpl() of the wrapped task with this error, and the ready callback.
Ends(error) ==
    /\ stage = "executing"
    /\ stage' = "ready"
    /\ wrapped' = [wrapped EXCEPT !.state = "PendingCompletion", !.error = error]
    /\ UNCHANGED <<wrapper, canceller, history>>

\* The work ends.  Whether it heeds a cancellation is its own affair.
WorkEnds ==
    /\ wrapped.kind # "sleep"
    /\ \/ wrapped.state = "Refused" /\ Ends("aborted")
       \/ wrapped.state = "Running" /\ (Ends("none") \/ Ends("failed"))
       \/ wrapped.state = "Running" /\ wrapped.cancelRequested /\ Ends("aborted")

\* The sleep ends because its timer was cancelled: without an error.
SleepCancelled ==
    wrapped.kind = "sleep" /\ wrapped.cancelRequested /\ Ends("none")

\* The sleep elapses, or its timer could not be created.
SleepEnds ==
    wrapped.kind = "sleep" /\ (Ends("none") \/ Ends("failed"))

-----------------------------------------------------------------------------
(* Cancellation                                                            *)

\* requestCancel() of the wrapper sets the latch.
RequestCancel(c) ==
    /\ canceller[c] = "idle"
    /\ canceller' = [canceller EXCEPT ![c] = "latched"]
    /\ wrapper' = [wrapper EXCEPT !.cancelRequested = TRUE]
    /\ UNCHANGED <<wrapped, stage, history>>

\* Mutant: only a task that is running is told.
ForwardCancelToRunning(c) ==
    /\ canceller[c] = "latched"
    /\ canceller' = [canceller EXCEPT ![c] = "idle"]
    /\ wrapped' = [wrapped EXCEPT !.cancelRequested = @ \/ wrapped.state = "Running"]
    /\ history' = [history EXCEPT !.cancelled = TRUE]
    /\ UNCHANGED <<wrapper, stage>>

\* ... and then forwards it, under the lock of the wrapper and that of the task.
ForwardCancel(c) ==
    /\ canceller[c] = "latched"
    /\ canceller' = [canceller EXCEPT ![c] = "idle"]
    /\ wrapped' = [wrapped EXCEPT !.cancelRequested = TRUE]
    /\ history' = [history EXCEPT !.cancelled = TRUE]
    /\ UNCHANGED <<wrapper, stage>>

-----------------------------------------------------------------------------
(* continuationTask()                                                      *)

\* handleContinuationForward(): a continuation of the wrapped task takes its place.
ForwardContinuation ==
    /\ stage = "ready"
    /\ \/ /\ wrapped.kind # "sleep"
          /\ history.chained < MaxChained
          /\ wrapped' = New("chained")
          /\ stage' = "pending"
          /\ history' = [history EXCEPT !.chained = @ + 1]
       \/ stage' = "deciding" /\ UNCHANGED <<wrapped, history>>
    /\ UNCHANGED <<wrapper, canceller>>

\* The retry sequence was cancelled: the error of the task is kept if it has one.
GiveUpCancelled ==
    /\ wrapper.cancelRequested
    /\ stage' = "done"
    /\ wrapped' = [wrapped EXCEPT !.state = "Completed",
                                  !.error = IF @ = "none" THEN "aborted" ELSE @]
    /\ UNCHANGED <<wrapper, history>>

Complete ==
    /\ stage' = "done"
    /\ wrapped' = [wrapped EXCEPT !.state = "Completed"]

\* isTaskOk(): the verification callback decides if there is one.
TaskOk == IF Verifies THEN {TRUE, FALSE} ELSE {wrapped.error = "none"}

\* Mutant: the count is compared before it is incremented.
RetriesUsedUpLate(count) == count > MaxRetryCount

\* m_currentRetryCount >= m_maxRetryCount, after the increment.
RetriesUsedUp(count) == count >= MaxRetryCount

\* The work ended: complete, or sleep before the next attempt.
AfterWork ==
    LET count == wrapper.currentRetryCount + 1
    IN  /\ ~wrapper.retrying
        /\ \E ok \in TaskOk :
              /\ history' = [history EXCEPT !.ok = ok]
              /\ IF ok \/ RetriesUsedUp(count)
                 THEN /\ Complete
                      /\ wrapper' = [wrapper EXCEPT !.currentRetryCount = count]
                 ELSE /\ stage' = "pending"
                      /\ wrapped' = New("sleep")
                      /\ wrapper' = [wrapper EXCEPT !.currentRetryCount = count,
                                                    !.retrying = TRUE]

\* The sleep ended: the factory makes the next work task.  When the factory throws
\* the queue stores its exception in the wrapper, that is in the timer task.
AfterSleep ==
    /\ wrapper.retrying
    /\ IF wrapped.error # "none"
       THEN Complete /\ UNCHANGED <<wrapper, history>>
       ELSE /\ wrapper' = [wrapper EXCEPT !.retrying = FALSE]
            /\ \/ /\ stage' = "pending"
                  /\ wrapped' = New("work")
                  /\ history' = [history EXCEPT !.attempts = @ + 1]
               \/ /\ stage' = "done"
                  /\ wrapped' = [wrapped EXCEPT !.state = "Completed", !.error = "failed"]
                  /\ UNCHANGED history

\* Mutant: the wrapper has no latch.
DecideUnlatched ==
    /\ stage = "deciding"
    /\ AfterWork \/ AfterSleep
    /\ UNCHANGED canceller

\* Mutant: a cancelled retry sequence completes as its sleep did.
DecideLateCancel ==
    /\ stage = "deciding"
    /\ \/ wrapper.cancelRequested /\ Complete /\ UNCHANGED <<wrapper, history>>
       \/ ~wrapper.cancelRequested /\ (AfterWork \/ AfterSleep)
    /\ UNCHANGED canceller

\* The second section: the decision and the swap under the wrapper's lock.
Decide ==
    /\ stage = "deciding"
    /\ \/ GiveUpCancelled
       \/ ~wrapper.cancelRequested /\ (AfterWork \/ AfterSleep)
    /\ UNCHANGED canceller

-----------------------------------------------------------------------------
QueueStep == Schedule \/ ForwardContinuation \/ Decide

Next ==
    \/ QueueStep
    \/ WorkEnds
    \/ SleepCancelled
    \/ SleepEnds
    \/ \E c \in Cancellers : RequestCancel(c) \/ ForwardCancel(c)

Spec == Init /\ [][Next]_vars

\* The queue and the pool go on, work ends, and so does a call of requestCancel().
\* No sleep is assumed to elapse: the retry timeout may be as long as one likes.
FairSpec ==
    /\ Spec
    /\ WF_vars(QueueStep) /\ WF_vars(WorkEnds) /\ WF_vars(SleepCancelled)
    /\ \A c \in Cancellers : WF_vars(ForwardCancel(c))

-----------------------------------------------------------------------------
(* Properties                                                              *)

\* The types of the variables.
TypeOK ==
    /\ wrapper \in [cancelRequested: BOOLEAN, retrying: BOOLEAN, currentRetryCount: Nat]
    /\ wrapped \in [kind: {"work", "chained", "sleep"},
                    state: {"Created", "Running", "Refused", "PendingCompletion", "Completed"},
                    error: {"none", "failed", "aborted"}, cancelRequested: BOOLEAN]
    /\ stage \in {"pending", "executing", "ready", "deciding", "done"}
    /\ canceller \in [Cancellers -> {"idle", "latched"}]
    /\ history \in [attempts: Nat, chained: Nat, cancelled: BOOLEAN, ok: BOOLEAN]

\* m_cancelRequested, "every swap of the wrapped task would silently discard the
\* cancellation request": once a requestCancel() has returned no attempt starts to
\* run, whichever task was wrapped when the call came and however it raced the swap.
NoAttemptAfterCancel ==
    [][ history.cancelled /\ wrapped.kind = "work" /\ wrapped.state = "Created"
            => wrapped'.state # "Running" ]_vars

\* A wrapper that nobody cancelled ends with its work only when the work was found
\* right or every attempt was made, and it never makes more.
AttemptsUsed ==
    /\ history.attempts <= (IF MaxRetryCount = 0 THEN 1 ELSE MaxRetryCount)
    /\ stage = "done" /\ ~wrapper.cancelRequested /\ wrapped.kind = "work" /\ ~history.ok
          => history.attempts >= MaxRetryCount

\* The wrapper reports the outcome of work: it never completes without an error
\* while the task it wraps is the sleep timer.
OutcomeIsOfWork == stage = "done" /\ wrapped.error = "none" => wrapped.kind # "sleep"

\* The retry sequence counts for one task: a cancelled one completes without its
\* sleep elapsing.
CancelCompletes == history.cancelled ~> stage = "done"
=============================================================================
