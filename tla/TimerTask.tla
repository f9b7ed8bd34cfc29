----------------------------- MODULE TimerTask ------------------------------
(***************************************************************************)
(* bl::tasks::TimerTaskBase with the run() of SimpleTimerTask and          *)
(* AdjustableTimerTask: one asio timer, the wait handler onTimer() on a    *)
(* thread of the pool, and requestCancel(), runNow() and restarts on       *)
(* others.  Everything that touches the timer does so under the task lock; *)
(* between onTimer() and the completion of the task the lock is free.      *)
(*                                                                         *)
(* The asio timer is external: a wait is armed until it expires or is      *)
(* cancelled, then its handler is queued and can not be taken back.        *)
(***************************************************************************)
EXTENDS Naturals, FiniteSets

CONSTANTS
    Waits,          \* names for wait handlers; reused once the handler ended
    MaxRuns         \* bound on the number of times the task is scheduled

ASSUME ConstantsAssumption ==
    /\ IsFiniteSet(Waits) /\ Waits # {}
    /\ MaxRuns \in Nat

VARIABLES
    base,       \* the members of TaskBase
    wait,       \* every wait handler: "free", "armed" in the timer, "queued" on
                \* the pool, "notify" before and "callback" after notifyReady()
    error,      \* every wait handler: TRUE if it completes with an exception
    wanted,     \* a runNow() that found the task running and has had no run() yet
    run         \* how often the task has been scheduled

vars == <<base, wait, error, wanted, run>>

Init ==
    /\ base = [state |-> "Created", failed |-> FALSE, notifyCalled |-> FALSE,
               cancelRequested |-> FALSE]
    /\ wait = [w \in Waits |-> "free"]
    /\ error = [w \in Waits |-> FALSE]
    /\ wanted = FALSE
    /\ run = 0

-----------------------------------------------------------------------------
(* The timer                                                               *)

\* deadline_timer::cancel(), and the destruction of the timer.
Cancelled(ws) == [w \in Waits |-> IF ws[w] = "armed" THEN "queued" ELSE ws[w]]

\* scheduleTimerInternal(): expires_from_now() cancels the waits there are, then
\* async_wait() arms a new one.
Armed(ws, w) == [Cancelled(ws) EXCEPT ![w] = "armed"]

\* The timer expires.
Expire(w) ==
    /\ wait[w] = "armed"
    /\ wait' = [wait EXCEPT ![w] = "queued"]
    /\ UNCHANGED <<base, error, wanted, run>>

-----------------------------------------------------------------------------
(* The task                                                                *)

\* Mutant: scheduleTask() arms the timer and returns.
ScheduledBlindly(ws, w, cancelled) == Armed(ws, w)

\* scheduleTask() of the timer task: a new timer, the wait for the initial delay,
\* and the cancellation that came before the task was started.
Scheduled(ws, w, cancelled) ==
    IF cancelled THEN Cancelled(Armed(ws, w)) ELSE Armed(ws, w)

\* scheduleNothrow(): the state of the last run is cleared unless this is the
\* first.  A timer task is started although it is cancelled.  When no timer can
\* be created notifyReadyImpl() is posted.
ScheduleNothrow(w) ==
    LET cancelled == base.state = "Created" /\ base.cancelRequested
    IN  /\ run < MaxRuns
        /\ base.state \in {"Created", "Completed"}
        /\ wait[w] = "free"
        /\ \/ /\ wait' = Scheduled(Cancelled(wait), w, cancelled)
              /\ UNCHANGED error
           \/ /\ wait' = [wait EXCEPT ![w] = "notify"]
              /\ error' = [error EXCEPT ![w] = TRUE]
        /\ base' = [state |-> "Running", failed |-> FALSE, notifyCalled |-> FALSE,
                    cancelRequested |-> cancelled]
        /\ wanted' = FALSE
        /\ run' = run + 1

\* requestCancel(): cancelTask() only for a running task, once.
RequestCancel ==
    /\ ~base.cancelRequested
    /\ base' = [base EXCEPT !.cancelRequested = TRUE]
    /\ wait' = IF base.state = "Running" THEN Cancelled(wait) ELSE wait
    /\ UNCHANGED <<error, wanted, run>>

\* Mutant: the wait is cancelled and armed again.
RunNowRearms ==
    /\ base.state = "Running"
    /\ \E w \in Waits :
          /\ wait[w] = "free"
          /\ wait' = Armed(wait, w)
    /\ wanted' = TRUE
    /\ UNCHANGED <<base, error, run>>

\* Mutant: the wait is left alone.
RunNowForgets ==
    /\ base.state = "Running"
    /\ wanted' = TRUE
    /\ UNCHANGED <<base, wait, error, run>>

\* runNow() and wakeUp().
RunNow ==
    /\ base.state = "Running"
    /\ wait' = Cancelled(wait)
    /\ wanted' = TRUE
    /\ UNCHANGED <<base, error, run>>

\* run() consults the callback of the task only while it is not cancelled.
MayGoOn == ~base.cancelRequested

\* onTimer(): run() ends the task if it is cancelled and otherwise does what the
\* callback says: end, throw, or wait again.
OnTimer(w) ==
    /\ wait[w] = "queued"
    /\ wanted' = FALSE
    /\ \/ /\ wait' = [wait EXCEPT ![w] = "notify"]
          /\ error' = [error EXCEPT ![w] = FALSE]
       \/ /\ MayGoOn
          /\ wait' = [wait EXCEPT ![w] = "notify"]
          /\ error' = [error EXCEPT ![w] = TRUE]
       \/ /\ MayGoOn
          /\ \E v \in Waits :
                /\ v = w \/ wait[v] = "free"
                /\ wait' = Armed([wait EXCEPT ![w] = "free"], v)
          /\ UNCHANGED error
    /\ UNCHANGED <<base, run>>

\* notifyReadyImpl() under the task lock.
NotifyReady(w) ==
    /\ wait[w] = "notify"
    /\ IF base.notifyCalled
       THEN wait' = [wait EXCEPT ![w] = "free"] /\ UNCHANGED base
       ELSE /\ wait' = [wait EXCEPT ![w] = "callback"]
            /\ base' = [base EXCEPT !.failed = @ \/ error[w],
                          !.state = "PendingCompletion", !.notifyCalled = TRUE]
    /\ UNCHANGED <<error, wanted, run>>

\* cbReady(): the queue completes the task.
CallReady(w) ==
    /\ wait[w] = "callback"
    /\ wait' = [wait EXCEPT ![w] = "free"]
    /\ base' = [base EXCEPT !.state = "Completed"]
    /\ UNCHANGED <<error, wanted, run>>

-----------------------------------------------------------------------------
PoolStep(w) == OnTimer(w) \/ NotifyReady(w) \/ CallReady(w)

Next ==
    \/ \E w \in Waits : Expire(w) \/ PoolStep(w) \/ ScheduleNothrow(w)
    \/ RequestCancel
    \/ RunNow

Spec == Init /\ [][Next]_vars

\* The pool runs the handlers that are queued.  No timer is assumed to expire: a
\* delay may be as long as one likes.
FairSpec == Spec /\ \A w \in Waits : WF_vars(PoolStep(w))

-----------------------------------------------------------------------------
(* Properties                                                              *)

\* The types of the variables.
TypeOK ==
    /\ base \in [state: {"Created", "Running", "PendingCompletion", "Completed"},
                 failed: BOOLEAN, notifyCalled: BOOLEAN, cancelRequested: BOOLEAN]
    /\ wait \in [Waits -> {"free", "armed", "queued", "notify", "callback"}]
    /\ error \in [Waits -> BOOLEAN]
    /\ wanted \in BOOLEAN
    /\ run \in Nat

\* cancelTask() and runNow(): "exactly one wait handler is kept in flight", from
\* the start of a run to its completion and none after it, however cancellation,
\* runNow(), expiry and restarts interleave with the handler.
OneHandler ==
    IF base.state \in {"Running", "PendingCompletion"}
    THEN \E w \in Waits : /\ wait[w] # "free"
                          /\ \A v \in Waits \ {w} : wait[v] = "free"
    ELSE \A w \in Waits : wait[w] = "free"

\* A cancelled timer task completes without its delay elapsing: the request is not
\* lost before the start, against an expiring wait or against a handler that is
\* arming the timer.
CancelCompletes ==
    base.cancelRequested /\ base.state = "Running" ~> base.state = "Completed"

\* A runNow() that finds the task running is followed by a call of run(), or by the
\* completion of the task that was under way, without the delay elapsing.
WakeUpNotLost == wanted ~> ~wanted \/ base.state # "Running"
=============================================================================
