------------------------- MODULE MultiOperationTask -------------------------
(***************************************************************************)
(* bl::tasks::MultiOperationTaskT over bl::tasks::TaskBase: a task with    *)
(* several asynchronous operations in flight.  Operations complete on any  *)
(* thread of the pool, in any order and at the same time.                  *)
(*                                                                         *)
(* The body of a handler runs under the task lock; its epilog,             *)
(* onOperationCompleted(), runs outside of it: the accounting under the    *)
(* leaf lock m_operationsLock, then initiateClose() and notifyReady() with *)
(* no lock held by the caller.  Each of these is a step.                   *)
(*                                                                         *)
(* An error is a value: "aborted" is asio::error::operation_aborted, an    *)
(* element of Ops is the error of that operation.  Whether an error is     *)
(* expected is part of what it is.                                         *)
(***************************************************************************)
EXTENDS Naturals, FiniteSets

CONSTANTS
    Ops,                \* names for operations; reused once the handler ended
    None,               \* no error
    StartOutcomes,      \* what scheduleTask() of the derived task may do
    FinishOutcomes,     \* what scheduleTaskFinishContinuation() may do
    MaxRuns             \* bound on the number of times the task is scheduled

Errors == Ops \cup {"aborted", "start", "finish"}

\* "starter" is the call of notifyReadyImpl() that scheduleNothrow() posts when
\* it fails, "finisher" the handler of the finish continuation.
Handlers == Ops \cup {"starter", "finisher"}

ASSUME ConstantsAssumption ==
    /\ IsFiniteSet(Ops)
    /\ Ops \cap {"aborted", "start", "finish", "starter", "finisher"} = {}
    /\ None \notin Errors
    /\ StartOutcomes \subseteq {"started", "failed", "failedPartly"}
    /\ FinishOutcomes \subseteq {"none", "continue", "throw"}
    /\ MaxRuns \in Nat

VARIABLES
    base,       \* the members of TaskBase
    acct,       \* the members m_operationsLock guards
    handler,    \* every handler: where it is and what it carries
    scheduling, \* TRUE between the two lock sections of scheduleNothrow()
    run,        \* how often the task has been scheduled
    history     \* what happened in this run, for the properties

vars == <<base, acct, handler, scheduling, run, history>>

-----------------------------------------------------------------------------
(* State                                                                   *)

EmptyAccounting ==
    [pendingOperations |-> 0, closing |-> FALSE, closeInitiated |-> FALSE,
     terminalTaken |-> FALSE, firstError |-> None]

NoHandler ==
    [pc |-> "free", error |-> None, sawClosing |-> FALSE, terminal |-> FALSE]

EmptyHistory ==
    [stops |-> 0, closes |-> 0, calls |-> 0, finishing |-> FALSE, firstFailure |-> None]

Init ==
    /\ base = [state |-> "Created", exception |-> None, notifyCalled |-> FALSE,
               cbReady |-> FALSE, cancelRequested |-> FALSE]
    /\ acct = EmptyAccounting
    /\ handler = [h \in Handlers |-> NoHandler]
    /\ scheduling = FALSE
    /\ run = 0
    /\ history = EmptyHistory

\* The task lock is held across the body of a handler.
TaskLockFree == \A o \in Ops : handler[o].pc # "body"

Free == {o \in Ops : handler[o].pc = "free"}

\* Operations that were begun and not yet accounted for.
Outstanding == {o \in Ops : handler[o].pc \in {"inflight", "queued", "body", "account"}}

\* beginOperation() and async_* for every operation of S.
Begin(h, S) ==
    [x \in Handlers |-> IF x \in S THEN [NoHandler EXCEPT !.pc = "inflight"] ELSE h[x]]

\* Cancelling a socket or a timer queues its handler with operation_aborted; a
\* handler that is queued already keeps the result it has.
Aborted(h) ==
    [x \in Handlers |-> IF x \in Ops /\ h[x].pc = "inflight"
                        THEN [h[x] EXCEPT !.pc = "queued", !.error = "aborted"]
                        ELSE h[x]]

-----------------------------------------------------------------------------
(* Scheduling and cancellation                                             *)

\* scheduleNothrow() of the mix-in: the accounting is per run.  The accounting
\* lock is released before the base class is called.
ScheduleReset ==
    /\ run < MaxRuns
    /\ ~scheduling
    /\ base.state \in {"Created", "Completed"}
    /\ acct' = EmptyAccounting
    /\ scheduling' = TRUE
    /\ UNCHANGED <<base, handler, run, history>>

\* scheduleNothrow() of TaskBase, under the task lock.  scheduleTask() begins the
\* operations of S; if it throws, or the task was cancelled before it started,
\* notifyReadyImpl() is posted to the thread pool.
ScheduleBase(outcome, S) ==
    LET cancelled == base.state = "Created" /\ base.cancelRequested
        error == IF cancelled THEN "aborted"
                 ELSE IF outcome = "started" THEN None ELSE "start"
        begun == IF cancelled \/ outcome = "failed" THEN {} ELSE S
        started == Begin(handler, begun)
    IN  /\ scheduling
        /\ TaskLockFree
        /\ S # {}
        /\ scheduling' = FALSE
        /\ run' = run + 1
        /\ base' = [state |-> "Running", exception |-> None, notifyCalled |-> FALSE,
                    cbReady |-> TRUE, cancelRequested |-> cancelled]
        /\ acct' = [acct EXCEPT !.pendingOperations = @ + Cardinality(begun)]
        /\ handler' = IF error = None THEN started
                      ELSE [started EXCEPT !["starter"] =
                               [NoHandler EXCEPT !.pc = "posted", !.error = error]]
        /\ history' = [EmptyHistory EXCEPT !.firstFailure = error]

\* requestCancel(); cancelTask() of the derived task cancels what is in flight.
RequestCancel ==
    /\ TaskLockFree
    /\ ~base.cancelRequested
    /\ base' = [base EXCEPT !.cancelRequested = TRUE]
    /\ handler' = IF base.state = "Running" THEN Aborted(handler) ELSE handler
    /\ UNCHANGED <<acct, scheduling, run, history>>

-----------------------------------------------------------------------------
(* Operations and their handlers                                           *)

\* The operation ends, with success or with an error of its own.
Complete(o) ==
    /\ handler[o].pc = "inflight"
    /\ \E e \in {None, o} :
          handler' = [handler EXCEPT ![o].pc = "queued", ![o].error = e]
    /\ UNCHANGED <<base, acct, scheduling, run, history>>

\* The prolog of the handler: the task lock is acquired, the error code and then
\* the cancellation are checked.  A body that goes on consults isClosing().
EnterBody(o) ==
    /\ handler[o].pc = "queued"
    /\ TaskLockFree
    /\ LET e == IF handler[o].error = None /\ base.cancelRequested
                THEN "aborted" ELSE handler[o].error
       IN  handler' = [handler EXCEPT ![o] = [@ EXCEPT
              !.pc = IF e = None THEN "body" ELSE "account",
              !.error = e, !.sawClosing = acct.closing]]
    /\ UNCHANGED <<base, acct, scheduling, run, history>>

\* Mutant: beginOperation() called once for all the operations of S.
BodyCountsOnce(o, S) ==
    /\ handler[o].pc = "body"
    /\ handler[o].sawClosing => S = {}
    /\ \/ handler[o].sawClosing
       \/ S # {}
       \/ \E p \in Ops \ {o} : handler[p].pc \in {"inflight", "queued"}
    /\ acct' = [acct EXCEPT !.pendingOperations = IF S = {} THEN @ ELSE @ + 1]
    /\ handler' = [Begin(handler, S) EXCEPT ![o].pc = "account"]
    /\ UNCHANGED <<base, scheduling, run, history>>

\* The body begins the operations of S unless it saw the task closing.  While the
\* task is not closing it leaves at least one operation in flight, as the mix-in
\* requires of the task.
BodyGoesOn(o, S) ==
    /\ handler[o].pc = "body"
    /\ handler[o].sawClosing => S = {}
    /\ \/ handler[o].sawClosing
       \/ S # {}
       \/ \E p \in Ops \ {o} : handler[p].pc \in {"inflight", "queued"}
    /\ acct' = [acct EXCEPT !.pendingOperations = @ + Cardinality(S)]
    /\ handler' = [Begin(handler, S) EXCEPT ![o].pc = "account"]
    /\ UNCHANGED <<base, scheduling, run, history>>

\* The body ends the task with beginClose().
BodyCloses(o) ==
    /\ handler[o].pc = "body"
    /\ acct' = [acct EXCEPT !.closing = TRUE]
    /\ handler' = [handler EXCEPT ![o].pc = "account"]
    /\ UNCHANGED <<base, scheduling, run, history>>

\* The body throws.
BodyThrows(o) ==
    /\ handler[o].pc = "body"
    /\ handler' = [handler EXCEPT ![o].pc = "account", ![o].error = o]
    /\ UNCHANGED <<base, acct, scheduling, run, history>>

-----------------------------------------------------------------------------
(* The epilog                                                              *)

\* Mutant: the first handler that fails completes the task.
TakeTerminalEarly(a) == ~a.terminalTaken /\ a.closing

\* takeTerminalNoLock()
TakeTerminal(a) ==
    ~a.terminalTaken /\ a.closing /\ a.pendingOperations = 0

\* Mutant: the last error wins.
AccountedLastError(a, e) ==
    LET closed == [a EXCEPT
            !.pendingOperations = IF @ # 0 THEN @ - 1 ELSE 0,
            !.firstError = IF e # None THEN e ELSE @,
            !.closing = @ \/ e # None]
    IN  [closed EXCEPT !.closeInitiated = closed.closing,
                       !.terminalTaken = @ \/ TakeTerminal(closed)]

\* Mutant: the count is decremented without looking at it.
AccountedUnguarded(a, e) ==
    LET first == e # None /\ a.firstError = None
        closed == [a EXCEPT
            !.pendingOperations = @ - 1,
            !.firstError = IF first THEN e ELSE @,
            !.closing = @ \/ first]
    IN  [closed EXCEPT !.closeInitiated = closed.closing,
                       !.terminalTaken = @ \/ TakeTerminal(closed)]

\* Mutant: the terminal path is looked for before the count is decremented.
AccountedTooSoon(a, e) ==
    LET first == e # None /\ a.firstError = None
        closed == [a EXCEPT
            !.firstError = IF first THEN e ELSE @,
            !.closing = @ \/ first]
    IN  [closed EXCEPT !.closeInitiated = closed.closing,
                       !.terminalTaken = @ \/ TakeTerminal(closed),
                       !.pendingOperations = IF @ # 0 THEN @ - 1 ELSE 0]

\* The decision of onOperationCompleted() for an operation that ended with e.
Accounted(a, e) ==
    LET first == e # None /\ a.firstError = None
        closed == [a EXCEPT
            !.pendingOperations = IF @ # 0 THEN @ - 1 ELSE 0,
            !.firstError = IF first THEN e ELSE @,
            !.closing = @ \/ first]
    IN  [closed EXCEPT !.closeInitiated = closed.closing,
                       !.terminalTaken = @ \/ TakeTerminal(closed)]

\* onOperationCompleted() under m_operationsLock.
OnOperationCompleted(o) ==
    LET decided == Accounted(acct, handler[o].error)
        close == decided.closeInitiated /\ ~acct.closeInitiated
        terminal == decided.terminalTaken /\ ~acct.terminalTaken
    IN  /\ handler[o].pc = "account"
        /\ acct' = decided
        /\ handler' = [handler EXCEPT ![o] =
              IF close \/ terminal
              THEN [NoHandler EXCEPT !.pc = IF close THEN "close" ELSE "notify",
                                     !.terminal = terminal,
                                     !.error = decided.firstError]
              ELSE NoHandler]
        /\ history' = [history EXCEPT !.firstFailure =
              IF @ = None THEN handler[o].error ELSE @]
        /\ UNCHANGED <<base, scheduling, run>>

\* applyDecision(): initiateClose() cancels the operations in flight or throws,
\* which is logged and discarded.
InitiateClose(o) ==
    /\ handler[o].pc = "close"
    /\ \E h \in {Aborted(handler), handler} :
          handler' = [h EXCEPT ![o] = IF @.terminal THEN [@ EXCEPT !.pc = "notify"]
                                      ELSE NoHandler]
    /\ history' = [history EXCEPT !.closes = @ + 1]
    /\ UNCHANGED <<base, acct, scheduling, run>>

-----------------------------------------------------------------------------
(* notifyReadyImpl()                                                       *)

\* scheduleTaskFinishContinuation() starts an asynchronous shutdown; the
\* completion is postponed to its handler.
FinishContinuation(h) ==
    /\ "continue" \in FinishOutcomes
    /\ ~history.finishing
    /\ handler["finisher"].pc = "free"
    /\ handler' = [handler EXCEPT ![h] = NoHandler,
                                  !["finisher"] = [NoHandler EXCEPT !.pc = "notify",
                                                      !.error = handler[h].error]]
    /\ history' = [history EXCEPT !.finishing = TRUE]
    /\ UNCHANGED base

\* Mutant: without the guard m_notifyCalled.
StopUnguarded(h, exception, e) ==
    /\ history' = [history EXCEPT !.stops = @ + 1,
                                  !.firstFailure = IF exception # None THEN exception ELSE @]
    /\ handler' = [handler EXCEPT ![h].pc = "callback"]
    /\ base' = [base EXCEPT
          !.exception = IF exception # None THEN exception ELSE IF @ # None THEN @ ELSE e,
          !.state = "PendingCompletion", !.notifyCalled = TRUE, !.cbReady = FALSE]

\* The rest of the lock section, for the error e the task is to complete with:
\* onTaskStoppedNothrow(), the guard m_notifyCalled, and the completion.  An
\* exception the task has already takes priority.
Stop(h, exception, e) ==
    /\ history' = [history EXCEPT !.stops = @ + 1,
                                  !.firstFailure = IF exception # None THEN exception ELSE @]
    /\ IF base.notifyCalled
       THEN /\ handler' = [handler EXCEPT ![h] = NoHandler]
            /\ base' = [base EXCEPT !.exception = IF exception = None THEN @ ELSE exception]
       ELSE /\ handler' = [handler EXCEPT ![h].pc = "callback"]
            /\ base' = [base EXCEPT
                  !.exception = IF exception # None THEN exception
                                ELSE IF @ # None THEN @ ELSE e,
                  !.state = "PendingCompletion", !.notifyCalled = TRUE, !.cbReady = FALSE]

\* notifyReady() of a handler that took the terminal path, and of the finish
\* continuation's handler.
NotifyReady(h) ==
    /\ handler[h].pc = "notify"
    /\ TaskLockFree
    /\ \/ FinishContinuation(h)
       \/ "throw" \in FinishOutcomes /\ Stop(h, "finish", "finish")
       \/ Stop(h, None, handler[h].error)
    /\ UNCHANGED <<acct, scheduling, run>>

\* The posted notifyReadyImpl(): no finish continuation.
NotifyNotStarted ==
    /\ handler["starter"].pc = "posted"
    /\ TaskLockFree
    /\ Stop("starter", None, handler["starter"].error)
    /\ UNCHANGED <<acct, scheduling, run>>

\* cbReady(): the queue completes the task.
CallReady(h) ==
    /\ handler[h].pc = "callback"
    /\ handler' = [handler EXCEPT ![h] = NoHandler]
    /\ base' = [base EXCEPT !.state = "Completed"]
    /\ history' = [history EXCEPT !.calls = @ + 1]
    /\ UNCHANGED <<acct, scheduling, run>>

-----------------------------------------------------------------------------
HandlerStep(h) ==
    \/ NotifyReady(h)
    \/ CallReady(h)
    \/ /\ h \in Ops
       /\ \/ Complete(h)
          \/ EnterBody(h)
          \/ \E S \in SUBSET Free : BodyGoesOn(h, S)
          \/ BodyCloses(h)
          \/ BodyThrows(h)
          \/ OnOperationCompleted(h)
          \/ InitiateClose(h)
    \/ h = "starter" /\ NotifyNotStarted

Next ==
    \/ ScheduleReset
    \/ \E outcome \in StartOutcomes, S \in SUBSET Free : ScheduleBase(outcome, S)
    \/ RequestCancel
    \/ \E h \in Handlers : HandlerStep(h)

Spec == Init /\ [][Next]_vars

\* Every operation ends, handlers run and a started schedule is finished.  Nothing
\* is assumed of the queue and of cancellation.
Fairness ==
    /\ \A h \in Handlers : WF_vars(HandlerStep(h))
    /\ WF_vars(\E outcome \in StartOutcomes, S \in SUBSET Free : ScheduleBase(outcome, S))

FairSpec == Spec /\ Fairness

-----------------------------------------------------------------------------
(* Properties                                                              *)

\* The types of the variables.  The count is never negative, even when a handler
\* of an earlier run is accounted for after the count was reset.
TypeOK ==
    /\ base \in [state: {"Created", "Running", "PendingCompletion", "Completed"},
                 exception: Errors \cup {None}, notifyCalled: BOOLEAN,
                 cbReady: BOOLEAN, cancelRequested: BOOLEAN]
    /\ acct \in [pendingOperations: Nat, closing: BOOLEAN, closeInitiated: BOOLEAN,
                 terminalTaken: BOOLEAN, firstError: Errors \cup {None}]
    /\ handler \in [Handlers -> [pc: {"free", "inflight", "queued", "body", "account",
                                      "close", "notify", "callback", "posted"},
                                 error: Errors \cup {None},
                                 sawClosing: BOOLEAN, terminal: BOOLEAN]]
    /\ scheduling \in BOOLEAN
    /\ run \in Nat
    /\ history \in [stops: Nat, closes: Nat, calls: Nat, finishing: BOOLEAN,
                    firstFailure: Errors \cup {None}]

\* m_pendingOperations is the number of operations that were begun and whose
\* handler has not been accounted for, over every interleaving of handler bodies
\* that begin operations and of epilogs: BL_ASSERT( 0U != m_pendingOperations )
\* never fires.
CountMatches == acct.pendingOperations = Cardinality(Outstanding)

\* The task has one terminal path and takes it after its operations: the finish
\* continuation, onTaskStoppedNothrow() and the completion happen once per run and
\* with no operation outstanding.
FinishAfterOperations ==
    /\ history.stops <= 1
    /\ history.finishing \/ base.state \in {"PendingCompletion", "Completed"}
          => Outstanding = {}

\* A task completes with the first error that was accounted for, and without one
\* if no operation failed, unless the finish continuation replaced it.
OutcomeIsFirstFailure ==
    base.state \in {"PendingCompletion", "Completed"}
        => base.exception = history.firstFailure

\* Scheduling and the ready callback keep the promise the execution queue relies
\* on: one callback per schedule, whatever fails.
Contract == INSTANCE TaskContract WITH
    phase <- IF base.state \in {"Running", "PendingCompletion"} THEN "running" ELSE "idle",
    calls <- history.calls

KeepsContract == Contract!Spec

\* A task that has entered the closing state completes: the epilog of the last
\* operation takes the terminal path.
ClosingTaskCompletes ==
    acct.closing /\ base.state = "Running" ~> base.state = "Completed"

\* MultiOperationTask.h on initiateClose(): "It is called exactly once per run".
CloseOncePerRun == history.closes <= 1
=============================================================================
