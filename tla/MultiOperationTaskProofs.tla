---------------------- MODULE MultiOperationTaskProofs ----------------------
(***************************************************************************)
(* Proofs about MultiOperationTask, for any number of operations and of    *)
(* runs.  The contract with the queue is kept whatever scheduleTask()      *)
(* does; the rest holds when scheduleTask() fails before it begins an      *)
(* operation, as the mix-in asks of the derived task.                      *)
(***************************************************************************)
EXTENDS MultiOperationTask, FiniteSetTheorems, TLAPS

(***************************************************************************)
(* The type of a handler.                                                  *)
(***************************************************************************)
HandlerType ==
    [pc: {"free", "inflight", "queued", "body", "account",
          "close", "notify", "callback", "posted"},
     error: Errors \cup {None}, sawClosing: BOOLEAN, terminal: BOOLEAN]

(***************************************************************************)
(* m_notifyCalled and the state: of all the handlers, those of earlier     *)
(* runs included, one calls the ready callback, and it does so while the   *)
(* state is PendingCompletion.                                             *)
(***************************************************************************)
CompletionKnown ==
    /\ \A h \in Handlers : handler[h].pc = "callback" => base.state = "PendingCompletion"
    /\ \A g, h \in Handlers :
          handler[g].pc = "callback" /\ handler[h].pc = "callback" => g = h
    /\ base.state = "Running" => ~base.notifyCalled
    /\ base.state \in {"PendingCompletion", "Completed"} => base.notifyCalled
    /\ base.state = "Created" => \A h \in Handlers : handler[h].pc = "free"
    /\ base.state \in {"Running", "PendingCompletion"} => history.calls = 0
    /\ scheduling => base.state \in {"Created", "Completed"}

BaseInv == TypeOK /\ CompletionKnown

(***************************************************************************)
(* The handlers on the terminal path: the one that took it on its way to   *)
(* the completion, the finish continuation it may hand the task over to,   *)
(* and the notification of a start that failed.                            *)
(***************************************************************************)
Completers ==
    {h \in Handlers :
        \/ handler[h].pc = "close" /\ handler[h].terminal
        \/ handler[h].pc \in {"notify", "posted", "callback"}}

(***************************************************************************)
(* At most one handler is on the terminal path, and when one is, or when   *)
(* no run is in progress, no operation is outstanding.                     *)
(***************************************************************************)
TerminalKnown ==
    /\ \A o \in Ops : handler[o].pc \notin {"free", "close", "notify", "callback"} =>
          base.state = "Running" /\ Completers = {} /\ ~history.finishing
    /\ \A h \in Handlers \ Ops : handler[h].pc \in {"free", "notify", "posted", "callback"}
    /\ \A h \in Ops : handler[h].pc # "posted" /\ (handler[h].pc = "notify" => handler[h].terminal)
    /\ \A g, h \in Completers : g = h
    /\ \A h \in Completers :
          IF handler[h].pc = "callback" THEN base.state = "PendingCompletion"
          ELSE base.state = "Running"

(***************************************************************************)
(* The task stops once in a run.                                           *)
(***************************************************************************)
StopsKnown ==
    history.stops = IF base.state \in {"Created", "Running"} THEN 0 ELSE 1

(***************************************************************************)
(* What the task has to complete with is what the accounting has recorded  *)
(* and what the handler on the terminal path carries.                      *)
(***************************************************************************)
ErrorKnown ==
    /\ base.state = "Running" => base.exception = None
    /\ Outstanding # {} => acct.firstError = history.firstFailure
    /\ \A h \in Completers :
          handler[h].pc # "callback" => handler[h].error = history.firstFailure
    /\ scheduling => acct = EmptyAccounting

IInv ==
    /\ BaseInv /\ CountMatches /\ TerminalKnown /\ StopsKnown /\ ErrorKnown
    /\ OutcomeIsFirstFailure

-----------------------------------------------------------------------------
(* The types, and what each action assigns.                                *)

BaseType ==
    [state: {"Created", "Running", "PendingCompletion", "Completed"},
     exception: Errors \cup {None}, notifyCalled: BOOLEAN,
     cbReady: BOOLEAN, cancelRequested: BOOLEAN]

AccountingType ==
    [pendingOperations: Nat, closing: BOOLEAN, closeInitiated: BOOLEAN,
     terminalTaken: BOOLEAN, firstError: Errors \cup {None}]

HistoryType ==
    [stops: Nat, closes: Nat, calls: Nat, finishing: BOOLEAN,
     firstFailure: Errors \cup {None}]

(***************************************************************************)
(* TypeOK, by the names of the types.                                      *)
(***************************************************************************)
LEMMA Typed ==
    TypeOK <=> /\ base \in BaseType
               /\ acct \in AccountingType
               /\ handler \in [Handlers -> HandlerType]
               /\ scheduling \in BOOLEAN
               /\ run \in Nat
               /\ history \in HistoryType
BY DEF TypeOK, BaseType, AccountingType, HandlerType, HistoryType

LEMMA TypedNext ==
    TypeOK' <=> /\ base' \in BaseType
                /\ acct' \in AccountingType
                /\ handler' \in [Handlers -> HandlerType]
                /\ scheduling' \in BOOLEAN
                /\ run' \in Nat
                /\ history' \in HistoryType
BY DEF TypeOK, BaseType, AccountingType, HandlerType, HistoryType

(***************************************************************************)
(* A handler that is given a place keeps the rest of its members.          *)
(***************************************************************************)
LEMMA HandlerMoved ==
    ASSUME NEW r \in HandlerType,
           NEW p \in {"free", "inflight", "queued", "body", "account",
                      "close", "notify", "callback", "posted"}
    PROVE  /\ [r EXCEPT !.pc = p] \in HandlerType
           /\ [r EXCEPT !.pc = p].pc = p
           /\ [r EXCEPT !.pc = p].error = r.error
           /\ [r EXCEPT !.pc = p].terminal = r.terminal
BY DEF HandlerType

LEMMA HandlerAnswered ==
    ASSUME NEW r \in HandlerType, NEW e \in Errors \cup {None},
           NEW p \in {"free", "inflight", "queued", "body", "account",
                      "close", "notify", "callback", "posted"}
    PROVE  /\ [r EXCEPT !.pc = p, !.error = e] \in HandlerType
           /\ [r EXCEPT !.pc = p, !.error = e].pc = p
           /\ [r EXCEPT !.pc = p, !.error = e].error = e
BY DEF HandlerType

(***************************************************************************)
(* A handler without one is as it was made.                                *)
(***************************************************************************)
LEMMA NoHandlerTyped ==
    /\ NoHandler \in HandlerType
    /\ NoHandler.pc = "free" /\ NoHandler.error = None /\ ~NoHandler.terminal
BY DEF NoHandler, HandlerType

LEMMA NewHandler ==
    ASSUME NEW e \in Errors \cup {None}, NEW t \in BOOLEAN,
           NEW p \in {"free", "inflight", "queued", "body", "account",
                      "close", "notify", "callback", "posted"}
    PROVE  /\ [NoHandler EXCEPT !.pc = p, !.error = e] \in HandlerType
           /\ [NoHandler EXCEPT !.pc = p, !.error = e].pc = p
           /\ [NoHandler EXCEPT !.pc = p, !.error = e].error = e
           /\ [NoHandler EXCEPT !.pc = p, !.terminal = t, !.error = e] \in HandlerType
           /\ [NoHandler EXCEPT !.pc = p, !.terminal = t, !.error = e].pc = p
           /\ [NoHandler EXCEPT !.pc = p, !.terminal = t, !.error = e].error = e
           /\ [NoHandler EXCEPT !.pc = p, !.terminal = t, !.error = e].terminal = t
           /\ [NoHandler EXCEPT !.pc = p] \in HandlerType
           /\ [NoHandler EXCEPT !.pc = p].pc = p
BY DEF NoHandler, HandlerType

(***************************************************************************)
(* Operations, the starter and the finisher are different handlers.        *)
(***************************************************************************)
LEMMA HandlersApart ==
    /\ Ops \subseteq Handlers /\ {"starter", "finisher"} \subseteq Handlers
    /\ "starter" \notin Ops /\ "finisher" \notin Ops
    /\ \A h \in Handlers \ Ops : h \in {"starter", "finisher"}
    /\ Ops \subseteq Errors /\ {"aborted", "start", "finish"} \subseteq Errors
    /\ None \notin Errors
BY ConstantsAssumption DEF Handlers, Errors

(***************************************************************************)
(* beginOperation() takes free handlers and gives them to the operations;  *)
(* the others are left alone.                                              *)
(***************************************************************************)
LEMMA BeginShape ==
    ASSUME handler \in [Handlers -> HandlerType], NEW S \in SUBSET Ops
    PROVE  /\ Begin(handler, S) \in [Handlers -> HandlerType]
           /\ \A h \in Handlers \ S : Begin(handler, S)[h] = handler[h]
           /\ \A h \in S : Begin(handler, S)[h].pc = "inflight"
<1>1. [NoHandler EXCEPT !.pc = "inflight"] \in HandlerType
      /\ [NoHandler EXCEPT !.pc = "inflight"].pc = "inflight"
  BY NewHandler, NoHandlerTyped DEF HandlerType
<1> QED BY <1>1, HandlersApart DEF Begin

(***************************************************************************)
(* Cancelling queues the handlers of the operations in flight.             *)
(***************************************************************************)
LEMMA AbortedShape ==
    ASSUME handler \in [Handlers -> HandlerType]
    PROVE  /\ Aborted(handler) \in [Handlers -> HandlerType]
           /\ \A h \in Handlers :
                 h \notin Ops \/ handler[h].pc # "inflight"
                    => Aborted(handler)[h] = handler[h]
           /\ \A h \in Ops :
                 handler[h].pc = "inflight" => Aborted(handler)[h].pc = "queued"
<1>1. ASSUME NEW h \in Handlers
      PROVE  /\ [handler[h] EXCEPT !.pc = "queued", !.error = "aborted"] \in HandlerType
             /\ [handler[h] EXCEPT !.pc = "queued", !.error = "aborted"].pc = "queued"
  <2>1. handler[h] \in HandlerType /\ "aborted" \in Errors \cup {None}
    BY HandlersApart
  <2> QED BY <2>1 DEF HandlerType
<1> QED BY <1>1, HandlersApart DEF Aborted

-----------------------------------------------------------------------------
(* The shape of each action.                                               *)

(***************************************************************************)
(* scheduleNothrow() of the base class.                                    *)
(***************************************************************************)
LEMMA ScheduleBaseShape ==
    ASSUME TypeOK, NEW outcome \in StartOutcomes, NEW S \in SUBSET Free,
           ScheduleBase(outcome, S)
    PROVE  \E begun \in {S, {}}, error \in {None, "aborted", "start"} :
              /\ error # None /\ outcome # "failedPartly" => begun = {}
              /\ TypeOK'
              /\ base'.state = "Running" /\ base'.exception = None /\ ~base'.notifyCalled
              /\ acct'.pendingOperations = acct.pendingOperations + Cardinality(begun)
              /\ acct'.firstError = acct.firstError
              /\ \A h \in begun : handler'[h].pc = "inflight"
              /\ \A h \in Handlers \ (begun \cup {"starter"}) : handler'[h] = handler[h]
              /\ IF error = None THEN handler'["starter"] = handler["starter"]
                 ELSE handler'["starter"].pc = "posted" /\ handler'["starter"].error = error
              /\ history' = [EmptyHistory EXCEPT !.firstFailure = error]
              /\ ~scheduling'
<1> DEFINE cancelled == base.state = "Created" /\ base.cancelRequested
           error == IF cancelled THEN "aborted"
                    ELSE IF outcome = "started" THEN None ELSE "start"
           begun == IF cancelled \/ outcome = "failed" THEN {} ELSE S
           started == Begin(handler, begun)
<1>1. /\ scheduling' = FALSE
      /\ run' = run + 1
      /\ base' = [state |-> "Running", exception |-> None, notifyCalled |-> FALSE,
                  cbReady |-> TRUE, cancelRequested |-> cancelled]
      /\ acct' = [acct EXCEPT !.pendingOperations = @ + Cardinality(begun)]
      /\ handler' = IF error = None THEN started
                    ELSE [started EXCEPT !["starter"] =
                             [NoHandler EXCEPT !.pc = "posted", !.error = error]]
      /\ history' = [EmptyHistory EXCEPT !.firstFailure = error]
  BY DEF ScheduleBase
<1>2. /\ begun \in {S, {}} /\ error \in {None, "aborted", "start"}
      /\ error \in Errors \cup {None} /\ cancelled \in BOOLEAN
      /\ error # None /\ outcome # "failedPartly" => begun = {}
      /\ begun \in SUBSET Ops
  BY HandlersApart, ConstantsAssumption DEF Free
<1>3. Cardinality(begun) \in Nat
  BY <1>2, ConstantsAssumption, FS_Subset, FS_CardinalityType
<1> HIDE DEF cancelled, error, begun, started
<1>4. /\ started \in [Handlers -> HandlerType]
      /\ \A h \in begun : started[h].pc = "inflight"
      /\ \A h \in Handlers \ begun : started[h] = handler[h]
  BY <1>2, BeginShape, Typed DEF started
<1> DEFINE posted == [NoHandler EXCEPT !.pc = "posted", !.error = error]
<1>5. posted \in HandlerType /\ posted.pc = "posted" /\ posted.error = error
  BY <1>2, NewHandler
<1>6. handler' = IF error = None THEN started ELSE [started EXCEPT !["starter"] = posted]
  BY <1>1
<1> HIDE DEF posted
<1>7. /\ handler' \in [Handlers -> HandlerType]
      /\ \A h \in begun : handler'[h].pc = "inflight"
      /\ \A h \in Handlers \ (begun \cup {"starter"}) : handler'[h] = handler[h]
      /\ IF error = None THEN handler'["starter"] = handler["starter"]
         ELSE handler'["starter"].pc = "posted" /\ handler'["starter"].error = error
  BY <1>2, <1>4, <1>5, <1>6, HandlersApart
<1>8. /\ acct' \in AccountingType
      /\ acct'.pendingOperations = acct.pendingOperations + Cardinality(begun)
      /\ acct'.firstError = acct.firstError
  BY <1>1, <1>3, Typed DEF AccountingType
<1>9. base' \in BaseType /\ history' \in HistoryType
  BY <1>1, <1>2 DEF BaseType, HistoryType, EmptyHistory
<1>a. run' \in Nat /\ scheduling' \in BOOLEAN
  <2>1. run \in Nat /\ run' = run + 1
    BY <1>1, Typed
  <2>2. run' \in Nat
    BY <2>1
  <2>3. scheduling' \in BOOLEAN
    BY <1>1
  <2> QED BY <2>2, <2>3
<1>10. TypeOK'
  BY <1>a, <1>7, <1>8, <1>9, Typed, TypedNext
<1> QED BY <1>1, <1>2, <1>7, <1>8, <1>10

(***************************************************************************)
(* requestCancel()                                                         *)
(***************************************************************************)
LEMMA RequestCancelShape ==
    ASSUME TypeOK, RequestCancel
    PROVE  /\ TypeOK'
           /\ base'.state = base.state /\ base'.exception = base.exception
           /\ base'.notifyCalled = base.notifyCalled
           /\ handler' \in {handler, Aborted(handler)}
           /\ base.state # "Running" => handler' = handler
           /\ UNCHANGED <<acct, scheduling, run, history>>
<1>1. /\ base' = [base EXCEPT !.cancelRequested = TRUE]
      /\ handler' = IF base.state = "Running" THEN Aborted(handler) ELSE handler
      /\ UNCHANGED <<acct, scheduling, run, history>>
  BY DEF RequestCancel
<1>2. /\ base' \in BaseType
      /\ base'.state = base.state /\ base'.exception = base.exception
      /\ base'.notifyCalled = base.notifyCalled
  BY <1>1, Typed DEF BaseType
<1>3. handler' \in [Handlers -> HandlerType]
  BY <1>1, Typed, AbortedShape
<1>4. TypeOK'
  BY <1>1, <1>2, <1>3, Typed, TypedNext
<1> QED BY <1>1, <1>2, <1>4

(***************************************************************************)
(* A step of the handler of o that leaves every other handler alone.       *)
(***************************************************************************)
LEMMA HandlerStepTyped ==
    ASSUME handler \in [Handlers -> HandlerType], NEW o \in Handlers,
           NEW r \in HandlerType, handler' = [handler EXCEPT ![o] = r]
    PROVE  /\ handler' \in [Handlers -> HandlerType]
           /\ handler'[o] = r
           /\ \A h \in Handlers \ {o} : handler'[h] = handler[h]
OBVIOUS

(***************************************************************************)
(* The operation ends, its handler enters its body or fails in the prolog, *)
(* and the body throws: nothing but the place and the error of the handler *)
(* changes.                                                                *)
(***************************************************************************)
LEMMA CompleteShape ==
    ASSUME TypeOK, NEW o \in Ops, Complete(o)
    PROVE  /\ TypeOK' /\ handler[o].pc = "inflight" /\ handler'[o].pc = "queued"
           /\ \A h \in Handlers \ {o} : handler'[h] = handler[h]
           /\ UNCHANGED <<base, acct, scheduling, run, history>>
<1>1. PICK e \in {None, o} :
         handler' = [handler EXCEPT ![o].pc = "queued", ![o].error = e]
  BY DEF Complete
<1>2. handler[o] \in HandlerType /\ e \in Errors \cup {None} /\ o \in Handlers
  BY HandlersApart, Typed
<1> DEFINE r == [handler[o] EXCEPT !.pc = "queued", !.error = e]
<1>3. r \in HandlerType /\ r.pc = "queued"
  BY <1>2, HandlerAnswered
<1>4. handler' = [handler EXCEPT ![o] = r]
  BY <1>1
<1> HIDE DEF r
<1>5. /\ handler' \in [Handlers -> HandlerType] /\ handler'[o] = r
      /\ \A h \in Handlers \ {o} : handler'[h] = handler[h]
  BY <1>2, <1>3, <1>4, HandlerStepTyped, Typed
<1>6. handler[o].pc = "inflight" /\ UNCHANGED <<base, acct, scheduling, run, history>>
  BY DEF Complete
<1> QED BY <1>3, <1>5, <1>6, Typed, TypedNext

LEMMA EnterBodyShape ==
    ASSUME TypeOK, NEW o \in Ops, EnterBody(o)
    PROVE  /\ TypeOK' /\ handler[o].pc = "queued"
           /\ handler'[o].pc \in {"body", "account"}
           /\ \A h \in Handlers \ {o} : handler'[h] = handler[h]
           /\ UNCHANGED <<base, acct, scheduling, run, history>>
<1> DEFINE e == IF handler[o].error = None /\ base.cancelRequested
                THEN "aborted" ELSE handler[o].error
           p == IF e = None THEN "body" ELSE "account"
           r == [handler[o] EXCEPT !.pc = p, !.error = e, !.sawClosing = acct.closing]
<1>1. handler' = [handler EXCEPT ![o] = r]
  BY DEF EnterBody
<1>2. /\ handler[o] \in HandlerType /\ e \in Errors \cup {None} /\ o \in Handlers
      /\ p \in {"body", "account"} /\ acct.closing \in BOOLEAN
  BY HandlersApart, Typed DEF HandlerType, AccountingType
<1> HIDE DEF e, p
<1>3. r \in HandlerType /\ r.pc \in {"body", "account"}
  BY <1>2 DEF HandlerType
<1> HIDE DEF r
<1>5. /\ handler' \in [Handlers -> HandlerType] /\ handler'[o] = r
      /\ \A h \in Handlers \ {o} : handler'[h] = handler[h]
  BY <1>1, <1>2, <1>3, HandlerStepTyped, Typed
<1>6. handler[o].pc = "queued" /\ UNCHANGED <<base, acct, scheduling, run, history>>
  BY DEF EnterBody
<1> QED BY <1>3, <1>5, <1>6, Typed, TypedNext

LEMMA BodyThrowsShape ==
    ASSUME TypeOK, NEW o \in Ops, BodyThrows(o)
    PROVE  /\ TypeOK' /\ handler[o].pc = "body" /\ handler'[o].pc = "account"
           /\ \A h \in Handlers \ {o} : handler'[h] = handler[h]
           /\ UNCHANGED <<base, acct, scheduling, run, history>>
<1>1. handler[o] \in HandlerType /\ o \in Errors \cup {None} /\ o \in Handlers
  BY HandlersApart, Typed
<1> DEFINE r == [handler[o] EXCEPT !.pc = "account", !.error = o]
<1>2. r \in HandlerType /\ r.pc = "account"
  BY <1>1, HandlerAnswered
<1>3. handler' = [handler EXCEPT ![o] = r]
  BY DEF BodyThrows
<1> HIDE DEF r
<1>4. /\ handler' \in [Handlers -> HandlerType] /\ handler'[o] = r
      /\ \A h \in Handlers \ {o} : handler'[h] = handler[h]
  BY <1>1, <1>2, <1>3, HandlerStepTyped, Typed
<1>5. handler[o].pc = "body" /\ UNCHANGED <<base, acct, scheduling, run, history>>
  BY DEF BodyThrows
<1> QED BY <1>2, <1>4, <1>5, Typed, TypedNext

(***************************************************************************)
(* beginClose() from a body                                                *)
(***************************************************************************)
LEMMA BodyClosesShape ==
    ASSUME TypeOK, NEW o \in Ops, BodyCloses(o)
    PROVE  /\ TypeOK' /\ handler[o].pc = "body" /\ handler'[o].pc = "account"
           /\ \A h \in Handlers \ {o} : handler'[h] = handler[h]
           /\ acct'.pendingOperations = acct.pendingOperations
           /\ acct'.firstError = acct.firstError
           /\ UNCHANGED <<base, scheduling, run, history>>
<1>1. handler[o] \in HandlerType /\ o \in Handlers
  BY HandlersApart, Typed
<1> DEFINE r == [handler[o] EXCEPT !.pc = "account"]
<1>2. r \in HandlerType /\ r.pc = "account"
  BY <1>1, HandlerMoved
<1>3. handler' = [handler EXCEPT ![o] = r]
  BY DEF BodyCloses
<1> HIDE DEF r
<1>4. /\ handler' \in [Handlers -> HandlerType] /\ handler'[o] = r
      /\ \A h \in Handlers \ {o} : handler'[h] = handler[h]
  BY <1>1, <1>2, <1>3, HandlerStepTyped, Typed
<1>5. /\ acct' \in AccountingType
      /\ acct'.pendingOperations = acct.pendingOperations
      /\ acct'.firstError = acct.firstError
  BY Typed DEF AccountingType, BodyCloses
<1>6. handler[o].pc = "body" /\ UNCHANGED <<base, scheduling, run, history>>
  BY DEF BodyCloses
<1> QED BY <1>2, <1>4, <1>5, <1>6, Typed, TypedNext

(***************************************************************************)
(* A body that begins operations.                                          *)
(***************************************************************************)
LEMMA BodyGoesOnShape ==
    ASSUME TypeOK, NEW o \in Ops, NEW S \in SUBSET Free, BodyGoesOn(o, S)
    PROVE  /\ TypeOK' /\ handler[o].pc = "body" /\ handler'[o].pc = "account"
           /\ \A h \in S : handler'[h].pc = "inflight"
           /\ \A h \in Handlers \ (S \cup {o}) : handler'[h] = handler[h]
           /\ acct'.pendingOperations = acct.pendingOperations + Cardinality(S)
           /\ acct'.firstError = acct.firstError
           /\ UNCHANGED <<base, scheduling, run, history>>
<1> DEFINE b == Begin(handler, S)
           r == [b[o] EXCEPT !.pc = "account"]
<1>1. S \in SUBSET Ops /\ o \notin S /\ o \in Handlers
  BY HandlersApart DEF Free, BodyGoesOn
<1>2. /\ b \in [Handlers -> HandlerType]
      /\ \A h \in Handlers \ S : b[h] = handler[h]
      /\ \A h \in S : b[h].pc = "inflight"
  BY <1>1, BeginShape, Typed
<1>3. /\ handler' = [b EXCEPT ![o] = r]
      /\ acct' = [acct EXCEPT !.pendingOperations = @ + Cardinality(S)]
      /\ handler[o].pc = "body" /\ UNCHANGED <<base, scheduling, run, history>>
  BY DEF BodyGoesOn
<1> HIDE DEF b
<1>4. r \in HandlerType /\ r.pc = "account"
  BY <1>1, <1>2, HandlerMoved
<1> HIDE DEF r
<1>5. /\ handler' \in [Handlers -> HandlerType] /\ handler'[o].pc = "account"
      /\ \A h \in S : handler'[h].pc = "inflight"
      /\ \A h \in Handlers \ (S \cup {o}) : handler'[h] = handler[h]
  BY <1>1, <1>2, <1>3, <1>4, HandlersApart
<1>6. Cardinality(S) \in Nat
  BY <1>1, ConstantsAssumption, FS_Subset, FS_CardinalityType
<1>7. /\ acct' \in AccountingType
      /\ acct'.pendingOperations = acct.pendingOperations + Cardinality(S)
      /\ acct'.firstError = acct.firstError
  BY <1>3, <1>6, Typed DEF AccountingType
<1> QED BY <1>3, <1>5, <1>7, Typed, TypedNext

(***************************************************************************)
(* What the accounting decides: the count goes down by one, and the first  *)
(* error is recorded.                                                      *)
(***************************************************************************)
LEMMA AccountedShape ==
    ASSUME NEW a \in AccountingType, NEW e \in Errors \cup {None}
    PROVE  /\ Accounted(a, e) \in AccountingType
           /\ Accounted(a, e).pendingOperations =
                 IF a.pendingOperations # 0 THEN a.pendingOperations - 1 ELSE 0
           /\ Accounted(a, e).firstError =
                 IF a.firstError = None THEN e ELSE a.firstError
           /\ Accounted(a, e).terminalTaken /\ ~a.terminalTaken
                 => Accounted(a, e).pendingOperations = 0
<1> DEFINE first == e # None /\ a.firstError = None
           closed == [a EXCEPT
               !.pendingOperations = IF @ # 0 THEN @ - 1 ELSE 0,
               !.firstError = IF first THEN e ELSE @,
               !.closing = @ \/ first]
<1>1. /\ a.pendingOperations \in Nat /\ a.firstError \in Errors \cup {None}
      /\ a.closing \in BOOLEAN /\ a.terminalTaken \in BOOLEAN
      /\ (IF a.pendingOperations # 0 THEN a.pendingOperations - 1 ELSE 0) \in Nat
  BY DEF AccountingType
<1>2. /\ closed \in AccountingType
      /\ closed.pendingOperations =
            IF a.pendingOperations # 0 THEN a.pendingOperations - 1 ELSE 0
      /\ closed.firstError = IF a.firstError = None THEN e ELSE a.firstError
      /\ closed.terminalTaken = a.terminalTaken
  BY <1>1 DEF AccountingType
<1>3. Accounted(a, e) = [closed EXCEPT !.closeInitiated = closed.closing,
                                       !.terminalTaken = @ \/ TakeTerminal(closed)]
  BY DEF Accounted
<1> HIDE DEF closed
<1>4. /\ TakeTerminal(closed) \in BOOLEAN
      /\ TakeTerminal(closed) => closed.pendingOperations = 0
      /\ closed.closing \in BOOLEAN
  BY <1>2 DEF TakeTerminal, AccountingType
<1>5. (closed.terminalTaken \/ TakeTerminal(closed)) \in BOOLEAN
  BY <1>4
<1>6. PICK t \in BOOLEAN : t = (closed.terminalTaken \/ TakeTerminal(closed))
  BY <1>5
<1>7. Accounted(a, e) = [closed EXCEPT !.closeInitiated = closed.closing,
                                       !.terminalTaken = t]
  BY <1>3, <1>6
<1>8. /\ Accounted(a, e) \in AccountingType
      /\ Accounted(a, e).pendingOperations = closed.pendingOperations
      /\ Accounted(a, e).firstError = closed.firstError
      /\ Accounted(a, e).terminalTaken = t
  BY <1>2, <1>4, <1>7 DEF AccountingType
<1> QED BY <1>2, <1>4, <1>6, <1>8

(***************************************************************************)
(* onOperationCompleted(): the handler ends, or goes on to apply what it   *)
(* decided.                                                                *)
(***************************************************************************)
LEMMA OnOperationCompletedShape ==
    ASSUME TypeOK, NEW o \in Ops, OnOperationCompleted(o)
    PROVE  /\ TypeOK' /\ handler[o].pc = "account"
           /\ \/ handler'[o].pc = "free"
              \/ handler'[o].pc = "close" /\ handler'[o].terminal = FALSE
              \/ /\ handler'[o].pc \in {"close", "notify"}
                 /\ handler'[o].terminal = TRUE
                 /\ handler'[o].error = acct'.firstError
                 /\ acct'.pendingOperations = 0
           /\ \A h \in Handlers \ {o} : handler'[h] = handler[h]
           /\ acct'.pendingOperations =
                 IF acct.pendingOperations # 0 THEN acct.pendingOperations - 1 ELSE 0
           /\ acct'.firstError =
                 IF acct.firstError = None THEN handler[o].error ELSE acct.firstError
           /\ history'.firstFailure =
                 IF history.firstFailure = None THEN handler[o].error
                 ELSE history.firstFailure
           /\ history'.stops = history.stops /\ history'.calls = history.calls
           /\ history'.finishing = history.finishing
           /\ UNCHANGED <<base, scheduling, run>>
<1> DEFINE decided == Accounted(acct, handler[o].error)
           close == decided.closeInitiated /\ ~acct.closeInitiated
           terminal == decided.terminalTaken /\ ~acct.terminalTaken
           r == IF close \/ terminal
                THEN [NoHandler EXCEPT !.pc = IF close THEN "close" ELSE "notify",
                                       !.terminal = terminal,
                                       !.error = decided.firstError]
                ELSE NoHandler
<1>1. /\ handler[o].pc = "account"
      /\ acct' = decided
      /\ handler' = [handler EXCEPT ![o] = r]
      /\ history' = [history EXCEPT !.firstFailure =
            IF @ = None THEN handler[o].error ELSE @]
      /\ UNCHANGED <<base, scheduling, run>>
  BY DEF OnOperationCompleted
<1>2. /\ handler[o].error \in Errors \cup {None} /\ o \in Handlers
      /\ acct \in AccountingType /\ history \in HistoryType
  BY HandlersApart, Typed DEF HandlerType
<1>3. /\ decided \in AccountingType
      /\ decided.pendingOperations =
            IF acct.pendingOperations # 0 THEN acct.pendingOperations - 1 ELSE 0
      /\ decided.firstError =
            IF acct.firstError = None THEN handler[o].error ELSE acct.firstError
      /\ decided.terminalTaken /\ ~acct.terminalTaken => decided.pendingOperations = 0
  BY <1>2, AccountedShape
<1> HIDE DEF decided
<1>4. /\ close \in BOOLEAN /\ terminal \in BOOLEAN
      /\ decided.firstError \in Errors \cup {None}
      /\ terminal => decided.pendingOperations = 0
  BY <1>2, <1>3 DEF AccountingType
<1> HIDE DEF close, terminal
<1> DEFINE p == IF close THEN "close" ELSE "notify"
           q == [NoHandler EXCEPT !.pc = p, !.terminal = terminal,
                                  !.error = decided.firstError]
<1>5. /\ q \in HandlerType /\ q.pc = p /\ q.terminal = terminal
      /\ q.error = decided.firstError
  <2>1. p \in {"close", "notify"}
    OBVIOUS
  <2> HIDE DEF p
  <2> QED BY <1>4, <2>1 DEF NoHandler, HandlerType
<1>6. r = IF close \/ terminal THEN q ELSE NoHandler
  OBVIOUS
<1> HIDE DEF q, r
<1>7. /\ r \in HandlerType
      /\ \/ r.pc = "free"
         \/ r.pc = "close" /\ r.terminal = FALSE
         \/ /\ r.pc \in {"close", "notify"} /\ terminal /\ r.terminal = TRUE
            /\ r.error = decided.firstError
  BY <1>4, <1>5, <1>6, NoHandlerTyped
<1>8. /\ handler' \in [Handlers -> HandlerType] /\ handler'[o] = r
      /\ \A h \in Handlers \ {o} : handler'[h] = handler[h]
  BY <1>1, <1>2, <1>7, HandlerStepTyped, Typed
<1>9. /\ history' \in HistoryType
      /\ history'.firstFailure = IF history.firstFailure = None THEN handler[o].error
                                 ELSE history.firstFailure
      /\ history'.stops = history.stops /\ history'.calls = history.calls
      /\ history'.finishing = history.finishing
  BY <1>1, <1>2 DEF HistoryType
<1>10. TypeOK'
  BY <1>1, <1>3, <1>8, <1>9, Typed, TypedNext
<1> QED BY <1>1, <1>3, <1>4, <1>7, <1>8, <1>9, <1>10

(***************************************************************************)
(* initiateClose()                                                         *)
(***************************************************************************)
LEMMA InitiateCloseShape ==
    ASSUME TypeOK, NEW o \in Ops, InitiateClose(o)
    PROVE  \E g \in {Aborted(handler), handler} :
              /\ TypeOK' /\ handler[o].pc = "close" /\ g[o] = handler[o]
              /\ IF handler[o].terminal
                 THEN /\ handler'[o].pc = "notify" /\ handler'[o].terminal
                      /\ handler'[o].error = handler[o].error
                 ELSE handler'[o].pc = "free"
              /\ \A h \in Handlers \ {o} : handler'[h] = g[h]
              /\ history'.firstFailure = history.firstFailure
              /\ history'.stops = history.stops /\ history'.calls = history.calls
              /\ history'.finishing = history.finishing
              /\ UNCHANGED <<base, acct, scheduling, run>>
<1>1. /\ handler[o].pc = "close"
      /\ history' = [history EXCEPT !.closes = @ + 1]
      /\ UNCHANGED <<base, acct, scheduling, run>>
  BY DEF InitiateClose
<1>2. PICK g \in {Aborted(handler), handler} :
         handler' = [g EXCEPT ![o] = IF @.terminal THEN [@ EXCEPT !.pc = "notify"]
                                     ELSE NoHandler]
  BY DEF InitiateClose
<1>3. /\ handler[o] \in HandlerType /\ o \in Handlers /\ o \in Ops
      /\ history \in HistoryType
  BY HandlersApart, Typed
<1>4. g \in [Handlers -> HandlerType] /\ g[o] = handler[o]
  BY <1>1, <1>3, AbortedShape, Typed
<1> DEFINE q == [handler[o] EXCEPT !.pc = "notify"]
           r == IF handler[o].terminal THEN q ELSE NoHandler
<1>5. /\ q \in HandlerType /\ q.pc = "notify" /\ q.terminal = handler[o].terminal
      /\ q.error = handler[o].error
  BY <1>3, HandlerMoved
<1>6. handler' = [g EXCEPT ![o] = r]
  BY <1>2, <1>4
<1> HIDE DEF q
<1>7. /\ r \in HandlerType
      /\ IF handler[o].terminal
         THEN r.pc = "notify" /\ r.terminal /\ r.error = handler[o].error
         ELSE r.pc = "free"
  BY <1>5, NoHandlerTyped
<1> HIDE DEF r
<1>8. /\ handler' \in [Handlers -> HandlerType] /\ handler'[o] = r
      /\ \A h \in Handlers \ {o} : handler'[h] = g[h]
  BY <1>3, <1>4, <1>6, <1>7
<1>9. /\ history' \in HistoryType
      /\ history'.firstFailure = history.firstFailure
      /\ history'.stops = history.stops /\ history'.calls = history.calls
      /\ history'.finishing = history.finishing
  BY <1>1, <1>3 DEF HistoryType
<1>10. TypeOK'
  BY <1>1, <1>8, <1>9, Typed, TypedNext
<1> QED BY <1>1, <1>4, <1>7, <1>8, <1>9, <1>10

(***************************************************************************)
(* The finish continuation takes the completion over from handler h.       *)
(***************************************************************************)
LEMMA FinishContinuationShape ==
    ASSUME TypeOK, NEW h \in Handlers, handler[h].pc = "notify",
           FinishContinuation(h), UNCHANGED <<acct, scheduling, run>>
    PROVE  /\ TypeOK' /\ h # "finisher" /\ handler["finisher"].pc = "free"
           /\ handler'[h].pc = "free"
           /\ handler'["finisher"].pc = "notify"
           /\ handler'["finisher"].error = handler[h].error
           /\ \A g \in Handlers \ {h, "finisher"} : handler'[g] = handler[g]
           /\ history'.firstFailure = history.firstFailure
           /\ history'.stops = history.stops /\ history'.calls = history.calls
           /\ UNCHANGED <<base, acct, scheduling, run>>
<1> DEFINE r == [NoHandler EXCEPT !.pc = "notify", !.error = handler[h].error]
<1>1. /\ handler["finisher"].pc = "free"
      /\ handler' = [handler EXCEPT ![h] = NoHandler, !["finisher"] = r]
      /\ history' = [history EXCEPT !.finishing = TRUE]
      /\ UNCHANGED base
  BY DEF FinishContinuation
<1>2. /\ handler[h].error \in Errors \cup {None} /\ "finisher" \in Handlers
      /\ history \in HistoryType /\ h # "finisher"
  BY <1>1, HandlersApart, Typed DEF HandlerType
<1>3. r \in HandlerType /\ r.pc = "notify" /\ r.error = handler[h].error
  BY <1>2 DEF NoHandler, HandlerType
<1> HIDE DEF r
<1>4. /\ handler' \in [Handlers -> HandlerType]
      /\ handler'["finisher"] = r /\ handler'[h] = NoHandler
      /\ \A g \in Handlers \ {h, "finisher"} : handler'[g] = handler[g]
  BY <1>1, <1>2, <1>3, NoHandlerTyped, Typed
<1>5. /\ history' \in HistoryType
      /\ history'.firstFailure = history.firstFailure
      /\ history'.stops = history.stops /\ history'.calls = history.calls
  BY <1>1, <1>2 DEF HistoryType
<1>6. TypeOK'
  BY <1>1, <1>4, <1>5, Typed, TypedNext
<1> QED BY <1>1, <1>2, <1>3, <1>4, <1>5, <1>6, NoHandlerTyped

(***************************************************************************)
(* The lock section of notifyReadyImpl().                                  *)
(***************************************************************************)
LEMMA StopShape ==
    ASSUME TypeOK, NEW h \in Handlers, NEW exception \in {None, "finish"},
           NEW e \in Errors \cup {None},
           Stop(h, exception, e), UNCHANGED <<acct, scheduling, run>>
    PROVE  /\ TypeOK'
           /\ history'.stops = history.stops + 1 /\ history'.calls = history.calls
           /\ history'.finishing = history.finishing
           /\ history'.firstFailure = IF exception # None THEN exception
                                      ELSE history.firstFailure
           /\ \A g \in Handlers \ {h} : handler'[g] = handler[g]
           /\ UNCHANGED <<acct, scheduling, run>>
           /\ IF base.notifyCalled
              THEN /\ handler'[h].pc = "free"
                   /\ base'.state = base.state /\ base'.notifyCalled
              ELSE /\ handler'[h].pc = "callback"
                   /\ base'.state = "PendingCompletion" /\ base'.notifyCalled
                   /\ base'.exception = IF exception # None THEN exception
                                        ELSE IF base.exception # None THEN base.exception
                                        ELSE e
<1>1. /\ exception \in Errors \cup {None}
      /\ base \in BaseType /\ history \in HistoryType /\ handler[h] \in HandlerType
      /\ handler \in [Handlers -> HandlerType]
  BY HandlersApart, Typed
<1>2. /\ history' \in HistoryType
      /\ history'.stops = history.stops + 1 /\ history'.calls = history.calls
      /\ history'.finishing = history.finishing
      /\ history'.firstFailure = IF exception # None THEN exception
                                 ELSE history.firstFailure
  <2> DEFINE f == IF exception # None THEN exception ELSE history.firstFailure
             n == history.stops + 1
  <2>1. history' = [history EXCEPT !.stops = n, !.firstFailure = f]
    BY DEF Stop
  <2>2. f \in Errors \cup {None} /\ n \in Nat
    BY <1>1 DEF HistoryType
  <2> HIDE DEF f, n
  <2>3. /\ history' \in HistoryType
        /\ history'.stops = n /\ history'.calls = history.calls
        /\ history'.finishing = history.finishing
        /\ history'.firstFailure = f
    BY <1>1, <2>1, <2>2 DEF HistoryType
  <2> QED BY <2>3 DEF f, n
<1>3. CASE base.notifyCalled
  <2>1. /\ handler' = [handler EXCEPT ![h] = NoHandler]
        /\ base' = [base EXCEPT !.exception = IF exception = None THEN @ ELSE exception]
    BY <1>3 DEF Stop
  <2>2. /\ handler' \in [Handlers -> HandlerType] /\ handler'[h].pc = "free"
        /\ \A g \in Handlers \ {h} : handler'[g] = handler[g]
    BY <1>1, <2>1, NoHandlerTyped
  <2>3. base' \in BaseType /\ base'.state = base.state /\ base'.notifyCalled
    BY <1>1, <1>3, <2>1 DEF BaseType
  <2>4. TypeOK'
    BY <1>2, <2>2, <2>3, Typed, TypedNext
  <2> QED BY <1>2, <1>3, <2>2, <2>3, <2>4
<1>4. CASE ~base.notifyCalled
  <2> DEFINE r == [handler[h] EXCEPT !.pc = "callback"]
  <2>1. /\ handler' = [handler EXCEPT ![h] = r]
        /\ base' = [base EXCEPT
              !.exception = IF exception # None THEN exception
                            ELSE IF @ # None THEN @ ELSE e,
              !.state = "PendingCompletion", !.notifyCalled = TRUE, !.cbReady = FALSE]
    BY <1>4 DEF Stop
  <2>2. r \in HandlerType /\ r.pc = "callback"
    BY <1>1 DEF HandlerType
  <2> HIDE DEF r
  <2>3. /\ handler' \in [Handlers -> HandlerType] /\ handler'[h].pc = "callback"
        /\ \A g \in Handlers \ {h} : handler'[g] = handler[g]
    BY <1>1, <2>1, <2>2
  <2>4. /\ base' \in BaseType
        /\ base'.state = "PendingCompletion" /\ base'.notifyCalled
        /\ base'.exception = IF exception # None THEN exception
                             ELSE IF base.exception # None THEN base.exception ELSE e
    BY <1>1, <2>1 DEF BaseType
  <2>5. TypeOK'
    BY <1>2, <2>3, <2>4, Typed, TypedNext
  <2> QED BY <1>2, <1>4, <2>3, <2>4, <2>5
<1> QED BY <1>3, <1>4

(***************************************************************************)
(* notifyReady() hands the task over to the finish continuation, or stops  *)
(* it with the error of the continuation or with the one it carries.       *)
(***************************************************************************)
LEMMA NotifyReadyShape ==
    ASSUME TypeOK, NEW h \in Handlers, NotifyReady(h)
    PROVE  /\ handler[h].pc = "notify" /\ TaskLockFree
           /\ UNCHANGED <<acct, scheduling, run>>
           /\ \/ FinishContinuation(h)
              \/ \E exception \in {None, "finish"}, e \in Errors \cup {None} :
                    /\ Stop(h, exception, e)
                    /\ exception = None => e = handler[h].error
<1>1. handler[h].error \in Errors \cup {None} /\ "finish" \in Errors \cup {None}
      /\ None # "finish"
  BY HandlersApart, Typed DEF HandlerType
<1>2. CASE "throw" \in FinishOutcomes /\ Stop(h, "finish", "finish")
  BY <1>1, <1>2 DEF NotifyReady
<1>3. CASE Stop(h, None, handler[h].error)
  BY <1>1, <1>3 DEF NotifyReady
<1> QED BY <1>2, <1>3 DEF NotifyReady

(***************************************************************************)
(* The ready callback.                                                     *)
(***************************************************************************)
LEMMA CallReadyShape ==
    ASSUME TypeOK, NEW h \in Handlers, CallReady(h)
    PROVE  /\ TypeOK' /\ handler[h].pc = "callback" /\ handler'[h].pc = "free"
           /\ \A g \in Handlers \ {h} : handler'[g] = handler[g]
           /\ base'.state = "Completed" /\ base'.exception = base.exception
           /\ base'.notifyCalled = base.notifyCalled
           /\ history'.stops = history.stops /\ history'.calls = history.calls + 1
           /\ history'.finishing = history.finishing
           /\ history'.firstFailure = history.firstFailure
           /\ UNCHANGED <<acct, scheduling, run>>
<1>1. /\ base \in BaseType /\ history \in HistoryType
      /\ handler \in [Handlers -> HandlerType]
  BY Typed
<1>2. /\ base' \in BaseType
      /\ base'.state = "Completed" /\ base'.exception = base.exception
      /\ base'.notifyCalled = base.notifyCalled
  BY <1>1 DEF CallReady, BaseType
<1>3. /\ history' \in HistoryType
      /\ history'.stops = history.stops /\ history'.calls = history.calls + 1
      /\ history'.finishing = history.finishing
      /\ history'.firstFailure = history.firstFailure
  BY <1>1 DEF CallReady, HistoryType
<1>4. handler' = [handler EXCEPT ![h] = NoHandler] /\ handler[h].pc = "callback"
      /\ UNCHANGED <<acct, scheduling, run>>
  BY DEF CallReady
<1>5. /\ handler' \in [Handlers -> HandlerType] /\ handler'[h].pc = "free"
      /\ \A g \in Handlers \ {h} : handler'[g] = handler[g]
  BY <1>1, <1>4, NoHandlerTyped
<1>6. TypeOK'
  BY <1>2, <1>3, <1>4, <1>5, Typed, TypedNext
<1> QED BY <1>2, <1>3, <1>4, <1>5, <1>6

-----------------------------------------------------------------------------
(* The invariant of the completion, for every scheduleTask().              *)

LEMMA InitBase == Init => BaseInv
<1> SUFFICES ASSUME Init PROVE BaseInv
  OBVIOUS
<1>1. handler = [h \in Handlers |-> NoHandler]
  BY DEF Init
<1>2. /\ handler \in [Handlers -> HandlerType]
      /\ \A h \in Handlers : handler[h].pc = "free"
  BY <1>1, NoHandlerTyped
<1>3. /\ base \in BaseType /\ base.state = "Created"
      /\ scheduling = FALSE /\ run \in Nat
  BY DEF Init, BaseType
<1>4. acct \in AccountingType /\ history \in HistoryType /\ history.calls = 0
  BY DEF Init, AccountingType, HistoryType, EmptyAccounting, EmptyHistory
<1>5. TypeOK
  BY <1>2, <1>3, <1>4, Typed
<1> QED BY <1>2, <1>3, <1>4, <1>5 DEF BaseInv, CompletionKnown

(***************************************************************************)
(* A step of handlers that neither ends one that is about to call back nor *)
(* makes one, and that keeps the state, keeps the invariant.               *)
(***************************************************************************)
LEMMA HandlersMove ==
    ASSUME BaseInv, TypeOK',
           base'.state = base.state, base'.notifyCalled = base.notifyCalled,
           history'.calls = history.calls, scheduling' = scheduling,
           base.state # "Created" \/ \A h \in Handlers : handler'[h].pc = "free",
           \A h \in Handlers : handler'[h].pc = "callback" => handler[h].pc = "callback"
    PROVE  BaseInv'
BY DEF BaseInv, CompletionKnown

(***************************************************************************)
(* The lock section of notifyReadyImpl() keeps it: a second completer of   *)
(* the run finds m_notifyCalled.                                           *)
(***************************************************************************)
LEMMA StopBase ==
    ASSUME BaseInv, NEW h \in Handlers, NEW exception \in {None, "finish"},
           NEW e \in Errors \cup {None}, handler[h].pc \in {"notify", "posted"},
           Stop(h, exception, e), UNCHANGED <<acct, scheduling, run>>
    PROVE  BaseInv'
<1>1. /\ TypeOK' /\ history'.calls = history.calls /\ scheduling' = scheduling
      /\ \A g \in Handlers \ {h} : handler'[g] = handler[g]
      /\ IF base.notifyCalled
         THEN /\ handler'[h].pc = "free"
              /\ base'.state = base.state /\ base'.notifyCalled
         ELSE /\ handler'[h].pc = "callback"
              /\ base'.state = "PendingCompletion" /\ base'.notifyCalled
  BY StopShape DEF BaseInv
<1>2. base.state # "Created"
  BY DEF BaseInv, CompletionKnown
<1>3. CASE base.notifyCalled
  <2>1. base'.state = base.state /\ base'.notifyCalled /\ handler'[h].pc = "free"
    BY <1>1, <1>3
  <2>2. \A g \in Handlers : handler'[g].pc = "callback" => handler[g].pc = "callback"
    BY <1>1, <2>1
  <2> QED BY <1>1, <1>2, <1>3, <2>1, <2>2 DEF BaseInv, CompletionKnown
<1>4. CASE ~base.notifyCalled
  <2>1. base.state = "Running"
    <3>1. base.state \in {"Created", "Running", "PendingCompletion", "Completed"}
      BY Typed DEF BaseInv, BaseType
    <3> QED BY <1>2, <1>4, <3>1 DEF BaseInv, CompletionKnown
  <2>2. /\ base'.state = "PendingCompletion" /\ base'.notifyCalled
        /\ handler'[h].pc = "callback"
    BY <1>1, <1>4
  <2>3. \A g \in Handlers : handler'[g].pc = "callback" => g = h
    BY <1>1, <2>1 DEF BaseInv, CompletionKnown
  <2>4. history'.calls = 0 /\ ~scheduling'
    BY <1>1, <2>1 DEF BaseInv, CompletionKnown
  <2> QED BY <1>1, <2>2, <2>3, <2>4 DEF BaseInv, CompletionKnown
<1> QED BY <1>3, <1>4

LEMMA ScheduleBaseBase ==
    ASSUME BaseInv, NEW outcome \in StartOutcomes, NEW S \in SUBSET Free,
           ScheduleBase(outcome, S)
    PROVE  BaseInv'
<1>1. scheduling
  BY DEF ScheduleBase
<1>2. \A h \in Handlers : handler[h].pc # "callback"
  BY <1>1 DEF BaseInv, CompletionKnown
<1>3. PICK begun \in {S, {}}, error \in {None, "aborted", "start"} :
         /\ TypeOK' /\ base'.state = "Running" /\ ~base'.notifyCalled
         /\ \A h \in begun : handler'[h].pc = "inflight"
         /\ \A h \in Handlers \ (begun \cup {"starter"}) : handler'[h] = handler[h]
         /\ IF error = None THEN handler'["starter"] = handler["starter"]
            ELSE handler'["starter"].pc = "posted" /\ handler'["starter"].error = error
         /\ history' = [EmptyHistory EXCEPT !.firstFailure = error]
         /\ ~scheduling'
  BY ScheduleBaseShape DEF BaseInv
<1>4. \A h \in Handlers : handler'[h].pc # "callback"
  BY <1>2, <1>3, HandlersApart
<1>5. history'.calls = 0
  BY <1>3 DEF EmptyHistory
<1> QED BY <1>3, <1>4, <1>5 DEF BaseInv, CompletionKnown

LEMMA RequestCancelBase == ASSUME BaseInv, RequestCancel PROVE BaseInv'
<1>1. /\ TypeOK'
      /\ base'.state = base.state /\ base'.notifyCalled = base.notifyCalled
      /\ handler' \in {handler, Aborted(handler)}
      /\ base.state # "Running" => handler' = handler
      /\ scheduling' = scheduling /\ history' = history
  BY RequestCancelShape DEF BaseInv
<1>2. \A h \in Handlers : handler'[h].pc = "callback" => handler[h].pc = "callback"
  BY <1>1, AbortedShape, Typed DEF BaseInv
<1>3. base.state = "Created" => \A h \in Handlers : handler'[h].pc = "free"
  BY <1>1 DEF BaseInv, CompletionKnown
<1> QED BY <1>1, <1>2, <1>3, HandlersMove

LEMMA CallReadyBase == ASSUME BaseInv, NEW h \in Handlers, CallReady(h) PROVE BaseInv'
<1>1. /\ TypeOK' /\ handler[h].pc = "callback" /\ handler'[h].pc = "free"
      /\ \A g \in Handlers \ {h} : handler'[g] = handler[g]
      /\ base'.state = "Completed"
      /\ base'.notifyCalled = base.notifyCalled
      /\ scheduling' = scheduling
  BY CallReadyShape DEF BaseInv
<1>2. base.state = "PendingCompletion" /\ base.notifyCalled
  BY <1>1 DEF BaseInv, CompletionKnown
<1>3. \A g \in Handlers : handler'[g].pc # "callback"
  BY <1>1 DEF BaseInv, CompletionKnown
<1> QED BY <1>1, <1>2, <1>3 DEF BaseInv, CompletionKnown

(***************************************************************************)
(* The steps of an operation's handler up to the terminal path.            *)
(***************************************************************************)
LEMMA OperationBase ==
    ASSUME BaseInv, NEW o \in Ops,
           \/ Complete(o)
           \/ EnterBody(o)
           \/ \E S \in SUBSET Free : BodyGoesOn(o, S)
           \/ BodyCloses(o)
           \/ BodyThrows(o)
           \/ OnOperationCompleted(o)
           \/ InitiateClose(o)
    PROVE  BaseInv'
<1>1. TypeOK /\ o \in Handlers /\ handler \in [Handlers -> HandlerType]
  BY HandlersApart, Typed DEF BaseInv
<1> SUFFICES /\ TypeOK' /\ base' = base /\ scheduling' = scheduling
             /\ history'.calls = history.calls
             /\ handler[o].pc # "free"
             /\ \A h \in Handlers : handler'[h].pc = "callback" => handler[h].pc = "callback"
  BY <1>1, HandlersMove DEF BaseInv, CompletionKnown
<1>2. CASE Complete(o)
  BY <1>1, <1>2, CompleteShape
<1>3. CASE EnterBody(o)
  BY <1>1, <1>3, EnterBodyShape
<1>4. ASSUME NEW S \in SUBSET Free, BodyGoesOn(o, S)
      PROVE  /\ TypeOK' /\ base' = base /\ scheduling' = scheduling
             /\ history'.calls = history.calls
             /\ handler[o].pc # "free"
             /\ \A h \in Handlers : handler'[h].pc = "callback" => handler[h].pc = "callback"
  BY <1>1, <1>4, BodyGoesOnShape
<1>5. CASE BodyCloses(o)
  BY <1>1, <1>5, BodyClosesShape
<1>6. CASE BodyThrows(o)
  BY <1>1, <1>6, BodyThrowsShape
<1>7. CASE OnOperationCompleted(o)
  BY <1>1, <1>7, OnOperationCompletedShape
<1>8. CASE InitiateClose(o)
  BY <1>1, <1>8, InitiateCloseShape, AbortedShape
<1> QED BY <1>2, <1>3, <1>4, <1>5, <1>6, <1>7, <1>8

LEMMA NextBase == ASSUME BaseInv, [Next]_vars PROVE BaseInv'
<1>1. CASE ScheduleReset
  <2>1. /\ acct' = EmptyAccounting /\ scheduling' = TRUE
        /\ base.state \in {"Created", "Completed"}
        /\ UNCHANGED <<base, handler, run, history>>
    BY <1>1 DEF ScheduleReset
  <2>2. acct' \in AccountingType
    BY <2>1 DEF AccountingType, EmptyAccounting
  <2>3. TypeOK'
    BY <2>1, <2>2, Typed, TypedNext DEF BaseInv
  <2> QED BY <2>1, <2>3 DEF BaseInv, CompletionKnown
<1>2. ASSUME NEW outcome \in StartOutcomes, NEW S \in SUBSET Free, ScheduleBase(outcome, S)
      PROVE  BaseInv'
  BY <1>2, ScheduleBaseBase
<1>3. CASE RequestCancel
  BY <1>3, RequestCancelBase
<1>4. ASSUME NEW h \in Handlers, NotifyReady(h) PROVE BaseInv'
  <2>1. TypeOK
    BY DEF BaseInv
  <2>2. handler[h].pc = "notify" /\ UNCHANGED <<acct, scheduling, run>>
    BY <1>4, <2>1, NotifyReadyShape
  <2>3. CASE FinishContinuation(h)
    <3>1. /\ TypeOK' /\ handler'[h].pc = "free" /\ handler'["finisher"].pc = "notify"
          /\ \A g \in Handlers \ {h, "finisher"} : handler'[g] = handler[g]
          /\ history'.calls = history.calls
          /\ base' = base /\ scheduling' = scheduling
      BY <2>1, <2>2, <2>3, FinishContinuationShape
    <3>2. \A g \in Handlers : handler'[g].pc = "callback" => handler[g].pc = "callback"
      BY <3>1
    <3>3. base.state # "Created"
      BY <2>2 DEF BaseInv, CompletionKnown
    <3> QED BY <3>1, <3>2, <3>3, HandlersMove
  <2>4. ASSUME NEW exception \in {None, "finish"}, NEW e \in Errors \cup {None},
               Stop(h, exception, e)
        PROVE  BaseInv'
    BY <2>2, <2>4, StopBase
  <2> QED BY <1>4, <2>1, <2>3, <2>4, NotifyReadyShape
<1>5. ASSUME NotifyNotStarted PROVE BaseInv'
  <2>1. /\ handler["starter"].pc = "posted" /\ "starter" \in Handlers
        /\ handler["starter"].error \in Errors \cup {None}
        /\ Stop("starter", None, handler["starter"].error)
        /\ UNCHANGED <<acct, scheduling, run>>
    BY <1>5, HandlersApart, Typed DEF NotifyNotStarted, BaseInv, HandlerType
  <2> QED BY <2>1, StopBase
<1>6. ASSUME NEW h \in Handlers, CallReady(h) PROVE BaseInv'
  BY <1>6, CallReadyBase
<1>7. CASE UNCHANGED vars
  <2>1. UNCHANGED <<base, acct, handler, scheduling, run, history>>
    BY <1>7 DEF vars
  <2> QED BY <2>1, Typed, TypedNext DEF BaseInv, CompletionKnown
<1> QED BY <1>1, <1>2, <1>3, <1>4, <1>5, <1>6, <1>7, OperationBase DEF Next, HandlerStep

(***************************************************************************)
(* The variables keep their types and the completion is known, whatever    *)
(* scheduleTask() and the handlers do.                                     *)
(***************************************************************************)
THEOREM BaseCorrect == Spec => []BaseInv
<1>1. Init => BaseInv
  BY InitBase
<1>2. BaseInv /\ [Next]_vars => BaseInv'
  BY NextBase
<1> QED BY <1>1, <1>2, PTL DEF Spec

(***************************************************************************)
(* The types, for every interleaving of handlers: the count of operations  *)
(* never wraps below zero.                                                 *)
(***************************************************************************)
THEOREM TypeCorrect == Spec => []TypeOK
<1>1. BaseInv => TypeOK
  BY DEF BaseInv
<1> QED BY <1>1, BaseCorrect, PTL

-----------------------------------------------------------------------------
(* The contract with the execution queue.                                  *)

(***************************************************************************)
(* Every step schedules the contract, calls back or is not seen by it.     *)
(***************************************************************************)
LEMMA ContractStep ==
    ASSUME BaseInv, [Next]_vars PROVE [Contract!Next]_(Contract!contractVars)
<1> USE DEF Contract!Next, Contract!contractVars
<1>0. TypeOK
  BY DEF BaseInv
<1> SUFFICES ASSUME Next PROVE [Contract!Next]_(Contract!contractVars)
  BY DEF vars
<1>1. ASSUME base' = base, history'.calls = history.calls
      PROVE  [Contract!Next]_(Contract!contractVars)
  BY <1>1
<1>2. CASE ScheduleReset
  BY <1>1, <1>2 DEF ScheduleReset
<1>3. ASSUME NEW outcome \in StartOutcomes, NEW S \in SUBSET Free, ScheduleBase(outcome, S)
      PROVE  [Contract!Next]_(Contract!contractVars)
  <2>1. base.state \in {"Created", "Completed"}
    BY <1>3 DEF ScheduleBase, BaseInv, CompletionKnown
  <2>2. /\ base'.state = "Running"
        /\ \E error : history' = [EmptyHistory EXCEPT !.firstFailure = error]
    BY <1>0, <1>3, ScheduleBaseShape
  <2>3. history'.calls = 0
    BY <2>2 DEF EmptyHistory
  <2> QED BY <2>1, <2>2, <2>3 DEF Contract!ScheduleNothrow
<1>4. CASE RequestCancel
  <2>1. base'.state = base.state /\ history' = history
    BY <1>0, <1>4, RequestCancelShape
  <2> QED BY <2>1
<1>5. ASSUME NEW h \in Handlers, NEW exception \in {None, "finish"},
             NEW e \in Errors \cup {None}, handler[h].pc \in {"notify", "posted"},
             Stop(h, exception, e), UNCHANGED <<acct, scheduling, run>>
      PROVE  [Contract!Next]_(Contract!contractVars)
  <2>1. /\ history'.calls = history.calls
        /\ IF base.notifyCalled THEN base'.state = base.state
           ELSE base'.state = "PendingCompletion"
    BY <1>0, <1>5, StopShape
  <2>2. ~base.notifyCalled => base.state = "Running"
    <3>1. base.state \in {"Created", "Running", "PendingCompletion", "Completed"}
      BY <1>0, Typed DEF BaseType
    <3> QED BY <1>5, <3>1 DEF BaseInv, CompletionKnown
  <2> QED BY <2>1, <2>2
<1>6. ASSUME NEW h \in Handlers, NotifyReady(h)
      PROVE  [Contract!Next]_(Contract!contractVars)
  <2>1. handler[h].pc = "notify" /\ UNCHANGED <<acct, scheduling, run>>
    BY <1>0, <1>6, NotifyReadyShape
  <2>2. CASE FinishContinuation(h)
    BY <1>0, <1>1, <2>1, <2>2, FinishContinuationShape
  <2>3. ASSUME NEW exception \in {None, "finish"}, NEW e \in Errors \cup {None},
               Stop(h, exception, e)
        PROVE  [Contract!Next]_(Contract!contractVars)
    BY <1>5, <2>1, <2>3
  <2> QED BY <1>0, <1>6, <2>2, <2>3, NotifyReadyShape
<1>7. ASSUME NotifyNotStarted PROVE [Contract!Next]_(Contract!contractVars)
  <2>1. /\ handler["starter"].pc = "posted" /\ "starter" \in Handlers
        /\ handler["starter"].error \in Errors \cup {None}
        /\ Stop("starter", None, handler["starter"].error)
        /\ UNCHANGED <<acct, scheduling, run>>
    BY <1>0, <1>7, HandlersApart, Typed DEF NotifyNotStarted, HandlerType
  <2> QED BY <1>5, <2>1
<1>8. ASSUME NEW h \in Handlers, CallReady(h)
      PROVE  [Contract!Next]_(Contract!contractVars)
  <2>1. /\ handler[h].pc = "callback" /\ base'.state = "Completed"
        /\ history'.calls = history.calls + 1
    BY <1>0, <1>8, CallReadyShape
  <2>2. base.state = "PendingCompletion" /\ history.calls = 0
    BY <2>1, <1>8 DEF BaseInv, CompletionKnown
  <2> QED BY <2>1, <2>2 DEF Contract!CallbackReady
<1>9. ASSUME NEW o \in Ops,
             \/ Complete(o)
             \/ EnterBody(o)
             \/ \E S \in SUBSET Free : BodyGoesOn(o, S)
             \/ BodyCloses(o)
             \/ BodyThrows(o)
             \/ OnOperationCompleted(o)
             \/ InitiateClose(o)
      PROVE  [Contract!Next]_(Contract!contractVars)
  <2>1. /\ Complete(o) => base' = base /\ history' = history
        /\ EnterBody(o) => base' = base /\ history' = history
        /\ (\E S \in SUBSET Free : BodyGoesOn(o, S)) => base' = base /\ history' = history
        /\ BodyCloses(o) => base' = base /\ history' = history
        /\ BodyThrows(o) => base' = base /\ history' = history
    BY DEF Complete, EnterBody, BodyGoesOn, BodyCloses, BodyThrows
  <2>2. /\ OnOperationCompleted(o) => base' = base /\ history'.calls = history.calls
        /\ InitiateClose(o) => base' = base /\ history'.calls = history.calls
    BY <1>0, OnOperationCompletedShape, InitiateCloseShape
  <2> QED BY <1>1, <1>9, <2>1, <2>2
<1> QED BY <1>2, <1>3, <1>4, <1>6, <1>7, <1>8, <1>9 DEF Next, HandlerStep

(***************************************************************************)
(* The task implements the contract its queue relies on: between two       *)
(* schedules the ready callback is called once, whatever scheduleTask(),   *)
(* the operations and the finish continuation do.                          *)
(***************************************************************************)
THEOREM ImplementsContract == Spec => KeepsContract
<1>1. Init => Contract!Init
  BY DEF Init, EmptyHistory, Contract!Init
<1>2. BaseInv /\ [Next]_vars => [Contract!Next]_(Contract!contractVars)
  BY ContractStep
<1> QED BY <1>1, <1>2, BaseCorrect, PTL DEF Spec, KeepsContract, Contract!Spec

-----------------------------------------------------------------------------
(* The accounting, when scheduleTask() throws before it begins operations. *)

(***************************************************************************)
(* A task that throws from scheduleTask() after it began operations breaks *)
(* what the mix-in asks of it; the theorems below exclude it.              *)
(***************************************************************************)
StartsWhole == StartOutcomes \subseteq {"started", "failed"}

OutstandingPlaces == {"inflight", "queued", "body", "account"}

(***************************************************************************)
(* The operations that count are finitely many.                            *)
(***************************************************************************)
LEMMA OutstandingFinite ==
    /\ IsFiniteSet(Outstanding) /\ Cardinality(Outstanding) \in Nat
    /\ Outstanding = {o \in Ops : handler[o].pc \in OutstandingPlaces}
    /\ Outstanding \subseteq Ops
BY ConstantsAssumption, FS_Subset, FS_CardinalityType DEF Outstanding, OutstandingPlaces

(***************************************************************************)
(* What an operation that counts says of the task, and what a handler on   *)
(* the terminal path says of it.                                           *)
(***************************************************************************)
LEMMA OperationFacts ==
    ASSUME IInv, NEW o \in Ops, handler[o].pc \in OutstandingPlaces
    PROVE  /\ base.state = "Running" /\ Completers = {} /\ ~history.finishing
           /\ o \in Outstanding /\ o \in Handlers
           /\ acct.firstError = history.firstFailure
           /\ ~scheduling
<1>1. o \in Outstanding /\ o \in Handlers
  BY OutstandingFinite, HandlersApart
<1>2. base.state = "Running" /\ Completers = {} /\ ~history.finishing
  BY DEF IInv, TerminalKnown, OutstandingPlaces
<1>3. acct.firstError = history.firstFailure
  BY <1>1 DEF IInv, ErrorKnown
<1>4. ~scheduling
  BY <1>2 DEF IInv, BaseInv, CompletionKnown
<1> QED BY <1>1, <1>2, <1>3, <1>4

LEMMA CompleterFacts ==
    ASSUME IInv, NEW h \in Completers
    PROVE  /\ Outstanding = {} /\ Completers = {h}
           /\ handler[h].pc # "callback" => /\ base.state = "Running"
                                            /\ ~base.notifyCalled
                                            /\ base.exception = None
                                            /\ handler[h].error = history.firstFailure
           /\ handler[h].pc = "callback" => base.state = "PendingCompletion"
           /\ ~scheduling
<1>1. Outstanding = {}
  BY OutstandingFinite DEF IInv, TerminalKnown, OutstandingPlaces
<1>2. Completers = {h}
  BY DEF IInv, TerminalKnown
<1>3. /\ handler[h].pc # "callback" => base.state = "Running"
      /\ handler[h].pc = "callback" => base.state = "PendingCompletion"
  BY DEF IInv, TerminalKnown
<1>4. ~scheduling
  BY <1>3 DEF IInv, BaseInv, CompletionKnown
<1>5. handler[h].pc # "callback" => /\ ~base.notifyCalled
                                    /\ base.exception = None
                                    /\ handler[h].error = history.firstFailure
  BY <1>3 DEF IInv, BaseInv, CompletionKnown, ErrorKnown
<1> QED BY <1>1, <1>2, <1>3, <1>4, <1>5

(***************************************************************************)
(* Steps that move the handlers of operations among the places in which    *)
(* they count, and nothing else the invariant speaks of.                   *)
(***************************************************************************)
LEMMA OutstandingMove ==
    ASSUME IInv, BaseInv',
           base'.state = base.state, base'.exception = base.exception,
           acct'.pendingOperations = acct.pendingOperations,
           acct'.firstError = acct.firstError, scheduling' => acct' = acct,
           scheduling' = scheduling, history' = history,
           \A h \in Handlers :
              \/ handler'[h] = handler[h]
              \/ /\ h \in Ops
                 /\ handler[h].pc \in OutstandingPlaces
                 /\ handler'[h].pc \in OutstandingPlaces
    PROVE  IInv'
<1>1. Outstanding' = Outstanding
  <2>1. \A o \in Ops : handler'[o].pc \in OutstandingPlaces
                          <=> handler[o].pc \in OutstandingPlaces
    BY HandlersApart
  <2> QED BY <2>1 DEF Outstanding, OutstandingPlaces
<1>2. Completers' = Completers
  BY DEF Completers, OutstandingPlaces
<1>3. \A h \in Completers : handler'[h] = handler[h]
  BY DEF Completers, OutstandingPlaces
<1>4. CountMatches'
  BY <1>1 DEF IInv, CountMatches
<1>5. TerminalKnown'
  <2>1. \A o \in Ops : handler'[o].pc \notin {"free", "close", "notify", "callback"} =>
           base'.state = "Running" /\ Completers' = {} /\ ~history'.finishing
    BY <1>2, HandlersApart DEF IInv, TerminalKnown, OutstandingPlaces
  <2>2. \A h \in Handlers \ Ops : handler'[h].pc \in {"free", "notify", "posted", "callback"}
    BY DEF IInv, TerminalKnown
  <2>3. \A h \in Ops : /\ handler'[h].pc # "posted"
                       /\ handler'[h].pc = "notify" => handler'[h].terminal
    BY HandlersApart DEF IInv, TerminalKnown, OutstandingPlaces
  <2>4. \A g, h \in Completers' : g = h
    BY <1>2 DEF IInv, TerminalKnown
  <2>5. \A h \in Completers' :
           IF handler'[h].pc = "callback" THEN base'.state = "PendingCompletion"
           ELSE base'.state = "Running"
    BY <1>2, <1>3 DEF IInv, TerminalKnown
  <2> QED BY <2>1, <2>2, <2>3, <2>4, <2>5 DEF TerminalKnown
<1>6. ErrorKnown'
  BY <1>1, <1>2, <1>3 DEF IInv, ErrorKnown, EmptyAccounting
<1>7. StopsKnown' /\ OutcomeIsFirstFailure'
  BY DEF IInv, StopsKnown, OutcomeIsFirstFailure
<1> QED BY <1>4, <1>5, <1>6, <1>7 DEF IInv

(***************************************************************************)
(* One handler on the terminal path hands it over to another, or goes one  *)
(* step further on it.                                                     *)
(***************************************************************************)
LEMMA CompleterMove ==
    ASSUME IInv, BaseInv', NEW h \in Completers, NEW g \in Handlers,
           handler[h].pc # "callback",
           handler'[g].error = handler[h].error,
           IF g \in Ops THEN handler'[g].pc = "notify" /\ handler'[g].terminal
           ELSE handler'[g].pc = "notify",
           g = h \/ handler'[h].pc = "free",
           \A k \in Handlers \ {g, h} : handler'[k] = handler[k],
           base' = base, acct' = acct, scheduling' = scheduling,
           history'.firstFailure = history.firstFailure,
           history'.stops = history.stops
    PROVE  IInv'
<1>0. h \in Handlers
  BY DEF Completers
<1>1. /\ Outstanding = {} /\ Completers = {h} /\ base.state = "Running"
      /\ handler[h].error = history.firstFailure /\ ~scheduling
  BY CompleterFacts
<1>2. \A o \in Ops : handler'[o].pc \notin OutstandingPlaces
  BY <1>1, HandlersApart, OutstandingFinite DEF OutstandingPlaces
<1>3. Outstanding' = {}
  BY <1>2 DEF Outstanding, OutstandingPlaces
<1>4. Completers' = {g}
  <2>1. \A k \in Handlers \ {h} : k \notin Completers
    BY <1>1
  <2> QED BY <1>0, <2>1 DEF Completers
<1>5. CountMatches'
  BY <1>1, <1>3 DEF IInv, CountMatches
<1>6. TerminalKnown'
  <2>1. \A o \in Ops : handler'[o].pc # "posted"
    BY HandlersApart DEF IInv, TerminalKnown
  <2>2. \A o \in Ops : handler'[o].pc \in {"free", "close", "notify", "callback"}
    <3>1. handler' \in [Handlers -> HandlerType]
      BY TypedNext DEF BaseInv
    <3> QED BY <1>2, <2>1, <3>1, HandlersApart DEF HandlerType, OutstandingPlaces
  <2>3. \A k \in Handlers \ Ops : handler'[k].pc \in {"free", "notify", "posted", "callback"}
    BY DEF IInv, TerminalKnown
  <2>4. \A k \in Ops : handler'[k].pc = "notify" => handler'[k].terminal
    BY HandlersApart DEF IInv, TerminalKnown
  <2> QED BY <1>1, <1>4, <2>1, <2>2, <2>3, <2>4 DEF TerminalKnown
<1>7. ErrorKnown'
  BY <1>1, <1>3, <1>4 DEF IInv, ErrorKnown
<1>8. StopsKnown' /\ OutcomeIsFirstFailure'
  BY <1>1 DEF IInv, StopsKnown, OutcomeIsFirstFailure
<1> QED BY <1>5, <1>6, <1>7, <1>8 DEF IInv

(***************************************************************************)
(* The handler on the terminal path stops the task.                        *)
(***************************************************************************)
LEMMA StopInvariant ==
    ASSUME IInv, NEW h \in Handlers, NEW exception \in {None, "finish"},
           NEW e \in Errors \cup {None}, handler[h].pc \in {"notify", "posted"},
           exception = None => e = handler[h].error,
           Stop(h, exception, e), UNCHANGED <<acct, scheduling, run>>
    PROVE  IInv'
<1>1. h \in Completers
  BY DEF Completers
<1>2. /\ Outstanding = {} /\ Completers = {h} /\ base.state = "Running"
      /\ ~base.notifyCalled /\ base.exception = None
      /\ handler[h].error = history.firstFailure /\ ~scheduling
  BY <1>1, CompleterFacts
<1>3. TypeOK
  BY DEF IInv, BaseInv
<1>4. BaseInv'
  BY StopBase DEF IInv
<1>5. /\ history'.stops = history.stops + 1
      /\ history'.firstFailure = IF exception # None THEN exception
                                 ELSE history.firstFailure
      /\ \A k \in Handlers \ {h} : handler'[k] = handler[k]
      /\ acct' = acct /\ scheduling' = scheduling
      /\ handler'[h].pc = "callback" /\ base'.state = "PendingCompletion"
      /\ base'.exception = IF exception # None THEN exception
                           ELSE IF base.exception # None THEN base.exception ELSE e
  BY <1>2, <1>3, StopShape
<1>6. base'.exception = history'.firstFailure
  BY <1>2, <1>5
<1>7. \A o \in Ops : handler'[o].pc \notin OutstandingPlaces
  BY <1>2, <1>5, HandlersApart, OutstandingFinite DEF OutstandingPlaces
<1>8. Outstanding' = {}
  BY <1>7 DEF Outstanding, OutstandingPlaces
<1>9. Completers' = {h}
  <2>1. \A k \in Handlers \ {h} : k \notin Completers
    BY <1>2
  <2> QED BY <1>5, <2>1 DEF Completers
<1>10. CountMatches'
  BY <1>2, <1>5, <1>8 DEF IInv, CountMatches
<1>11. TerminalKnown'
  <2>1. \A o \in Ops : handler'[o].pc # "posted"
    BY <1>5, HandlersApart DEF IInv, TerminalKnown
  <2>2. \A o \in Ops : handler'[o].pc \in {"free", "close", "notify", "callback"}
    <3>1. handler' \in [Handlers -> HandlerType]
      BY <1>4, TypedNext DEF BaseInv
    <3> QED BY <1>7, <2>1, <3>1, HandlersApart DEF HandlerType, OutstandingPlaces
  <2>3. \A k \in Handlers \ Ops : handler'[k].pc \in {"free", "notify", "posted", "callback"}
    BY <1>5 DEF IInv, TerminalKnown
  <2>4. \A k \in Ops : handler'[k].pc = "notify" => handler'[k].terminal
    BY <1>5, HandlersApart DEF IInv, TerminalKnown
  <2> QED BY <1>5, <1>9, <2>1, <2>2, <2>3, <2>4 DEF TerminalKnown
<1>12. ErrorKnown'
  BY <1>2, <1>5, <1>8, <1>9 DEF IInv, ErrorKnown
<1>13. StopsKnown' /\ OutcomeIsFirstFailure'
  BY <1>2, <1>5, <1>6 DEF IInv, StopsKnown, OutcomeIsFirstFailure
<1> QED BY <1>4, <1>10, <1>11, <1>12, <1>13 DEF IInv

(***************************************************************************)
(* The body of a handler begins operations: each counts once.              *)
(***************************************************************************)
LEMMA BodyGoesOnInvariant ==
    ASSUME IInv, NEW o \in Ops, NEW S \in SUBSET Free, BodyGoesOn(o, S)
    PROVE  IInv'
<1>1. TypeOK /\ BaseInv'
  BY OperationBase DEF IInv, BaseInv
<1>2. /\ handler[o].pc = "body" /\ handler'[o].pc = "account"
      /\ \A h \in S : handler'[h].pc = "inflight"
      /\ \A h \in Handlers \ (S \cup {o}) : handler'[h] = handler[h]
      /\ acct'.pendingOperations = acct.pendingOperations + Cardinality(S)
      /\ acct'.firstError = acct.firstError
      /\ UNCHANGED <<base, scheduling, run, history>>
  BY <1>1, BodyGoesOnShape
<1>3. /\ base.state = "Running" /\ Completers = {} /\ ~history.finishing
      /\ o \in Outstanding /\ o \in Handlers /\ ~scheduling
      /\ acct.firstError = history.firstFailure
  BY <1>2, OperationFacts DEF OutstandingPlaces
<1>4. S \subseteq Ops /\ \A h \in S : handler[h].pc = "free"
  BY DEF Free
<1>5. Outstanding' = Outstanding \cup S /\ Outstanding \cap S = {}
  BY <1>2, <1>4, HandlersApart DEF Outstanding
<1>6. Cardinality(Outstanding') = Cardinality(Outstanding) + Cardinality(S)
  <2>1. IsFiniteSet(S) /\ IsFiniteSet(Outstanding)
    BY <1>4, OutstandingFinite, ConstantsAssumption, FS_Subset
  <2>2. Cardinality(Outstanding \cup S)
           = Cardinality(Outstanding) + Cardinality(S) - Cardinality(Outstanding \cap S)
    BY <2>1, FS_Union
  <2>3. Cardinality(Outstanding \cap S) = 0
    BY <1>5, FS_EmptySet
  <2>4. Cardinality(Outstanding) \in Nat /\ Cardinality(S) \in Nat
    BY <2>1, FS_CardinalityType
  <2> QED BY <1>5, <2>2, <2>3, <2>4
<1>7. Completers' = {}
  BY <1>2, <1>3, <1>4, HandlersApart DEF Completers
<1>8. CountMatches'
  BY <1>2, <1>6 DEF IInv, CountMatches
<1>9. TerminalKnown'
  <2>1. \A h \in Handlers \ Ops : handler'[h] = handler[h]
    BY <1>2, <1>4
  <2>2. \A h \in Handlers \ Ops : handler'[h].pc \in {"free", "notify", "posted", "callback"}
    BY <2>1 DEF IInv, TerminalKnown
  <2>3. \A h \in Ops : /\ handler'[h].pc # "posted"
                       /\ handler'[h].pc = "notify" => handler'[h].terminal
    BY <1>2, HandlersApart DEF IInv, TerminalKnown
  <2> QED BY <1>2, <1>3, <1>7, <2>2, <2>3 DEF TerminalKnown
<1>10. ErrorKnown'
  BY <1>2, <1>3, <1>7 DEF IInv, ErrorKnown
<1>11. StopsKnown' /\ OutcomeIsFirstFailure'
  BY <1>2 DEF IInv, StopsKnown, OutcomeIsFirstFailure
<1> QED BY <1>1, <1>8, <1>9, <1>10, <1>11 DEF IInv

(***************************************************************************)
(* onOperationCompleted(): the handler no longer counts, and it takes the  *)
(* terminal path only when it is the last that did.                        *)
(***************************************************************************)
LEMMA OnOperationCompletedInvariant ==
    ASSUME IInv, NEW o \in Ops, OnOperationCompleted(o)
    PROVE  IInv'
<1>1. TypeOK /\ BaseInv'
  BY OperationBase DEF IInv, BaseInv
<1>2. /\ handler[o].pc = "account"
      /\ \/ handler'[o].pc = "free"
         \/ handler'[o].pc = "close" /\ handler'[o].terminal = FALSE
         \/ /\ handler'[o].pc \in {"close", "notify"}
            /\ handler'[o].terminal = TRUE
            /\ handler'[o].error = acct'.firstError
            /\ acct'.pendingOperations = 0
      /\ \A h \in Handlers \ {o} : handler'[h] = handler[h]
      /\ acct'.pendingOperations =
            IF acct.pendingOperations # 0 THEN acct.pendingOperations - 1 ELSE 0
      /\ acct'.firstError =
            IF acct.firstError = None THEN handler[o].error ELSE acct.firstError
      /\ history'.firstFailure =
            IF history.firstFailure = None THEN handler[o].error
            ELSE history.firstFailure
      /\ history'.stops = history.stops
      /\ history'.finishing = history.finishing
      /\ UNCHANGED <<base, scheduling, run>>
  BY <1>1, OnOperationCompletedShape
<1>3. /\ base.state = "Running" /\ Completers = {} /\ ~history.finishing
      /\ o \in Outstanding /\ o \in Handlers /\ ~scheduling
      /\ acct.firstError = history.firstFailure
  BY <1>2, OperationFacts DEF OutstandingPlaces
<1>4. Outstanding' = Outstanding \ {o}
  BY <1>2, HandlersApart DEF Outstanding
<1>5. /\ Cardinality(Outstanding') = Cardinality(Outstanding) - 1
      /\ Cardinality(Outstanding) \in Nat
      /\ Cardinality(Outstanding) # 0
  BY <1>3, <1>4, OutstandingFinite, FS_RemoveElement, FS_EmptySet
<1>6. CountMatches'
  <2>1. acct.pendingOperations = Cardinality(Outstanding)
    BY DEF IInv, CountMatches
  <2> QED BY <1>2, <1>5, <2>1 DEF CountMatches
<1>7. acct'.firstError = history'.firstFailure
  BY <1>2, <1>3
<1>8. \A h \in Handlers \ {o} : h \notin Completers'
  BY <1>2, <1>3 DEF Completers
<1>9. ASSUME o \in Completers'
      PROVE  /\ Outstanding' = {} /\ handler'[o].pc \in {"close", "notify"}
             /\ handler'[o].error = history'.firstFailure
  <2>1. /\ handler'[o].pc \in {"close", "notify"}
        /\ handler'[o].error = acct'.firstError
        /\ acct'.pendingOperations = 0
    BY <1>2, <1>9 DEF Completers
  <2>2. Cardinality(Outstanding') = 0 /\ IsFiniteSet(Outstanding')
    BY <1>4, <1>6, <2>1, OutstandingFinite, FS_Subset DEF CountMatches
  <2> QED BY <1>7, <2>1, <2>2, FS_EmptySet
<1>10. Completers' \subseteq {o}
  BY <1>8 DEF Completers
<1>11. TerminalKnown'
  <2>1. \A h \in Ops : handler'[h].pc \notin {"free", "close", "notify", "callback"} =>
           h \in Outstanding'
    <3>1. \A h \in Ops \ {o} : handler[h].pc \notin {"free", "close", "notify", "callback"} =>
             h \in Outstanding
      <4>1. \A h \in Ops : handler[h] \in HandlerType /\ handler[h].pc # "posted"
        BY HandlersApart, Typed DEF IInv, BaseInv, TerminalKnown
      <4> QED BY <4>1, OutstandingFinite DEF HandlerType, OutstandingPlaces
    <3> QED BY <1>2, <1>4, <3>1, HandlersApart
  <2>2. Outstanding' # {} => Completers' = {}
    BY <1>9, <1>10
  <2>3. \A h \in Ops : handler'[h].pc \notin {"free", "close", "notify", "callback"} =>
           base'.state = "Running" /\ Completers' = {} /\ ~history'.finishing
    BY <1>2, <1>3, <2>1, <2>2
  <2>4. \A h \in Handlers \ Ops : handler'[h].pc \in {"free", "notify", "posted", "callback"}
    BY <1>2 DEF IInv, TerminalKnown
  <2>5. \A h \in Ops : /\ handler'[h].pc # "posted"
                       /\ handler'[h].pc = "notify" => handler'[h].terminal
    BY <1>2, HandlersApart DEF IInv, TerminalKnown
  <2>6. \A g, h \in Completers' : g = h
    BY <1>10
  <2>7. \A h \in Completers' : handler'[h].pc # "callback" /\ base'.state = "Running"
    BY <1>2, <1>3, <1>9, <1>10
  <2> QED BY <2>3, <2>4, <2>5, <2>6, <2>7 DEF TerminalKnown
<1>12. ErrorKnown'
  <2>1. base'.state = "Running" => base'.exception = None
    BY <1>2 DEF IInv, ErrorKnown
  <2>2. \A h \in Completers' : handler'[h].error = history'.firstFailure
    BY <1>9, <1>10
  <2> QED BY <1>2, <1>3, <1>7, <2>1, <2>2 DEF ErrorKnown
<1>13. StopsKnown' /\ OutcomeIsFirstFailure'
  BY <1>2, <1>3 DEF IInv, StopsKnown, OutcomeIsFirstFailure
<1> QED BY <1>1, <1>6, <1>11, <1>12, <1>13 DEF IInv

(***************************************************************************)
(* initiateClose(): the handler ends, or goes on to the completion.        *)
(***************************************************************************)
LEMMA InitiateCloseInvariant ==
    ASSUME IInv, NEW o \in Ops, InitiateClose(o)
    PROVE  IInv'
<1>1. TypeOK /\ BaseInv'
  BY OperationBase DEF IInv, BaseInv
<1>2. PICK g \in {Aborted(handler), handler} :
         /\ handler[o].pc = "close" /\ g[o] = handler[o]
         /\ IF handler[o].terminal
            THEN /\ handler'[o].pc = "notify" /\ handler'[o].terminal
                 /\ handler'[o].error = handler[o].error
            ELSE handler'[o].pc = "free"
         /\ \A h \in Handlers \ {o} : handler'[h] = g[h]
         /\ history'.firstFailure = history.firstFailure
         /\ history'.stops = history.stops
         /\ history'.finishing = history.finishing
         /\ UNCHANGED <<base, acct, scheduling, run>>
  BY <1>1, InitiateCloseShape
<1>3. /\ \A h \in Handlers :
            \/ g[h] = handler[h]
            \/ /\ h \in Ops /\ handler[h].pc = "inflight"
               /\ g[h].pc = "queued"
      /\ o \in Handlers
  BY <1>1, AbortedShape, HandlersApart, Typed
<1>4. CASE handler[o].terminal
  <2>1. o \in Completers
    BY <1>2, <1>3, <1>4 DEF Completers
  <2>2. Outstanding = {}
    BY <2>1, CompleterFacts
  <2>3. \A h \in Handlers : g[h] = handler[h]
    BY <1>3, <2>2, OutstandingFinite DEF OutstandingPlaces
  <2>4. \A h \in Handlers \ {o} : handler'[h] = handler[h]
    BY <1>2, <2>3
  <2> QED BY <1>1, <1>2, <1>3, <1>4, <2>1, <2>4, CompleterMove
<1>5. CASE ~handler[o].terminal
  <2>1. /\ handler'[o].pc = "free"
        /\ \A h \in Handlers \ {o} :
              \/ handler'[h] = handler[h]
              \/ /\ h \in Ops /\ handler[h].pc = "inflight"
                 /\ handler'[h].pc = "queued"
    BY <1>2, <1>3, <1>5
  <2>2. Outstanding' = Outstanding
    <3>1. \A h \in Ops : handler'[h].pc \in OutstandingPlaces
                            <=> handler[h].pc \in OutstandingPlaces
      BY <1>2, <2>1, HandlersApart DEF OutstandingPlaces
    <3> QED BY <3>1 DEF Outstanding, OutstandingPlaces
  <2>3. Completers' = Completers
    BY <1>2, <1>5, <2>1 DEF Completers
  <2>4. \A h \in Completers : handler'[h] = handler[h]
    BY <1>2, <1>5, <2>1 DEF Completers
  <2>5. TerminalKnown'
    <3>1. \A h \in Ops : handler'[h].pc \notin {"free", "close", "notify", "callback"} =>
             base'.state = "Running" /\ Completers' = {} /\ ~history'.finishing
      BY <1>2, <2>1, <2>3, HandlersApart DEF IInv, TerminalKnown
    <3>2. \A h \in Handlers \ Ops : handler'[h].pc \in {"free", "notify", "posted", "callback"}
      BY <2>1 DEF IInv, TerminalKnown
    <3>3. \A h \in Ops : /\ handler'[h].pc # "posted"
                         /\ handler'[h].pc = "notify" => handler'[h].terminal
      BY <2>1, HandlersApart DEF IInv, TerminalKnown
    <3> QED BY <1>2, <2>3, <2>4, <3>1, <3>2, <3>3 DEF IInv, TerminalKnown
  <2>6. CountMatches' /\ ErrorKnown'
    BY <1>2, <2>2, <2>3, <2>4 DEF IInv, CountMatches, ErrorKnown, EmptyAccounting
  <2>7. StopsKnown' /\ OutcomeIsFirstFailure'
    BY <1>2 DEF IInv, StopsKnown, OutcomeIsFirstFailure
  <2> QED BY <1>1, <2>5, <2>6, <2>7 DEF IInv
<1> QED BY <1>4, <1>5

(***************************************************************************)
(* The ready callback ends the terminal path.                              *)
(***************************************************************************)
LEMMA CallReadyInvariant ==
    ASSUME IInv, NEW h \in Handlers, CallReady(h) PROVE IInv'
<1>1. TypeOK /\ BaseInv'
  BY CallReadyBase DEF IInv, BaseInv
<1>2. /\ handler[h].pc = "callback" /\ handler'[h].pc = "free"
      /\ \A g \in Handlers \ {h} : handler'[g] = handler[g]
      /\ base'.state = "Completed" /\ base'.exception = base.exception
      /\ history'.stops = history.stops
      /\ history'.finishing = history.finishing
      /\ history'.firstFailure = history.firstFailure
      /\ UNCHANGED <<acct, scheduling, run>>
  BY <1>1, CallReadyShape
<1>3. h \in Completers
  BY <1>2 DEF Completers
<1>4. /\ Outstanding = {} /\ Completers = {h} /\ ~scheduling
      /\ base.state = "PendingCompletion"
  BY <1>2, <1>3, CompleterFacts
<1>5. Completers' = {}
  <2>1. \A g \in Handlers \ {h} : g \notin Completers
    BY <1>4
  <2> QED BY <1>2, <2>1 DEF Completers
<1>6. \A o \in Ops : handler'[o].pc \notin OutstandingPlaces
  BY <1>2, <1>4, HandlersApart, OutstandingFinite DEF OutstandingPlaces
<1>7. Outstanding' = {}
  BY <1>6 DEF Outstanding, OutstandingPlaces
<1>8. TerminalKnown'
  <2>1. \A o \in Ops : handler'[o].pc # "posted"
    BY <1>2, HandlersApart DEF IInv, TerminalKnown
  <2>2. \A o \in Ops : handler'[o].pc \in {"free", "close", "notify", "callback"}
    <3>1. handler' \in [Handlers -> HandlerType]
      BY <1>1, TypedNext DEF BaseInv
    <3> QED BY <1>6, <2>1, <3>1, HandlersApart DEF HandlerType, OutstandingPlaces
  <2>3. \A k \in Handlers \ Ops : handler'[k].pc \in {"free", "notify", "posted", "callback"}
    BY <1>2 DEF IInv, TerminalKnown
  <2>4. \A k \in Ops : handler'[k].pc = "notify" => handler'[k].terminal
    BY <1>2, HandlersApart DEF IInv, TerminalKnown
  <2> QED BY <1>5, <2>1, <2>2, <2>3, <2>4 DEF TerminalKnown
<1>9. CountMatches' /\ ErrorKnown'
  BY <1>2, <1>4, <1>5, <1>7 DEF IInv, CountMatches, ErrorKnown
<1>10. StopsKnown' /\ OutcomeIsFirstFailure'
  BY <1>2, <1>4 DEF IInv, StopsKnown, OutcomeIsFirstFailure
<1> QED BY <1>1, <1>8, <1>9, <1>10 DEF IInv

(***************************************************************************)
(* scheduleNothrow() starts a run with nothing left of the run before.     *)
(***************************************************************************)
LEMMA ScheduleBaseInvariant ==
    ASSUME StartsWhole, IInv, NEW outcome \in StartOutcomes, NEW S \in SUBSET Free,
           ScheduleBase(outcome, S)
    PROVE  IInv'
<1>1. TypeOK /\ BaseInv' /\ outcome # "failedPartly"
  BY ScheduleBaseBase DEF IInv, BaseInv, StartsWhole
<1>2. PICK begun \in {S, {}}, error \in {None, "aborted", "start"} :
         /\ error # None => begun = {}
         /\ base'.state = "Running" /\ base'.exception = None
         /\ acct'.pendingOperations = acct.pendingOperations + Cardinality(begun)
         /\ acct'.firstError = acct.firstError
         /\ \A h \in begun : handler'[h].pc = "inflight"
         /\ \A h \in Handlers \ (begun \cup {"starter"}) : handler'[h] = handler[h]
         /\ IF error = None THEN handler'["starter"] = handler["starter"]
            ELSE handler'["starter"].pc = "posted" /\ handler'["starter"].error = error
         /\ history' = [EmptyHistory EXCEPT !.firstFailure = error]
         /\ ~scheduling'
  BY <1>1, ScheduleBaseShape
<1>3. scheduling /\ base.state \in {"Created", "Completed"}
  BY DEF ScheduleBase, IInv, BaseInv, CompletionKnown
<1>4. Outstanding = {} /\ Completers = {} /\ acct = EmptyAccounting
  <2>1. Completers = {}
    BY <1>3, CompleterFacts
  <2>2. Outstanding = {}
    BY <1>3, OperationFacts, OutstandingFinite
  <2> QED BY <1>3, <2>1, <2>2 DEF IInv, ErrorKnown
<1>5. begun \subseteq Ops
  BY DEF Free
<1>6. \A o \in Ops \ begun : handler'[o] = handler[o] /\ handler[o].pc \notin OutstandingPlaces
  BY <1>2, <1>4, <1>5, HandlersApart, OutstandingFinite
<1>7. Outstanding' = begun
  <2>1. \A o \in Ops : handler'[o].pc \in OutstandingPlaces <=> o \in begun
    BY <1>2, <1>6 DEF OutstandingPlaces
  <2> QED BY <1>5, <2>1 DEF Outstanding, OutstandingPlaces
<1>8. acct.pendingOperations = 0 /\ acct.firstError = None
  BY <1>4 DEF EmptyAccounting
<1>9. CountMatches'
  <2>1. Cardinality(begun) \in Nat
    BY <1>5, ConstantsAssumption, FS_Subset, FS_CardinalityType
  <2> QED BY <1>2, <1>7, <1>8, <2>1 DEF CountMatches
<1>10. Completers' = IF error = None THEN {} ELSE {"starter"}
  <2>1. \A h \in Handlers \ {"starter"} : h \notin Completers'
    BY <1>2, <1>4 DEF Completers
  <2>2. "starter" \in Completers' <=> error # None
    BY <1>2, <1>4, HandlersApart DEF Completers
  <2>3. Completers' \subseteq Handlers
    BY DEF Completers
  <2> QED BY <2>1, <2>2, <2>3, HandlersApart
<1>11. /\ history'.firstFailure = error /\ history'.stops = 0
       /\ history'.finishing = FALSE
  BY <1>2 DEF EmptyHistory
<1>12. TerminalKnown'
  <2>1. \A o \in Ops : handler'[o].pc \notin {"free", "close", "notify", "callback"} =>
           base'.state = "Running" /\ Completers' = {} /\ ~history'.finishing
    <3>1. \A o \in Ops \ begun : handler'[o].pc \in {"free", "close", "notify", "callback"}
      <4>1. \A o \in Ops : handler[o] \in HandlerType /\ handler[o].pc # "posted"
        BY <1>1, HandlersApart, Typed DEF IInv, TerminalKnown
      <4> QED BY <1>6, <4>1 DEF HandlerType, OutstandingPlaces
    <3>2. begun # {} => Completers' = {}
      BY <1>2, <1>10
    <3> QED BY <1>2, <1>11, <3>1, <3>2
  <2>2. \A h \in Handlers \ Ops : handler'[h].pc \in {"free", "notify", "posted", "callback"}
    BY <1>2, <1>5 DEF IInv, TerminalKnown
  <2>3. \A h \in Ops : /\ handler'[h].pc # "posted"
                       /\ handler'[h].pc = "notify" => handler'[h].terminal
    BY <1>2, <1>6, HandlersApart DEF IInv, TerminalKnown
  <2>4. \A h \in Completers' : handler'[h].pc = "posted"
    BY <1>2, <1>10
  <2> QED BY <1>2, <1>10, <2>1, <2>2, <2>3, <2>4 DEF TerminalKnown
<1>13. ErrorKnown'
  <2>1. Outstanding' # {} => error = None
    BY <1>2, <1>7
  <2>2. \A h \in Completers' : handler'[h].error = error
    BY <1>2, <1>10
  <2> QED BY <1>2, <1>8, <1>11, <2>1, <2>2 DEF ErrorKnown
<1>14. StopsKnown' /\ OutcomeIsFirstFailure'
  BY <1>2, <1>11 DEF StopsKnown, OutcomeIsFirstFailure
<1> QED BY <1>1, <1>9, <1>12, <1>13, <1>14 DEF IInv

LEMMA InitInvariant == Init => IInv
<1> SUFFICES ASSUME Init PROVE IInv
  OBVIOUS
<1>1. \A h \in Handlers : handler[h].pc = "free"
  BY NoHandlerTyped DEF Init
<1>2. Outstanding = {} /\ Completers = {}
  BY <1>1, HandlersApart DEF Outstanding, Completers
<1>3. /\ acct = EmptyAccounting /\ acct.pendingOperations = 0
      /\ base.state = "Created" /\ ~scheduling
      /\ history.stops = 0
  BY DEF Init, EmptyAccounting, EmptyHistory
<1>4. CountMatches
  BY <1>2, <1>3, FS_EmptySet DEF CountMatches
<1>5. TerminalKnown
  BY <1>1, <1>2, HandlersApart DEF TerminalKnown
<1>6. ErrorKnown /\ StopsKnown /\ OutcomeIsFirstFailure
  BY <1>2, <1>3 DEF ErrorKnown, StopsKnown, OutcomeIsFirstFailure
<1> QED BY <1>4, <1>5, <1>6, InitBase DEF IInv

LEMMA NextInvariant == ASSUME StartsWhole, IInv, [Next]_vars PROVE IInv'
<1>0. TypeOK /\ BaseInv /\ BaseInv'
  BY NextBase DEF IInv, BaseInv
<1>1. CASE ScheduleReset
  <2>1. /\ acct' = EmptyAccounting /\ scheduling' = TRUE
        /\ base.state \in {"Created", "Completed"}
        /\ UNCHANGED <<base, handler, run, history>>
    BY <1>1 DEF ScheduleReset
  <2>2. Outstanding = {} /\ Completers = {}
    BY <2>1, CompleterFacts, OperationFacts, OutstandingFinite
  <2>3. Outstanding' = {} /\ Completers' = {}
    BY <2>1, <2>2 DEF Outstanding, Completers
  <2>4. CountMatches'
    BY <2>1, <2>3, FS_EmptySet DEF CountMatches, EmptyAccounting
  <2>5. TerminalKnown' /\ ErrorKnown'
    BY <2>1, <2>2, <2>3 DEF IInv, TerminalKnown, ErrorKnown
  <2>6. StopsKnown' /\ OutcomeIsFirstFailure'
    BY <2>1 DEF IInv, StopsKnown, OutcomeIsFirstFailure
  <2> QED BY <1>0, <2>4, <2>5, <2>6 DEF IInv
<1>2. ASSUME NEW outcome \in StartOutcomes, NEW S \in SUBSET Free, ScheduleBase(outcome, S)
      PROVE  IInv'
  BY <1>2, ScheduleBaseInvariant
<1>3. CASE RequestCancel
  <2>1. /\ base'.state = base.state /\ base'.exception = base.exception
        /\ handler' \in {handler, Aborted(handler)}
        /\ UNCHANGED <<acct, scheduling, run, history>>
    BY <1>0, <1>3, RequestCancelShape
  <2>2. \A h \in Handlers :
           \/ handler'[h] = handler[h]
           \/ /\ h \in Ops
              /\ handler[h].pc \in OutstandingPlaces
              /\ handler'[h].pc \in OutstandingPlaces
    BY <1>0, <2>1, AbortedShape, Typed DEF OutstandingPlaces
  <2> QED BY <1>0, <2>1, <2>2, OutstandingMove
<1>4. ASSUME NEW h \in Handlers, NotifyReady(h) PROVE IInv'
  <2>1. handler[h].pc = "notify" /\ UNCHANGED <<acct, scheduling, run>>
    BY <1>0, <1>4, NotifyReadyShape
  <2>2. CASE FinishContinuation(h)
    <3>1. /\ h # "finisher" /\ handler'[h].pc = "free"
          /\ handler'["finisher"].pc = "notify"
          /\ handler'["finisher"].error = handler[h].error
          /\ \A g \in Handlers \ {h, "finisher"} : handler'[g] = handler[g]
          /\ history'.firstFailure = history.firstFailure
          /\ history'.stops = history.stops
          /\ UNCHANGED <<base, acct, scheduling, run>>
      BY <1>0, <2>1, <2>2, FinishContinuationShape
    <3>2. h \in Completers /\ "finisher" \in Handlers \ Ops
      BY <2>1, HandlersApart DEF Completers
    <3> QED BY <1>0, <2>1, <3>1, <3>2, CompleterMove
  <2>3. ASSUME NEW exception \in {None, "finish"}, NEW e \in Errors \cup {None},
               Stop(h, exception, e), exception = None => e = handler[h].error
        PROVE  IInv'
    BY <2>1, <2>3, StopInvariant
  <2> QED BY <1>0, <1>4, <2>2, <2>3, NotifyReadyShape
<1>5. ASSUME NotifyNotStarted PROVE IInv'
  <2>1. /\ handler["starter"].pc = "posted" /\ "starter" \in Handlers
        /\ handler["starter"].error \in Errors \cup {None}
        /\ Stop("starter", None, handler["starter"].error)
        /\ UNCHANGED <<acct, scheduling, run>>
    BY <1>0, <1>5, HandlersApart, Typed DEF NotifyNotStarted, HandlerType
  <2> QED BY <2>1, StopInvariant
<1>6. ASSUME NEW h \in Handlers, CallReady(h) PROVE IInv'
  BY <1>6, CallReadyInvariant
<1>7. ASSUME NEW o \in Ops, Complete(o) \/ EnterBody(o) \/ BodyThrows(o) PROVE IInv'
  <2>1. /\ handler[o].pc \in OutstandingPlaces /\ handler'[o].pc \in OutstandingPlaces
        /\ \A h \in Handlers \ {o} : handler'[h] = handler[h]
        /\ UNCHANGED <<base, acct, scheduling, run, history>>
    BY <1>0, <1>7, CompleteShape, EnterBodyShape, BodyThrowsShape DEF OutstandingPlaces
  <2> QED BY <1>0, <2>1, OutstandingMove
<1>8. ASSUME NEW o \in Ops, BodyCloses(o) PROVE IInv'
  <2>1. /\ handler[o].pc \in OutstandingPlaces /\ handler'[o].pc \in OutstandingPlaces
        /\ \A h \in Handlers \ {o} : handler'[h] = handler[h]
        /\ acct'.pendingOperations = acct.pendingOperations
        /\ acct'.firstError = acct.firstError
        /\ UNCHANGED <<base, scheduling, run, history>>
    BY <1>0, <1>8, BodyClosesShape DEF OutstandingPlaces
  <2>2. ~scheduling
    BY <2>1, OperationFacts
  <2> QED BY <1>0, <2>1, <2>2, OutstandingMove
<1>9. CASE UNCHANGED vars
  <2>1. UNCHANGED <<base, acct, handler, scheduling, run, history>>
    BY <1>9 DEF vars
  <2> QED BY <1>0, <2>1, OutstandingMove
<1> QED BY <1>1, <1>2, <1>3, <1>4, <1>5, <1>6, <1>7, <1>8, <1>9, BodyGoesOnInvariant,
           OnOperationCompletedInvariant, InitiateCloseInvariant DEF Next, HandlerStep

LEMMA AccountingCorrect == ASSUME StartsWhole PROVE Spec => []IInv
<1>1. Init => IInv
  BY InitInvariant
<1>2. IInv /\ [Next]_vars => IInv'
  BY NextInvariant
<1> QED BY <1>1, <1>2, PTL DEF Spec

(***************************************************************************)
(* m_pendingOperations is the number of operations in flight, for any      *)
(* number of operations completing at the same time.                       *)
(***************************************************************************)
THEOREM CountCorrect == ASSUME StartsWhole PROVE Spec => []CountMatches
<1>1. IInv => CountMatches
  BY DEF IInv
<1> QED BY <1>1, AccountingCorrect, PTL

(***************************************************************************)
(* The task stops once, after its last operation.                          *)
(***************************************************************************)
THEOREM FinishCorrect == ASSUME StartsWhole PROVE Spec => []FinishAfterOperations
<1>1. IInv => FinishAfterOperations
  <2> SUFFICES ASSUME IInv PROVE FinishAfterOperations
    OBVIOUS
  <2>1. history.stops <= 1
    BY DEF IInv, StopsKnown
  <2>2. history.finishing \/ base.state \in {"PendingCompletion", "Completed"}
           => Outstanding = {}
    BY OperationFacts, OutstandingFinite
  <2> QED BY <2>1, <2>2 DEF FinishAfterOperations
<1> QED BY <1>1, AccountingCorrect, PTL

(***************************************************************************)
(* The task completes with the first error that was accounted for.         *)
(***************************************************************************)
THEOREM OutcomeCorrect == ASSUME StartsWhole PROVE Spec => []OutcomeIsFirstFailure
<1>1. IInv => OutcomeIsFirstFailure
  BY DEF IInv
<1> QED BY <1>1, AccountingCorrect, PTL
=============================================================================
