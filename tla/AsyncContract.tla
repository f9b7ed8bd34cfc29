--------------------------- MODULE AsyncContract ----------------------------
(***************************************************************************)
(* What AsyncOperation promises its owner (AsyncOperation.h): the callback *)
(* of every call is called once; a call that was not cancelled is executed *)
(* first; "your callback will be called in both cases" when the operation  *)
(* is cancelled, and cancellation does not depend on other operations.     *)
(***************************************************************************)
CONSTANT Calls

VARIABLE call   \* every call of asyncBegin()

Init == call = [c \in Calls |-> "none"]

Request(c) == call[c] = "none" /\ call' = [call EXCEPT ![c] = "requested"]

Cancel(c) == call[c] = "requested" /\ call' = [call EXCEPT ![c] = "cancelled"]

\* The callback is called, after the operation was executed or instead of that.
CallBack(c) ==
    \/ call[c] \in {"requested", "cancelled"} /\ call' = [call EXCEPT ![c] = "executed"]
    \/ call[c] = "cancelled" /\ call' = [call EXCEPT ![c] = "aborted"]

Next == \E c \in Calls : Request(c) \/ Cancel(c) \/ CallBack(c)

Spec ==
    /\ Init
    /\ [][Next]_call
    /\ \A c \in Calls : WF_call(call[c] = "cancelled" /\ CallBack(c))
=============================================================================
