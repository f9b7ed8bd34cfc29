-------------------------- MODULE MCExecutionQueue --------------------------
(* Values of the constants of ExecutionQueue for TLC. *)
EXTENDS ExecutionQueue, TLC

SomeOptions == {{"KeepFailed"}, KeepFlags}
KeepFailedOnly == {{"KeepFailed"}}
ExecutedOrNone == {{}, {"KeepSuccessful", "KeepFailed"}}

NoEventMasks == {{}}
DiscardedOnly == {{"TaskDiscarded"}}
SomeEventMasks == {Events, {"AllTasksCompleted"}}

FlushPlain == [discardPending |-> FALSE, nothrowIfFailed |-> FALSE,
               discardReady |-> FALSE, cancelExecuting |-> FALSE]
FlushOnlyPlain == {FlushPlain}

Symmetry == Permutations(Tasks) \cup Permutations(Clients) \cup Permutations(Workers)
=============================================================================
