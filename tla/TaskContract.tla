---------------------------- MODULE TaskContract ----------------------------
(***************************************************************************)
(* What a task promises the execution queue that schedules it (Task.h,     *)
(* scheduleNothrow()): the ready callback it was given is called exactly   *)
(* once, and the task is not scheduled again before that.                  *)
(***************************************************************************)
EXTENDS Naturals

VARIABLES
    phase,      \* "idle", or "running" from scheduleNothrow() to the callback
    calls       \* calls of the ready callback since the last schedule

contractVars == <<phase, calls>>

Init == phase = "idle" /\ calls = 0

\* The queue schedules the task.
ScheduleNothrow ==
    /\ phase = "idle"
    /\ phase' = "running"
    /\ calls' = 0

\* The task calls the ready callback.
CallbackReady ==
    /\ phase = "running"
    /\ phase' = "idle"
    /\ calls' = 1

Next == ScheduleNothrow \/ CallbackReady

Spec == Init /\ [][Next]_contractVars
=============================================================================
