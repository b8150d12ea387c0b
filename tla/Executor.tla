------------------------------ MODULE Executor ------------------------------
(***************************************************************************)
(* What the runtime promises its tasks, without queues, cohorts or         *)
(* priorities: one task is polled at a time, a task that is woken is       *)
(* polled again, a wake-up that arrives during a poll is not lost, and a   *)
(* finished task is never polled.                                          *)
(***************************************************************************)
CONSTANT Tasks

VARIABLES
    status,  \* of each task, see Status
    stopped  \* block_on has returned

vars == <<status, stopped>>

Status ==
    {"absent", "runnable", "running",
     "notified",  \* running, and woken since its poll began
     "idle", "finished"}

Init ==
    /\ status \in [Tasks -> {"absent", "runnable"}]
    /\ stopped = FALSE

Busy == \E t \in Tasks : status[t] \in {"running", "notified"}

Become(t, s) ==
    /\ status' = [status EXCEPT ![t] = s]
    /\ UNCHANGED stopped

Spawn(t) == status[t] = "absent" /\ Become(t, "runnable")

Wake(t) ==
    \/ status[t] = "idle" /\ Become(t, "runnable")
    \/ status[t] = "running" /\ Become(t, "notified")

Poll(t) ==
    /\ ~stopped
    /\ ~Busy
    /\ status[t] = "runnable"
    /\ Become(t, "running")

Suspend(t) ==
    \/ status[t] = "running" /\ Become(t, "idle")
    \/ status[t] = "notified" /\ Become(t, "runnable")

Finish(t) ==
    /\ status[t] \in {"running", "notified"}
    /\ Become(t, "finished")

Stop ==
    /\ ~Busy
    /\ stopped' = TRUE
    /\ UNCHANGED status

Next ==
    \/ Stop
    \/ \E t \in Tasks :
          Spawn(t) \/ Wake(t) \/ Poll(t) \/ Suspend(t) \/ Finish(t)

Safety == Init /\ [][Next]_vars

\* A task that can be polled over and over is polled.
Spec == Safety /\ \A t \in Tasks : SF_vars(Poll(t))
=============================================================================
