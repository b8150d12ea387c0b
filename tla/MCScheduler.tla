---------------------------- MODULE MCScheduler ----------------------------
(* Instances of Scheduler for TLC. *)
EXTENDS Scheduler, TLC

CONSTANTS main, server, worker

MCTasks == {main, server, worker}

\* The worker's handle is shared by all: two tasks may join it, and it may
\* abort itself.
MCHandles == {<<main, worker>>, <<server, worker>>, <<worker, worker>>}
=============================================================================
