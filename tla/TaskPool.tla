------------------------------ MODULE TaskPool ------------------------------
(***************************************************************************)
(* TaskPool (kimojio/src/task_pool.rs) on AsyncSemaphore: spawn_task takes *)
(* a token, waiting for one if need be, and the spawned task gives it back *)
(* when its future ends or is dropped, by a guard created in its first     *)
(* poll.                                                                   *)
(***************************************************************************)
EXTENDS Naturals, FiniteSets

CONSTANTS
    Tasks,      \* the callers of spawn_task, each of which calls it once
    max_tasks

VARIABLES
    tokens, available, waiting, woken,  \* the semaphore
    called,   \* callers that have called spawn_task
    spawned,  \* tasks spawned and not polled yet
    guarded   \* tasks that have been polled: their guard exists

semaphore_vars == <<tokens, available, waiting, woken>>
vars == <<semaphore_vars, called, spawned, guarded>>

Semaphore == INSTANCE AsyncSemaphore WITH
    initial_count <- max_tasks, MaxTokens <- max_tasks

\* TaskPool::new.
Init ==
    /\ Semaphore!Init
    /\ called = {}
    /\ spawned = 0
    /\ guarded = 0

\* After acquire has returned the task is spawned in the same poll.
Spawns == spawned' = spawned + (IF tokens' < tokens THEN 1 ELSE 0)

spawn_task(t) ==
    /\ t \notin called
    /\ called' = called \cup {t}
    /\ Semaphore!acquire(t)
    /\ Spawns
    /\ UNCHANGED guarded

\* The caller is polled while it waits for a token.
Poll(t) ==
    /\ Semaphore!Poll(t)
    /\ Spawns
    /\ UNCHANGED <<called, guarded>>

\* The waiting call is dropped, cancelled (CanceledError) or aborted.
Ends(t) ==
    /\ Semaphore!cancel(t) \/ Semaphore!abort(t)
    /\ UNCHANGED <<called, spawned, guarded>>

\* The first poll of a spawned task creates the guard and enters main.
FirstPoll ==
    /\ spawned > 0
    /\ spawned' = spawned - 1
    /\ guarded' = guarded + 1
    /\ UNCHANGED <<semaphore_vars, called>>

\* Mutant: a task that is aborted does not release.
TaskEnds_Keeps ==
    /\ guarded > 0
    /\ guarded' = guarded - 1
    /\ Semaphore!release \/ UNCHANGED semaphore_vars
    /\ UNCHANGED <<called, spawned>>

\* main returns, panics or is aborted: the guard is dropped.
TaskEnds ==
    /\ guarded > 0
    /\ guarded' = guarded - 1
    /\ Semaphore!release
    /\ UNCHANGED <<called, spawned>>

Next ==
    \/ FirstPoll \/ TaskEnds
    \/ \E t \in Tasks : spawn_task(t) \/ Poll(t) \/ Ends(t)

\* Woken callers and spawned tasks are polled, and tasks end.
Fairness ==
    /\ WF_vars(FirstPoll) /\ WF_vars(TaskEnds)
    /\ \A t \in Tasks : WF_vars(t \in woken /\ Poll(t))

Spec == Init /\ [][Next]_vars /\ Fairness

-----------------------------------------------------------------------------
TypeOK ==
    /\ Semaphore!TypeOK
    /\ called \in SUBSET Tasks
    /\ spawned \in Nat /\ guarded \in Nat

\* "puts an upper limit on spawned tasks" (task_pool.rs:12): a token is free or
\* belongs to exactly one task, over waits that are dropped, cancelled, or lose
\* their token to a later call.
TokensConserved == tokens + spawned + guarded = max_tasks

\* "this will block until an existing task completes" (task_pool.rs:30): if
\* tasks end, a waiting spawn_task ends.
SpawnsEnd == \A t \in Tasks : []<>(t \notin waiting)
=============================================================================
