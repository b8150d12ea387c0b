----------------------------- MODULE Scheduler -----------------------------
(***************************************************************************)
(* The cooperative task scheduler and the event loop of the runtime:       *)
(* TaskState in kimojio/src/task.rs, Runtime::block_on and poll_task in    *)
(* kimojio/src/runtime.rs, and the task operations of operations.rs.       *)
(*                                                                         *)
(* The runtime has one thread.  What varies is what the polled futures do  *)
(* before they return, and which completions the kernel delivers: both are *)
(* nondeterministic here.  A task's future is abstracted to the calls it   *)
(* makes into the runtime; "a task is woken" stands for any waker.wake().  *)
(***************************************************************************)
EXTENDS Naturals, Sequences, Functions

CONSTANTS
    Tasks,        \* the tasks that may ever be created; each is created once
    Main,         \* the task block_on creates for its argument
    Server,       \* the runtime server task block_on creates next
    None,         \* Option::None for current_task
    Handles,      \* <<t, u>>: task t may hold a TaskHandle of task u
    WhenEmpty,    \* ExitBehavior: TRUE WhenEmpty, FALSE WhenMainTaskCompletes
    HighPriority, \* TRUE if the program calls set_high_priority
    EarlyReturn,  \* TRUE if a task may finish in a poll in which it has polled
                  \* a yield future (the yield is one branch of a select)
    AbortUnseen   \* TRUE if the poll of an aborted task may return Pending
                  \* without polling an I/O, wait or yield future

ASSUME TasksAssumption ==
    /\ Main \in Tasks /\ Server \in Tasks /\ Main # Server
    /\ None \notin Tasks
    /\ Handles \subseteq Tasks \X Tasks
    /\ {WhenEmpty, HighPriority, EarlyReturn, AbortUnseen} \subseteq BOOLEAN

VARIABLES
    ready,                   \* Task::ready; "Absent" before the task is created
    ready_task_list_io,      \* the cohort being polled
    fill_ready_task_list_io, \* the tasks of the next cohort
    ready_task_list_cpu,     \* tasks that called yield_cpu
    last_ready_cpu,          \* get_ready returned a CPU task last
    current_task,
    high_priority,           \* Task::high_priority
    keep_running,
    tasks,                   \* the handle table; task_count is its cardinality
    completed_tasks,         \* finished tasks the runtime still has to drop
    joining_tasks,           \* Task::joining_tasks: who waits for the task
    resolved,                \* tasks whose TaskFuture holds a Result
    yielded,                 \* the current poll has polled a yield future
    phase                    \* where block_on is

lists == <<ready_task_list_io, fill_ready_task_list_io, ready_task_list_cpu>>
vars == <<ready, ready_task_list_io, fill_ready_task_list_io,
          ready_task_list_cpu, last_ready_cpu, current_task, high_priority,
          keep_running, tasks, completed_tasks, joining_tasks, resolved,
          yielded, phase>>

TaskReadyState ==
    {"Absent", "Ready", "Running", "Suspend", "Aborted", "Complete"}

Phases ==
    {"top",        \* head of the loop in block_on
     "blocked",    \* inside submit_and_wait(1)
     "reap",       \* process_completions
     "cohort",     \* about to call get_ready
     "run",        \* inside Future::poll of current_task
     "completing", \* complete_task, waking the joiners of current_task
     "panicked",   \* a panic outside catch_unwind left block_on
     "exited"}     \* block_on has returned

\* Mutant: the CPU list is forgotten.
any_ready_IoOnly ==
    fill_ready_task_list_io # <<>> \/ ready_task_list_io # <<>>

any_ready ==
    \/ fill_ready_task_list_io # <<>>
    \/ ready_task_list_io # <<>>
    \/ ready_task_list_cpu # <<>>

-----------------------------------------------------------------------------
(* Scheduling a task.                                                      *)

\* Mutant: woken tasks always join the cohort being polled.
schedule_io_internal_SameCohort(t) ==
    /\ ready_task_list_io' = Append(ready_task_list_io, t)
    /\ UNCHANGED <<fill_ready_task_list_io, ready_task_list_cpu>>

\* A task woken by a high priority task joins the cohort being polled.
schedule_io_internal(t) ==
    LET high == current_task # None /\ high_priority[current_task] IN
    /\ ready_task_list_io' =
          IF high THEN Append(ready_task_list_io, t) ELSE ready_task_list_io
    /\ fill_ready_task_list_io' =
          IF high THEN fill_ready_task_list_io
                  ELSE Append(fill_ready_task_list_io, t)
    /\ UNCHANGED ready_task_list_cpu

\* Mutant: a task woken while it is polled is not queued.
schedule_io_NotWhileRunning(t) ==
    \/ /\ ready[t] = "Suspend"
       /\ ready' = [ready EXCEPT ![t] = "Ready"]
       /\ schedule_io_internal(t)
    \/ /\ ready[t] \in {"Running", "Ready", "Aborted", "Complete"}
       /\ ready' = [ready EXCEPT ![t] = IF @ = "Running" THEN "Ready" ELSE @]
       /\ UNCHANGED lists

schedule_io(t) ==
    \/ /\ ready[t] \in {"Running", "Suspend"}
       /\ ready' = [ready EXCEPT ![t] = "Ready"]
       /\ schedule_io_internal(t)
    \/ /\ ready[t] \in {"Ready", "Aborted", "Complete"}
       /\ UNCHANGED <<ready, lists>>

schedule_cpu(t) ==
    \/ /\ ready[t] \in {"Running", "Suspend"}
       /\ ready' = [ready EXCEPT ![t] = "Ready"]
       /\ ready_task_list_cpu' = Append(ready_task_list_cpu, t)
       /\ UNCHANGED <<ready_task_list_io, fill_ready_task_list_io>>
    \/ /\ ready[t] \in {"Ready", "Aborted", "Complete"}
       /\ UNCHANGED <<ready, lists>>

-----------------------------------------------------------------------------
(* block_on schedules the main task, then the runtime server.              *)

Init ==
    /\ ready = [t \in Tasks |-> IF t \in {Main, Server} THEN "Ready" ELSE "Absent"]
    /\ ready_task_list_io = <<>>
    /\ fill_ready_task_list_io = <<Main, Server>>
    /\ ready_task_list_cpu = <<>>
    /\ last_ready_cpu = FALSE
    /\ current_task = None
    /\ high_priority = [t \in Tasks |-> FALSE]
    /\ keep_running = TRUE
    /\ tasks = {Main, Server}
    /\ completed_tasks = {}
    /\ joining_tasks = [t \in Tasks |-> {}]
    /\ resolved = {}
    /\ yielded = FALSE
    /\ phase = "top"

(* The loop of block_on.                                                   *)

should_exit == IF WhenEmpty THEN tasks = {} ELSE ready[Main] = "Complete"

\* Leaving the loop tears TaskState down: every queue is dropped.
Exit ==
    /\ phase = "top"
    /\ ~keep_running \/ should_exit
    /\ phase' = "exited"
    /\ ready_task_list_io' = <<>>
    /\ fill_ready_task_list_io' = <<>>
    /\ ready_task_list_cpu' = <<>>
    /\ tasks' = {}
    /\ completed_tasks' = {}
    /\ UNCHANGED <<ready, last_ready_cpu, current_task, high_priority,
                   keep_running, joining_tasks, resolved, yielded>>

\* submit_and_complete_io: block in the kernel only if no task is ready.
\* busy_poll also stands for polled I/O in flight.
submit_and_complete_io ==
    /\ phase = "top"
    /\ keep_running /\ ~should_exit
    /\ \E busy_poll \in BOOLEAN :
          phase' = IF busy_poll \/ any_ready THEN "reap" ELSE "blocked"
    /\ UNCHANGED <<ready, lists, last_ready_cpu, current_task, high_priority,
                   keep_running, tasks, completed_tasks, joining_tasks,
                   resolved, yielded>>

\* The kernel posts a completion, or a signal interrupts the wait.
Unblock ==
    /\ phase = "blocked"
    /\ phase' = "reap"
    /\ UNCHANGED <<ready, lists, last_ready_cpu, current_task, high_priority,
                   keep_running, tasks, completed_tasks, joining_tasks,
                   resolved, yielded>>

\* One CQE, or one value dropped with a completed task, wakes task t.
process_completion(t) ==
    /\ phase = "reap"
    /\ ready[t] # "Absent"
    /\ schedule_io(t)
    /\ UNCHANGED <<last_ready_cpu, current_task, high_priority, keep_running,
                   tasks, completed_tasks, joining_tasks, resolved, yielded,
                   phase>>

\* The completed tasks are dropped, and the next cohort is swapped in.
prepare_cohort ==
    /\ phase = "reap"
    /\ completed_tasks' = {}
    /\ IF ready_task_list_io = <<>>
       THEN /\ ready_task_list_io' = fill_ready_task_list_io
            /\ fill_ready_task_list_io' = <<>>
       ELSE UNCHANGED <<ready_task_list_io, fill_ready_task_list_io>>
    /\ phase' = "cohort"
    /\ UNCHANGED <<ready, ready_task_list_cpu, last_ready_cpu, current_task,
                   high_priority, keep_running, tasks, joining_tasks,
                   resolved, yielded>>

-----------------------------------------------------------------------------
(* get_ready and the start of poll_task.                                   *)

\* poll_task sets current_task and calls Future::poll.  TaskFuture::poll of
\* a task that already holds its result panics outside of catch_unwind.
StartPoll(t) ==
    /\ current_task' = t
    /\ yielded' = FALSE
    /\ phase' = IF t \in resolved THEN "panicked" ELSE "run"

\* Mutant: poll_task does not look for a Complete task.
PollIo_NoCompleteCheck ==
    /\ phase = "cohort"
    /\ ready_task_list_io # <<>>
    /\ LET t == Head(ready_task_list_io) IN
       /\ ready' = [ready EXCEPT ![t] = IF @ = "Aborted" THEN @ ELSE "Running"]
       /\ StartPoll(t)
    /\ ready_task_list_io' = Tail(ready_task_list_io)
    /\ last_ready_cpu' = FALSE
    /\ UNCHANGED <<fill_ready_task_list_io, ready_task_list_cpu, high_priority,
                   keep_running, tasks, completed_tasks, joining_tasks,
                   resolved>>

\* get_ready from the cohort; poll_task returns at once for a Complete task.
PollIo ==
    /\ phase = "cohort"
    /\ ready_task_list_io # <<>>
    /\ LET t == Head(ready_task_list_io) IN
       \/ /\ ready[t] = "Complete"
          /\ UNCHANGED <<ready, current_task, yielded, phase>>
       \/ /\ ready[t] # "Complete"
          /\ ready' = [ready EXCEPT ![t] = IF @ = "Aborted" THEN @ ELSE "Running"]
          /\ StartPoll(t)
    /\ ready_task_list_io' = Tail(ready_task_list_io)
    /\ last_ready_cpu' = FALSE
    /\ UNCHANGED <<fill_ready_task_list_io, ready_task_list_cpu, high_priority,
                   keep_running, tasks, completed_tasks, joining_tasks,
                   resolved>>

\* get_ready from the CPU list: only an Aborted task keeps its state.
PollCpu ==
    /\ phase = "cohort"
    /\ ready_task_list_io = <<>>
    /\ ~last_ready_cpu
    /\ ready_task_list_cpu # <<>>
    /\ LET t == Head(ready_task_list_cpu) IN
       /\ ready' = [ready EXCEPT ![t] = IF @ = "Aborted" THEN @ ELSE "Running"]
       /\ StartPoll(t)
    /\ ready_task_list_cpu' = Tail(ready_task_list_cpu)
    /\ last_ready_cpu' = TRUE
    /\ UNCHANGED <<ready_task_list_io, fill_ready_task_list_io, high_priority,
                   keep_running, tasks, completed_tasks, joining_tasks,
                   resolved>>

\* get_ready returns None: back to the head of the loop.
EndCohort ==
    /\ phase = "cohort"
    /\ ready_task_list_io = <<>>
    /\ last_ready_cpu \/ ready_task_list_cpu = <<>>
    /\ last_ready_cpu' = FALSE
    /\ phase' = "top"
    /\ UNCHANGED <<ready, lists, current_task, high_priority, keep_running,
                   tasks, completed_tasks, joining_tasks, resolved, yielded>>

-----------------------------------------------------------------------------
(* What the future of current_task may do while it is polled.              *)

\* A future that has polled a yield returns Pending at once, unless the yield
\* is one branch of a select.
Running(t) ==
    /\ phase = "run"
    /\ current_task = t
    /\ yielded => EarlyReturn

\* A waker, an event, a channel or a nested completion wakes task u.
Wake(t, u) ==
    /\ Running(t)
    /\ ready[u] # "Absent"
    /\ schedule_io(u)
    /\ UNCHANGED <<last_ready_cpu, current_task, high_priority, keep_running,
                   tasks, completed_tasks, joining_tasks, resolved, yielded,
                   phase>>

\* spawn_task: schedule_new.
spawn_task(t, u) ==
    /\ Running(t)
    /\ ready[u] = "Absent"
    /\ ready' = [ready EXCEPT ![u] = "Ready"]
    /\ schedule_io_internal(u)
    /\ tasks' = tasks \cup {u}
    /\ UNCHANGED <<last_ready_cpu, current_task, high_priority, keep_running,
                   completed_tasks, joining_tasks, resolved, yielded, phase>>

\* The first poll of yield_io() or yield_cpu().  An aborted task panics here
\* instead (ReturnReady).  The wake_by_ref that follows finds the task Ready.
yield_io(t) ==
    /\ Running(t)
    /\ ready[t] # "Aborted"
    /\ schedule_io(t)
    /\ yielded' = TRUE
    /\ UNCHANGED <<last_ready_cpu, current_task, high_priority, keep_running,
                   tasks, completed_tasks, joining_tasks, resolved, phase>>

yield_cpu(t) ==
    /\ Running(t)
    /\ ready[t] # "Aborted"
    /\ schedule_cpu(t)
    /\ yielded' = TRUE
    /\ UNCHANGED <<last_ready_cpu, current_task, high_priority, keep_running,
                   tasks, completed_tasks, joining_tasks, resolved, phase>>

\* Mutant: a Ready task is queued once more.
abort_task_Twice(t, u) ==
    /\ Running(t)
    /\ <<t, u>> \in Handles
    /\ ready[u] \in {"Suspend", "Ready"}
    /\ schedule_io_internal(u)
    /\ ready' = [ready EXCEPT ![u] = "Aborted"]
    /\ UNCHANGED <<last_ready_cpu, current_task, high_priority, keep_running,
                   tasks, completed_tasks, joining_tasks, resolved, yielded,
                   phase>>

\* Mutant: the aborted task is not scheduled.
abort_task_NotScheduled(t, u) ==
    /\ Running(t)
    /\ <<t, u>> \in Handles
    /\ ready[u] \in {"Suspend", "Ready"}
    /\ ready' = [ready EXCEPT ![u] = "Aborted"]
    /\ UNCHANGED <<lists, last_ready_cpu, current_task, high_priority,
                   keep_running, tasks, completed_tasks, joining_tasks,
                   resolved, yielded, phase>>

\* TaskHandle::abort of another task, or of the polled task itself once it
\* has been woken.  Aborting a Running task panics (ReturnReady).
abort_task(t, u) ==
    /\ Running(t)
    /\ <<t, u>> \in Handles
    /\ \/ /\ ready[u] = "Suspend"
          /\ schedule_io_internal(u)
       \/ /\ ready[u] = "Ready"
          /\ UNCHANGED lists
    /\ ready' = [ready EXCEPT ![u] = "Aborted"]
    /\ UNCHANGED <<last_ready_cpu, current_task, high_priority, keep_running,
                   tasks, completed_tasks, joining_tasks, resolved, yielded,
                   phase>>

set_high_priority(t) ==
    /\ Running(t)
    /\ HighPriority
    /\ high_priority' = [high_priority EXCEPT ![t] = ~@]
    /\ UNCHANGED <<ready, lists, last_ready_cpu, current_task, keep_running,
                   tasks, completed_tasks, joining_tasks, resolved, yielded,
                   phase>>

\* Polling a TaskHandle of an unfinished task registers the poller.
Join(t, u) ==
    /\ Running(t)
    /\ <<t, u>> \in Handles
    /\ ready[t] # "Aborted"
    /\ ready[u] \notin {"Absent", "Complete"}
    /\ joining_tasks' = [joining_tasks EXCEPT ![u] = @ \cup {t}]
    /\ UNCHANGED <<ready, lists, last_ready_cpu, current_task, high_priority,
                   keep_running, tasks, completed_tasks, resolved, yielded,
                   phase>>

\* Dropping the wait before it is over unregisters it.
DropJoin(t, u) ==
    /\ Running(t)
    /\ t \in joining_tasks[u]
    /\ joining_tasks' = [joining_tasks EXCEPT ![u] = @ \ {t}]
    /\ UNCHANGED <<ready, lists, last_ready_cpu, current_task, high_priority,
                   keep_running, tasks, completed_tasks, resolved, yielded,
                   phase>>

shutdown_loop(t) ==
    /\ Running(t)
    /\ keep_running' = FALSE
    /\ UNCHANGED <<ready, lists, last_ready_cpu, current_task, high_priority,
                   tasks, completed_tasks, joining_tasks, resolved, yielded,
                   phase>>

\* submit_and_complete_io_all called by an io_scope drops completed tasks.
SubmitAll(t) ==
    /\ Running(t)
    /\ completed_tasks' = {}
    /\ UNCHANGED <<ready, lists, last_ready_cpu, current_task, high_priority,
                   keep_running, tasks, joining_tasks, resolved, yielded,
                   phase>>

-----------------------------------------------------------------------------
(* Future::poll returns; the end of poll_task.                             *)

\* Mutant: a wake-up that came during the poll is overwritten.
ReturnPending_Overwrite(t) ==
    /\ phase = "run"
    /\ current_task = t
    /\ ready[t] = "Aborted" => AbortUnseen
    /\ high_priority' = [high_priority EXCEPT ![t] = FALSE]
    /\ ready' = [ready EXCEPT ![t] = "Suspend"]
    /\ current_task' = None
    /\ phase' = "cohort"
    /\ UNCHANGED <<lists, last_ready_cpu, keep_running, tasks,
                   completed_tasks, joining_tasks, resolved, yielded>>

ReturnPending(t) ==
    /\ phase = "run"
    /\ current_task = t
    /\ ready[t] = "Aborted" => AbortUnseen
    /\ high_priority' = [high_priority EXCEPT ![t] = FALSE]
    /\ ready' = [ready EXCEPT ![t] = IF @ = "Running" THEN "Suspend" ELSE @]
    /\ current_task' = None
    /\ phase' = "cohort"
    /\ UNCHANGED <<lists, last_ready_cpu, keep_running, tasks,
                   completed_tasks, joining_tasks, resolved, yielded>>

\* The future returns Ready or panics: it is replaced by its result, which
\* drops its waits, and complete_task starts.
ReturnReady(t) ==
    /\ Running(t)
    /\ resolved' = resolved \cup {t}
    /\ ready' = [ready EXCEPT ![t] = "Complete"]
    /\ joining_tasks' = [u \in Tasks |-> joining_tasks[u] \ {t}]
    /\ phase' = "completing"
    /\ UNCHANGED <<lists, last_ready_cpu, current_task, high_priority,
                   keep_running, tasks, completed_tasks, yielded>>

\* joining_tasks.wake_all(), with current_task still set.
WakeJoiner(u) ==
    /\ phase = "completing"
    /\ u \in joining_tasks[current_task]
    /\ joining_tasks' = [joining_tasks EXCEPT ![current_task] = @ \ {u}]
    /\ schedule_io(u)
    /\ UNCHANGED <<last_ready_cpu, current_task, high_priority, keep_running,
                   tasks, completed_tasks, resolved, yielded, phase>>

\* Mutant: current_task is taken before the task is stored.
complete_task_TakenFirst ==
    /\ phase = "completing"
    /\ joining_tasks[current_task] = {}
    /\ current_task' = None
    /\ tasks' = tasks \ {current_task}
    /\ completed_tasks' = completed_tasks \cup {current_task'}
    /\ phase' = "cohort"
    /\ UNCHANGED <<ready, lists, last_ready_cpu, high_priority, keep_running,
                   joining_tasks, resolved, yielded>>

\* Mutant: the joiners need not all be woken.
complete_task_WakeSome ==
    /\ phase = "completing"
    /\ tasks' = tasks \ {current_task}
    /\ completed_tasks' = completed_tasks \cup {current_task}
    /\ current_task' = None
    /\ phase' = "cohort"
    /\ UNCHANGED <<ready, lists, last_ready_cpu, high_priority, keep_running,
                   joining_tasks, resolved, yielded>>

complete_task ==
    /\ phase = "completing"
    /\ joining_tasks[current_task] = {}
    /\ tasks' = tasks \ {current_task}
    /\ completed_tasks' = completed_tasks \cup {current_task}
    /\ current_task' = None
    /\ phase' = "cohort"
    /\ UNCHANGED <<ready, lists, last_ready_cpu, high_priority, keep_running,
                   joining_tasks, resolved, yielded>>

\* Nothing is left to do once block_on has returned.
Done ==
    /\ phase = "exited"
    /\ UNCHANGED vars

-----------------------------------------------------------------------------
EventLoop ==
    \/ Exit \/ submit_and_complete_io \/ prepare_cohort
    \/ PollIo \/ PollCpu \/ EndCohort \/ complete_task
    \/ \E u \in Tasks : WakeJoiner(u)

Kernel == Unblock \/ \E t \in Tasks : process_completion(t)

Call(t) ==
    \/ yield_io(t) \/ yield_cpu(t)
    \/ set_high_priority(t) \/ shutdown_loop(t) \/ SubmitAll(t)
    \/ \E u \in Tasks : \/ Wake(t, u) \/ spawn_task(t, u) \/ abort_task(t, u)
                       \/ Join(t, u) \/ DropJoin(t, u)

Return(t) == ReturnPending(t) \/ ReturnReady(t)

Next ==
    \/ EventLoop
    \/ Kernel
    \/ \E t \in Tasks : Call(t) \/ Return(t)
    \/ Done

Spec == Init /\ [][Next]_vars

\* The thread keeps executing the loop, and a polled future returns (tasks
\* are cooperative).  Nothing is assumed of the kernel.
Fairness == WF_vars(EventLoop) /\ \A t \in Tasks : WF_vars(Return(t))

FairSpec == Spec /\ Fairness

-----------------------------------------------------------------------------
(* Correctness.                                                            *)

QueuedIo == Range(ready_task_list_io)
QueuedFill == Range(fill_ready_task_list_io)
QueuedCpu == Range(ready_task_list_cpu)
Queued(t) == t \in QueuedIo \cup QueuedFill \cup QueuedCpu

TypeOK ==
    /\ ready \in [Tasks -> TaskReadyState]
    /\ ready_task_list_io \in Seq(Tasks)
    /\ fill_ready_task_list_io \in Seq(Tasks)
    /\ ready_task_list_cpu \in Seq(Tasks)
    /\ last_ready_cpu \in BOOLEAN
    /\ current_task \in Tasks \cup {None}
    /\ high_priority \in [Tasks -> BOOLEAN]
    /\ keep_running \in BOOLEAN
    /\ tasks \in SUBSET Tasks
    /\ completed_tasks \in SUBSET Tasks
    /\ joining_tasks \in [Tasks -> SUBSET Tasks]
    /\ resolved \in SUBSET Tasks
    /\ yielded \in BOOLEAN
    /\ phase \in Phases

\* The comment on Task::ready: a Ready task is in a ready list; a Suspend task
\* is in none and is not running; only the polled task is Running.  An Aborted
\* task is about to be polled or is being polled, so the panic it owes happens
\* (unless the poll may end without reaching a future that notices).
ListsAgree ==
    phase \notin {"exited", "panicked"} => \A t \in Tasks :
       /\ ready[t] = "Ready" => Queued(t)
       /\ ready[t] \in {"Suspend", "Running", "Absent"} => ~Queued(t)
       /\ ready[t] = "Running" => current_task = t
       /\ ready[t] = "Suspend" => current_task # t
       /\ ready[t] = "Aborted" =>
             Queued(t) \/ current_task = t \/ AbortUnseen

\* However often it is woken, yielded or aborted, a task has one entry in the
\* three ready lists together: it is polled once per time it becomes Ready.
QueuedOnce ==
    /\ IsInjective(ready_task_list_io)
    /\ IsInjective(fill_ready_task_list_io)
    /\ IsInjective(ready_task_list_cpu)
    /\ QueuedIo \cap QueuedFill = {}
    /\ QueuedIo \cap QueuedCpu = {}
    /\ QueuedFill \cap QueuedCpu = {}

\* A task that has returned its result is never polled again, although a stale
\* entry of it may be left in a ready list (poll_task, Task::ready).
NeverRepolled == phase # "panicked"

\* The thread sleeps in the kernel only if no task is waiting to be polled: no
\* wake-up is left behind in a list when block_on blocks.
BlocksOnlyIdle ==
    phase = "blocked" => \A t \in Tasks :
       ready[t] # "Ready" /\ (ready[t] = "Aborted" => AbortUnseen)

\* A task that waits for another to finish is registered with an unfinished
\* one: complete_task leaves no joiner behind, and nobody registers too late.
NoJoinerLeftBehind ==
    \A t, u \in Tasks :
       u \in joining_tasks[t] =>
          ready[t] # "Complete" \/ (phase = "completing" /\ current_task = t)

\* The inductive invariant behind the four above.  It adds who is current in
\* which phase, that exactly the finished tasks are Complete, and why a stale
\* entry of a finished task is harmless: the CPU list, from which get_ready
\* would revive it, holds none unless a task finishes in a poll it has yielded.
Inv ==
    /\ TypeOK
    /\ QueuedOnce
    /\ NoJoinerLeftBehind
    /\ phase \in {"run", "completing", "panicked"} <=> current_task \in Tasks
    /\ phase = "run" =>
          /\ ready[current_task] \in {"Ready", "Running", "Aborted"}
          /\ current_task \in QueuedCpu => yielded
    /\ phase = "completing" => ready[current_task] = "Complete"
    /\ phase = "panicked" => EarlyReturn
    /\ phase = "blocked" => ~any_ready
    /\ phase \notin {"exited", "panicked"} => \A t \in Tasks :
          /\ ready[t] = "Ready" => Queued(t)
          /\ ready[t] \in {"Suspend", "Running", "Absent"} => ~Queued(t)
          /\ ready[t] = "Running" => current_task = t
          /\ ready[t] \in {"Suspend", "Absent"} => current_task # t
          /\ ready[t] = "Aborted" =>
                Queued(t) \/ current_task = t \/ AbortUnseen
          /\ ready[t] = "Complete" <=> t \in resolved
          /\ ready[t] = "Complete" /\ t \in QueuedCpu => EarlyReturn

\* TaskHandle::abort: the task is scheduled, panics, and so completes.
AbortCompletes ==
    \A t \in Tasks :
       ready[t] = "Aborted" ~> ready[t] = "Complete" \/ phase = "exited"

\* submit_and_complete_io_all: "If there are any completed tasks, we drop them".
CompletedAreDropped == completed_tasks # {} ~> completed_tasks = {}

\* The scheduler implements the executor its tasks rely on.
StatusOf(t) ==
    CASE ready[t] = "Absent" -> "absent"
      [] ready[t] = "Suspend" -> "idle"
      [] ready[t] = "Complete" -> "finished"
      [] ready[t] = "Running" -> "running"
      [] ready[t] \in {"Ready", "Aborted"} ->
            IF current_task # t THEN "runnable"
            ELSE IF Queued(t) THEN "notified" ELSE "running"

Exec == INSTANCE Executor WITH
        status <- [t \in Tasks |-> StatusOf(t)],
        stopped <- (phase = "exited")

\* With its fairness the event loop implements the executor's specification:
\* mutual exclusion of polls, no lost wake-up, no poll after the end, and no
\* starvation of a task that is ready again and again.
ImplementsExecutor == Exec!Spec
=============================================================================
