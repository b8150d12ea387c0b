---------------------------- MODULE TaskStateCell ----------------------------
(***************************************************************************)
(* task_state_cell.rs: the one mutable borrow of TaskState, which only     *)
(* debug builds enforce, over a whole block_on (runtime.rs).  The runtime  *)
(* holds the borrow and has to give it up wherever code of the application *)
(* runs: a poll, a foreign waker, the idle callback, the Drop of a future  *)
(* or of a task's output.  The last kind runs wherever the last reference  *)
(* to a task goes, so the references to tasks are part of the state.       *)
(* Three constants name what the code does not guard against.              *)
(***************************************************************************)
EXTENDS Integers, FiniteSets, SequencesExt

CONSTANTS
    Tasks,      \* every task of the run
    Main,       \* the task of block_on
    WhenEmpty,  \* ExitBehavior::WhenEmpty, else WhenMainTaskCompletes
    StrayRefs,  \* may a task finish while a ready list or a request refers to it?
    ForeignWakers,  \* may a wait of an io_scope, or a request that is polled again,
                    \* have a waker that is not the runtime's?
    CallbackDrops   \* may the idle callback own values whose Drop uses the runtime?

VARIABLES
    borrowed,         \* TaskStateCell::borrowed
    stack,            \* the calls of the thread, the innermost last
    active,           \* task -> what Task::active_state holds
    tasks,            \* TaskState::tasks
    ready,            \* the tasks in the ready lists
    completed_tasks,  \* TaskState::completed_tasks
    handles,          \* the tasks that have a TaskHandle
    waits,            \* the tasks some TaskHandle::wait refers to
    requests,         \* the tasks whose waker a request in the kernel holds
    keep_running,     \* TaskState::keep_running
    callback,         \* of TaskState::clock: "off" (no clock), "none", "installed"
    dirty,            \* idle_advance_dirty, while the callback runs
    outputs           \* task -> how often its output was handed out or dropped

vars == <<borrowed, stack, active, tasks, ready, completed_tasks, handles, waits,
          requests, keep_running, callback, dirty, outputs>>
control == <<keep_running, callback, dirty>>
references == <<tasks, ready, completed_tasks, handles, waits, requests>>

TaskFuture == {"Future", "Result", "Taken"}
ActiveState == TaskFuture \cup {"unborn", "ShutdownFuture", "dropped"}

\* A call in progress, and the tasks its local variables refer to.
Call(at, locals) == [at |-> at, locals |-> locals]
Top == Last(stack)
Enter(call) == stack' = Append(stack, call)
Leave == stack' = Front(stack)
Continue(call) == stack' = Append(Front(stack), call)

\* TaskStateCell::borrow_mut, and the ways to end the borrow: into_inner and Drop.
borrow_mut == borrowed' = TRUE
into_inner == borrowed' = FALSE

Referenced(t) ==
    \/ t \in tasks \cup ready \cup completed_tasks \cup handles \cup waits \cup requests
    \/ \E i \in DOMAIN stack : t \in stack[i].locals
Unreferenced ==
    {t \in Tasks : active[t] \notin {"unborn", "dropped"} /\ ~Referenced(t)}

\* The innermost call is at a place, with no task left to be dropped there.
At(places) == Unreferenced = {} /\ Top.at \in places

\* The calls into the application that may use the runtime's operations.
Application == {"poll", "wake", "callback", "drop"}
RingsAlive == \A i \in DOMAIN stack : stack[i].at \notin {"old state", "done"}
Complete(t) == active[t] \in {"Result", "Taken"}

TypeOK ==
    /\ borrowed \in BOOLEAN /\ keep_running \in BOOLEAN /\ dirty \in BOOLEAN
    /\ callback \in {"off", "none", "installed"}
    /\ active \in [Tasks -> ActiveState] /\ outputs \in [Tasks -> Nat]
    /\ tasks \cup ready \cup completed_tasks \cup handles \cup waits \cup requests
           \subseteq Tasks
    /\ \A i \in DOMAIN stack : stack[i].locals \subseteq Tasks

\* block_on borrows TaskState and schedules the main task.
Init ==
    /\ borrowed = TRUE /\ stack = <<Call("loop", {Main})>>
    /\ active = [t \in Tasks |-> IF t = Main THEN "Future" ELSE "unborn"]
    /\ tasks = {Main} /\ ready = {Main}
    /\ completed_tasks = {} /\ handles = {} /\ waits = {} /\ requests = {}
    /\ keep_running = TRUE /\ callback = "off" /\ dirty = FALSE
    /\ outputs = [t \in Tasks |-> 0]

(***************************************************************************)
(* The event loop.                                                         *)
(***************************************************************************)
should_exit == ~keep_running \/ IF WhenEmpty THEN tasks = {} ELSE Complete(Main)

Iterate ==
    /\ At({"loop"}) /\ ~should_exit
    /\ stack' = Front(stack) \o <<Call("cohort", {Main}), Call("submit", {})>>
    /\ UNCHANGED <<borrowed, active, references, control, outputs>>

\* A request ends.  The borrow is suspended for waker.wake(); the runtime's own waker
\* takes it again, and drops its task there if the task has nothing left to do.
process_completions(t) ==
    /\ At({"submit", "drain"}) /\ t \in requests
    /\ requests' = requests \ {t}
    /\ ready' = IF Complete(t) THEN ready ELSE ready \cup {t}
    /\ UNCHANGED <<borrowed, stack, active, tasks, completed_tasks, handles, waits,
                   control, outputs>>

\* The same for a request whose future was polled through a foreign waker.
ForeignWake ==
    /\ At({"submit", "drain"}) /\ requests # {}
    /\ into_inner /\ Enter(Call("wake", {}))
    /\ UNCHANGED <<active, references, control, outputs>>

\* The end of submit_and_complete_io_all: finished tasks are dropped without the borrow.
submit_and_complete_io_all_Borrowed ==
    /\ At({"submit"})
    /\ IF completed_tasks = {}
       THEN Leave /\ UNCHANGED borrowed
       ELSE Continue(Call("clear", completed_tasks)) /\ UNCHANGED borrowed
    /\ completed_tasks' = {}
    /\ UNCHANGED <<active, tasks, ready, handles, waits, requests, control, outputs>>

submit_and_complete_io_all ==
    /\ At({"submit"})
    /\ IF completed_tasks = {}
       THEN Leave /\ UNCHANGED borrowed
       ELSE Continue(Call("clear", completed_tasks)) /\ into_inner
    /\ completed_tasks' = {}
    /\ UNCHANGED <<active, tasks, ready, handles, waits, requests, control, outputs>>

clear ==
    /\ At({"clear"})
    /\ IF Top.locals = {}
       THEN Leave /\ borrow_mut
       ELSE \E t \in Top.locals :
               Continue(Call("clear", Top.locals \ {t})) /\ UNCHANGED borrowed
    /\ UNCHANGED <<active, references, control, outputs>>

\* get_ready and poll_task: an entry of a finished task is dropped, any other is polled
\* without the borrow.
poll_task(t) ==
    /\ At({"cohort"}) /\ t \in ready
    /\ ready' = ready \ {t}
    /\ IF Complete(t)
       THEN UNCHANGED <<borrowed, stack>>
       ELSE into_inner /\ Enter(Call("poll", {t}))
    /\ UNCHANGED <<active, tasks, completed_tasks, handles, waits, requests,
                   control, outputs>>

EndCohort ==
    /\ At({"cohort"}) /\ Continue(Call("loop", {Main}))
    /\ UNCHANGED <<borrowed, active, references, control, outputs>>

\* The idle callback of the virtual clock is taken out and called without the borrow.
IdleAdvance ==
    /\ At({"cohort"}) /\ ready = {} /\ callback = "installed"
    /\ callback' = "none" /\ dirty' = FALSE
    /\ into_inner /\ Enter(Call("callback", {}))
    /\ UNCHANGED <<active, references, keep_running, outputs>>

\* restore_idle_advance_fn, unless the clock is gone: a callback that was replaced or
\* cleared meanwhile is dropped, under the borrow.
CallbackReturns ==
    /\ At({"callback"}) /\ borrow_mut
    /\ IF callback = "off" \/ dirty
       THEN /\ IF CallbackDrops THEN Continue(Call("drop", {})) ELSE Leave
            /\ UNCHANGED callback
       ELSE Leave /\ callback' = "installed"
    /\ dirty' = FALSE
    /\ UNCHANGED <<active, references, keep_running, outputs>>

(***************************************************************************)
(* What a poll returns.                                                    *)
(***************************************************************************)
PollPending ==
    /\ At({"poll"})
    /\ borrow_mut /\ Leave
    /\ UNCHANGED <<active, references, control, outputs>>

\* The future is replaced by its output or its panic; complete_task moves the task from
\* the table to completed_tasks.
complete_task ==
    /\ At({"poll"})
    /\ \E t \in Top.locals :
          /\ StrayRefs \/ t \notin ready \cup requests
          /\ active' = [active EXCEPT ![t] = "Result"]
          /\ tasks' = tasks \ {t}
          /\ completed_tasks' = completed_tasks \cup {t}
    /\ borrow_mut /\ Leave
    /\ UNCHANGED <<ready, handles, waits, requests, control, outputs>>

(***************************************************************************)
(* What the application calls.  Each call borrows TaskState and ends the   *)
(* borrow before it returns, unless it is listed with its own frames.      *)
(***************************************************************************)
spawn_task(t) ==
    /\ At(Application) /\ active[t] = "unborn"
    /\ active' = [active EXCEPT ![t] = "Future"]
    /\ tasks' = tasks \cup {t} /\ ready' = ready \cup {t}
    /\ handles' = handles \cup {t}
    /\ UNCHANGED <<borrowed, stack, completed_tasks, waits, requests, control, outputs>>

Wake(t) ==
    /\ At(Application) /\ active[t] \in {"Future", "ShutdownFuture"} /\ t \notin ready
    /\ ready' = ready \cup {t}
    /\ UNCHANGED <<borrowed, stack, active, tasks, completed_tasks, handles, waits,
                   requests, control, outputs>>

\* The polled task starts a request; the request keeps its waker until it ends.
SubmitRequest ==
    /\ At({"poll"}) /\ requests' = requests \cup Top.locals
    /\ UNCHANGED <<borrowed, stack, active, tasks, ready, completed_tasks, handles, waits,
                   control, outputs>>

\* RingFuture::drop waits for a request that borrows its buffer.
DropRingFuture ==
    /\ At({"poll", "drop"}) /\ requests # {} /\ RingsAlive
    /\ borrow_mut /\ Enter(Call("drain", {}))
    /\ UNCHANGED <<active, references, control, outputs>>

Drained ==
    /\ At({"drain"})
    /\ into_inner /\ Leave
    /\ UNCHANGED <<active, references, control, outputs>>

\* Task::result, as a polled TaskHandle takes it: once.
result_Stays(t) ==
    /\ active[t] = "Result" /\ UNCHANGED active
    /\ outputs' = [outputs EXCEPT ![t] = @ + 1]

result(t) ==
    /\ active[t] = "Result"
    /\ active' = [active EXCEPT ![t] = "Taken"]
    /\ outputs' = [outputs EXCEPT ![t] = @ + 1]

JoinTask(t) ==
    /\ At({"poll"}) /\ t \in handles /\ result(t)
    /\ handles' = handles \ {t}
    /\ UNCHANGED <<borrowed, stack, tasks, ready, completed_tasks, waits, requests,
                   control>>

DropHandle(t) ==
    /\ At(Application) /\ t \in handles
    /\ handles' = handles \ {t}
    /\ UNCHANGED <<borrowed, stack, active, tasks, ready, completed_tasks, waits, requests,
                   control, outputs>>

\* TaskHandle::wait refers to the task as well, also when the handle is gone.
wait(t) ==
    /\ At({"poll"}) /\ t \in handles
    /\ waits' = waits \cup {t}
    /\ UNCHANGED <<borrowed, stack, active, tasks, ready, completed_tasks, handles, requests,
                   control, outputs>>

\* It returns when the task is complete, or is dropped before.
WaitFuture(t) ==
    /\ At(Application) /\ t \in waits
    /\ waits' = waits \ {t}
    /\ UNCHANGED <<borrowed, stack, active, tasks, ready, completed_tasks, handles, requests,
                   control, outputs>>

shutdown_loop ==
    /\ At(Application) /\ keep_running
    /\ keep_running' = FALSE
    /\ UNCHANGED <<borrowed, stack, active, references, callback, dirty, outputs>>

\* The virtual clock: a callback that is replaced, or goes with its clock, is dropped
\* before the borrow of the call ends.
DropsCallback ==
    IF callback = "installed" /\ CallbackDrops
    THEN borrow_mut /\ stack' = stack \o <<Call("release", {}), Call("drop", {})>>
    ELSE UNCHANGED <<borrowed, stack>>

virtual_clock_enable(enabled) ==
    /\ At(Application) /\ enabled = (callback = "off")
    /\ callback' = (IF enabled THEN "none" ELSE "off") /\ dirty' = FALSE
    /\ DropsCallback
    /\ UNCHANGED <<active, references, keep_running, outputs>>

virtual_clock_set_idle_advance(f) ==
    /\ At(Application) /\ callback # "off"
    /\ callback' = f /\ dirty' = (\E i \in DOMAIN stack : stack[i].at = "callback")
    /\ DropsCallback
    /\ UNCHANGED <<active, references, keep_running, outputs>>

\* A request is polled again: the waker it holds is replaced, and the old one dropped,
\* under the borrow.
ReplaceWaker(t) ==
    /\ At({"poll"}) /\ t \in requests \ Top.locals
    /\ requests' = (requests \ {t}) \cup Top.locals
    /\ borrow_mut
    /\ \/ Enter(Call("release", {}))
       \/ ForeignWakers /\ stack' = stack \o <<Call("release", {}), Call("drop", {})>>
    /\ UNCHANGED <<active, tasks, ready, completed_tasks, handles, waits, control, outputs>>

Release ==
    /\ At({"release"})
    /\ into_inner /\ Leave
    /\ UNCHANGED <<active, references, control, outputs>>

\* io_scope_cancel submits, cancels the requests, submits again ...
io_scope_cancel ==
    /\ At({"poll"}) /\ borrow_mut
    /\ stack' = stack \o <<Call("cancel", {}), Call("submit", {})>>
    /\ UNCHANGED <<active, references, control, outputs>>

cancel_io_scope_completions ==
    /\ At({"cancel"})
    /\ stack' = Front(stack) \o <<Call("wake waits", {}), Call("submit", {})>>
    /\ UNCHANGED <<borrowed, active, references, control, outputs>>

\* ... and wakes the waits under the borrow: wake_task schedules the task of a waker
\* of the runtime, and calls any other waker.
wake_task(t) ==
    /\ At({"wake waits"}) /\ active[t] = "Future"
    /\ \/ ready' = ready \cup {t} /\ UNCHANGED stack
       \/ ForeignWakers /\ Enter(Call("wake", {})) /\ UNCHANGED ready
    /\ UNCHANGED <<borrowed, active, tasks, completed_tasks, handles, waits, requests,
                   control, outputs>>

EndCancel ==
    /\ At({"wake waits"})
    /\ into_inner /\ Leave
    /\ UNCHANGED <<active, references, control, outputs>>

\* A waker or a Drop returns to the runtime, which takes the borrow again after a waker.
ApplicationReturns ==
    /\ At({"wake", "drop"})
    /\ IF Top.at = "drop" THEN UNCHANGED borrowed ELSE borrow_mut
    /\ Leave
    /\ UNCHANGED <<active, references, control, outputs>>

\* The last reference to a task is gone: its future or its output is dropped.
DropTask(t) ==
    /\ t \in Unreferenced
    /\ active' = [active EXCEPT ![t] = "dropped"]
    /\ IF active[t] \in {"Future", "Result"} THEN Enter(Call("drop", {})) ELSE UNCHANGED stack
    /\ outputs' = [outputs EXCEPT ![t] = IF active[t] = "Result" THEN @ + 1 ELSE @]
    /\ UNCHANGED <<borrowed, references, control>>

(***************************************************************************)
(* The end of block_on.                                                    *)
(***************************************************************************)
Exit_ReadyOnly ==
    /\ At({"loop"}) /\ should_exit
    /\ IF active[Main] = "Result" THEN result(Main) ELSE UNCHANGED <<active, outputs>>
    /\ into_inner
    /\ stack' = <<Call("return", {Main}), Call("teardown", tasks \cap ready)>>
    /\ UNCHANGED <<references, control>>

Exit ==
    /\ At({"loop"}) /\ should_exit
    /\ IF active[Main] = "Result" THEN result(Main) ELSE UNCHANGED <<active, outputs>>
    /\ into_inner
    /\ stack' = <<Call("return", {Main}), Call("teardown", tasks)>>
    /\ UNCHANGED <<references, control>>

\* Each task of the snapshot gets a ShutdownFuture; its own future is dropped while the
\* rings are alive and nothing is borrowed.
ShutdownFuture(t) ==
    /\ At({"teardown"}) /\ t \in Top.locals /\ active[t] = "Future"
    /\ active' = [active EXCEPT ![t] = "ShutdownFuture"]
    /\ Enter(Call("drop", {}))
    /\ UNCHANGED <<borrowed, references, control, outputs>>

\* The rest of TaskState is taken out and dropped without the borrow.  A request still
\* in the kernel keeps its task.
TakeState ==
    /\ At({"teardown"}) /\ \A t \in Top.locals : active[t] = "ShutdownFuture"
    /\ stack' = Front(stack) \o <<Call("old state", {})>>
                  \o IF callback = "installed" /\ CallbackDrops THEN <<Call("drop", {})>> ELSE <<>>
    /\ callback' = "off"
    /\ tasks' = {} /\ ready' = {} /\ completed_tasks' = {}
    /\ UNCHANGED <<borrowed, active, handles, waits, requests, keep_running, dirty,
                   outputs>>

Return ==
    /\ At({"old state"})
    /\ stack' = <<Call("done", {})>>
    /\ UNCHANGED <<borrowed, active, references, control, outputs>>

Next ==
    \/ Iterate \/ ForeignWake \/ submit_and_complete_io_all \/ clear
    \/ EndCohort \/ IdleAdvance \/ CallbackReturns \/ Release \/ PollPending \/ complete_task
    \/ SubmitRequest \/ DropRingFuture \/ Drained \/ shutdown_loop
    \/ io_scope_cancel \/ cancel_io_scope_completions \/ EndCancel \/ ApplicationReturns
    \/ Exit \/ TakeState \/ Return
    \/ \E t \in Tasks :
          \/ process_completions(t) \/ poll_task(t) \/ spawn_task(t) \/ Wake(t)
          \/ JoinTask(t) \/ DropHandle(t) \/ wait(t) \/ WaitFuture(t)
          \/ wake_task(t) \/ DropTask(t) \/ ShutdownFuture(t) \/ ReplaceWaker(t)
    \/ \E enabled \in BOOLEAN : virtual_clock_enable(enabled)
    \/ \E f \in {"none", "installed"} : virtual_clock_set_idle_advance(f)

Spec == Init /\ [][Next]_vars

(***************************************************************************)
(* Properties.                                                             *)
(***************************************************************************)
\* The borrow is not held while code of the application runs that may borrow TaskState
\* itself, which would panic in debug builds and alias the reference in release builds.
\* It is held, and the property fails, with each of StrayRefs, ForeignWakers and
\* CallbackDrops: for the last reference to a finished task, for wakers that are not the
\* runtime's, and for the Drop of an idle callback.
SingleBorrow == Top.at \in Application => ~borrowed

\* The output of a task, or its panic, is handed out or dropped at most once.
OutputOnce == \A t \in Tasks : outputs[t] <= 1

\* When the rings of TaskState are dropped, no task still has the future that started
\* a request: its Drop could not wait for the request any more.
RingsOutliveFutures ==
    Top.at = "old state" => \A t \in requests : active[t] # "Future"
=============================================================================
