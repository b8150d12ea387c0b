---------------------------- MODULE HandleTable ----------------------------
(***************************************************************************)
(* HandleTable (handle_table.rs): a vector of slots whose free slots form  *)
(* a linked list, as its user TaskState has it: tasks are inserted by      *)
(* schedule_new, removed by complete_task, and their futures are replaced  *)
(* when the runtime is torn down (task.rs, runtime.rs).  A task keeps its  *)
(* index in an integer of IndexBits bits, 16 in the code.                  *)
(***************************************************************************)
EXTENDS Integers, Sequences, Functions

CONSTANTS
    Tasks,      \* Rc<Task> objects, the values of the table
    IndexBits,  \* width of Task::task_index
    MaxSlots,   \* bound: the vector does not grow beyond
    None        \* not a task

VARIABLES
    data,        \* the slots, Used or Free
    free_list,   \* index of the first free slot, 0 for None
    requests,    \* the counter behind len()
    free,        \* the indexes the free list runs through (history)
    task_index,  \* per task: Task::task_index, 0 while it is not spawned
    future,      \* per task: "none", "pending", "result", "shutdown"
    completed,   \* completed_tasks, as a set
    fits,        \* every index given to a task has fitted (history)
    phase        \* "running", "down" after the teardown, "panicked"

vars == <<data, free_list, requests, free, task_index, future, completed, fits, phase>>

Used(v) == [value |-> v, next_free |-> 0]
Free(i) == [value |-> None, next_free |-> i]
IsUsed(s) == s.value # None

Init ==
    /\ data = <<>> /\ free_list = 0 /\ requests = 0 /\ free = <<>>
    /\ task_index = [t \in Tasks |-> 0]
    /\ future = [t \in Tasks |-> "none"]
    /\ completed = {}
    /\ fits = TRUE
    /\ phase = "running"

-----------------------------------------------------------------------------
(* HandleTable.                                                            *)

\* The index the next insertion returns.
NextIndex == IF free_list # 0 THEN free_list ELSE Len(data) + 1

\* Mutant: the head of the free list is not taken off it.
insert_fn_KeepsHead(v) ==
    /\ requests' = requests + 1
    /\ data' = IF free_list # 0 THEN [data EXCEPT ![free_list] = Used(v)]
               ELSE Append(data, Used(v))
    /\ UNCHANGED <<free_list, free>>

insert_fn(v) ==
    /\ requests' = requests + 1
    /\ IF free_list # 0
       THEN /\ data' = [data EXCEPT ![free_list] = Used(v)]
            /\ free_list' = data[free_list].next_free
            /\ free' = Tail(free)
       ELSE /\ data' = Append(data, Used(v))
            /\ UNCHANGED <<free_list, free>>

get(i) == IF i \in DOMAIN data THEN data[i].value ELSE None

\* Mutant: a slot that is free already is freed again.
remove_Twice(i) ==
    IF i \notin DOMAIN data
    THEN UNCHANGED <<data, free_list, requests, free>>
    ELSE /\ requests' = requests - 1
         /\ data' = [data EXCEPT ![i] = Free(free_list)]
         /\ free_list' = i
         /\ free' = <<i>> \o free

\* Nothing for an index outside of the vector or of a free slot.
remove(i) ==
    IF get(i) = None
    THEN UNCHANGED <<data, free_list, requests, free>>
    ELSE /\ requests' = requests - 1
         /\ data' = [data EXCEPT ![i] = Free(free_list)]
         /\ free_list' = i
         /\ free' = <<i>> \o free

clear ==
    data' = <<>> /\ free_list' = 0 /\ requests' = 0 /\ free' = <<>>

indexes == {i \in DOMAIN data : IsUsed(data[i])}
iter == {data[i].value : i \in indexes}

-----------------------------------------------------------------------------
(* TaskState.                                                              *)

as_u16(i) == i % (2 ^ IndexBits)

schedule_new(t) ==
    /\ phase = "running" /\ future[t] = "none"
    /\ NextIndex <= MaxSlots
    /\ insert_fn(t)
    /\ task_index' = [task_index EXCEPT ![t] = as_u16(NextIndex)]
    /\ future' = [future EXCEPT ![t] = "pending"]
    /\ fits' = (fits /\ NextIndex < 2 ^ IndexBits)
    /\ UNCHANGED <<completed, phase>>

\* Mutant: the index is widened by its position, one too far.
complete_task_Offset(t) ==
    /\ phase = "running" /\ future[t] = "pending"
    /\ future' = [future EXCEPT ![t] = "result"]
    /\ remove(task_index[t] + 1)
    /\ completed' = IF get(task_index[t] + 1) = None THEN completed
                    ELSE completed \cup {get(task_index[t] + 1)}
    /\ UNCHANGED <<task_index, fits, phase>>

\* The entry at the task's index moves to completed_tasks; the index 0, of a
\* task whose index did not fit, panics.
complete_task(t) ==
    /\ phase = "running" /\ future[t] = "pending"
    /\ future' = [future EXCEPT ![t] = "result"]
    /\ IF task_index[t] = 0
       THEN /\ phase' = "panicked"
            /\ UNCHANGED <<data, free_list, requests, free, completed>>
       ELSE /\ remove(task_index[t])
            /\ completed' = IF get(task_index[t]) = None THEN completed
                            ELSE completed \cup {get(task_index[t])}
            /\ UNCHANGED phase
    /\ UNCHANGED <<task_index, fits>>

\* The event loop drops what is completed; the object may be spawned anew.
DropCompleted ==
    /\ completed # {}
    /\ completed' = {}
    /\ future' = [t \in Tasks |->
          IF t \in completed /\ future[t] = "result" THEN "none" ELSE future[t]]
    /\ UNCHANGED <<data, free_list, requests, free, task_index, fits, phase>>

\* The end of block_on: the future of every task of the table is dropped while
\* the rings still exist, then the whole state.
Teardown ==
    /\ phase = "running"
    /\ phase' = "down"
    /\ future' = [t \in Tasks |-> IF t \in iter THEN "shutdown" ELSE future[t]]
    /\ clear
    /\ completed' = {}
    /\ UNCHANGED <<task_index, fits>>

Next ==
    \/ \E t \in Tasks : schedule_new(t) \/ complete_task(t)
    \/ DropCompleted
    \/ Teardown

Spec == Init /\ [][Next]_vars

-----------------------------------------------------------------------------
TypeOK ==
    /\ data \in Seq([value : Tasks \cup {None}, next_free : Nat])
    /\ free_list \in Nat /\ requests \in Nat /\ free \in Seq(Nat)
    /\ task_index \in [Tasks -> Nat]
    /\ future \in [Tasks -> {"none", "pending", "result", "shutdown"}]
    /\ completed \subseteq Tasks
    /\ fits \in BOOLEAN
    /\ phase \in {"running", "down", "panicked"}

\* The free list runs through the free slots, each once, and ends: insert_fn
\* never meets the "unreachable!" of a used slot, and no slot is lost.
FreeListExact ==
    /\ IsInjective(free)
    /\ Range(free) = DOMAIN data \ indexes
    /\ free_list = (IF free = <<>> THEN 0 ELSE free[1])
    /\ \A k \in DOMAIN free :
          data[free[k]].next_free = (IF k < Len(free) THEN free[k + 1] ELSE 0)

\* As long as the indexes fit into Task::task_index, the table holds exactly
\* the tasks that are not finished, each under its own index, and completed_tasks
\* only finished ones: complete_task never removes another task.
TableIsTasks ==
    fits /\ phase = "running" =>
       /\ \A t \in Tasks : future[t] = "pending" => get(task_index[t]) = t
       /\ iter = {t \in Tasks : future[t] = "pending"}
       /\ \A t \in completed : future[t] = "result"

\* "After the swap every task holds a `ShutdownFuture`" (runtime.rs): none is
\* left with a future that may wait for I/O on rings that are gone.
EveryFutureReplaced == phase = "down" => \A t \in Tasks : future[t] # "pending"

\* With indexes that fit the teardown of block_on reaches every task, and no
\* completion panics on the index 0.
TeardownReachesAll ==
    fits =>
       /\ phase # "panicked"
       /\ EveryFutureReplaced
=============================================================================
