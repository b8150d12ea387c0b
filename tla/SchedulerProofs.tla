-------------------------- MODULE SchedulerProofs --------------------------
(* Proofs about Scheduler, for any set of tasks and any handles: its       *)
(* invariants, and that it implements the safety part of Executor.         *)
EXTENDS Scheduler, ListLemmas

-----------------------------------------------------------------------------
(* Scheduling a task.                                                      *)

ListsOK ==
    /\ ready_task_list_io \in Seq(Tasks)
    /\ fill_ready_task_list_io \in Seq(Tasks)
    /\ ready_task_list_cpu \in Seq(Tasks)
    /\ QueuedOnce

\* schedule_io_internal adds one entry for a task that has none, to one of
\* the two I/O lists.
LEMMA ScheduleInternal ==
    ASSUME ListsOK, NEW t \in Tasks, ~Queued(t), schedule_io_internal(t)
    PROVE  /\ ListsOK'
           /\ QueuedCpu' = QueuedCpu
           /\ \A u : Queued(u)' <=> Queued(u) \/ u = t
<1> DEFINE high == current_task # None /\ high_priority[current_task]
<1>1. CASE high
  <2>1. /\ ready_task_list_io' = Append(ready_task_list_io, t)
        /\ UNCHANGED <<fill_ready_task_list_io, ready_task_list_cpu>>
      BY <1>1 DEF schedule_io_internal
  <2> QED
      BY <2>1, AppendFacts
      DEF ListsOK, QueuedOnce, Queued, QueuedIo, QueuedFill, QueuedCpu
<1>2. CASE ~high
  <2>1. /\ fill_ready_task_list_io' = Append(fill_ready_task_list_io, t)
        /\ UNCHANGED <<ready_task_list_io, ready_task_list_cpu>>
      BY <1>2 DEF schedule_io_internal
  <2> QED
      BY <2>1, AppendFacts
      DEF ListsOK, QueuedOnce, Queued, QueuedIo, QueuedFill, QueuedCpu
<1> QED
    BY <1>1, <1>2

\* Appending to the CPU list, as schedule_cpu does.
LEMMA ScheduleCpuList ==
    ASSUME ListsOK, NEW t \in Tasks, ~Queued(t),
           ready_task_list_cpu' = Append(ready_task_list_cpu, t),
           UNCHANGED <<ready_task_list_io, fill_ready_task_list_io>>
    PROVE  /\ ListsOK'
           /\ QueuedCpu' = QueuedCpu \cup {t}
           /\ \A u : Queued(u)' <=> Queued(u) \/ u = t
    BY AppendFacts
    DEF ListsOK, QueuedOnce, Queued, QueuedIo, QueuedFill, QueuedCpu

\* Lists that do not change keep their entries.
LEMMA SameLists ==
    ASSUME ListsOK, UNCHANGED lists
    PROVE  /\ ListsOK'
           /\ QueuedCpu' = QueuedCpu
           /\ \A u : Queued(u)' <=> Queued(u)
           /\ any_ready' <=> any_ready
    BY DEF lists, ListsOK, QueuedOnce, Queued, QueuedIo, QueuedFill,
           QueuedCpu, any_ready

-----------------------------------------------------------------------------
(* The inductive invariant.                                                *)

\* The state of block_on before its first turn satisfies the invariant.
LEMMA InitInv == Init => Inv
<1> SUFFICES ASSUME Init
             PROVE  Inv
    OBVIOUS
<1> DEFINE f == fill_ready_task_list_io
<1>1. /\ f \in Seq(Tasks)
      /\ Range(f) = {Main, Server}
      /\ IsInjective(f)
    BY TasksAssumption DEF Init, Range, IsInjective
<1>2. ready_task_list_io = <<>> /\ ready_task_list_cpu = <<>>
    BY DEF Init
<1>3. ListsOK /\ QueuedCpu = {} /\ \A t : Queued(t) <=> t \in {Main, Server}
    BY <1>1, <1>2, EmptyFacts
    DEF ListsOK, QueuedOnce, Queued, QueuedIo, QueuedFill, QueuedCpu
<1> QED
    BY <1>3, TasksAssumption, Zenon
    DEF Init, Inv, TypeOK, NoJoinerLeftBehind, ListsOK, TaskReadyState, Phases

\* Waking a task (a waker, a CQE, a joined task that finished) preserves the
\* invariant, whatever phase the wake-up happens in.
LEMMA WakeInv ==
    ASSUME Inv, NEW t \in Tasks, ready[t] # "Absent", schedule_io(t),
           phase \in {"reap", "run", "completing"},
           NEW j \in Tasks, NEW d \in SUBSET Tasks,
           joining_tasks' \in {joining_tasks,
                               [joining_tasks EXCEPT ![j] = @ \ d]},
           UNCHANGED <<last_ready_cpu, current_task, high_priority,
                       keep_running, tasks, completed_tasks, resolved,
                       phase>>,
           yielded' \in BOOLEAN, yielded => yielded'
    PROVE  Inv'
<1>1. ListsOK
    BY DEF Inv, TypeOK, ListsOK
<1>2. CASE /\ ready[t] \in {"Running", "Suspend"}
           /\ ready' = [ready EXCEPT ![t] = "Ready"]
           /\ schedule_io_internal(t)
  <2>1. ~Queued(t)
      BY <1>2 DEF Inv
  <2>2. /\ ListsOK'
        /\ QueuedCpu' = QueuedCpu
        /\ \A u : Queued(u)' <=> Queued(u) \/ u = t
      BY <1>1, <1>2, <2>1, ScheduleInternal
  <2>3. TypeOK'
      BY <1>2, <2>2 DEF Inv, TypeOK, ListsOK, TaskReadyState
  <2>4. NoJoinerLeftBehind'
      BY <1>2 DEF Inv, TypeOK, NoJoinerLeftBehind
  <2> QED
      BY <1>2, <2>1, <2>2, <2>3, <2>4 DEF Inv, TypeOK, ListsOK
<1>3. CASE UNCHANGED <<ready, lists>>
  <2>1. /\ ListsOK'
        /\ QueuedCpu' = QueuedCpu
        /\ \A u : Queued(u)' <=> Queued(u)
      BY <1>1, <1>3, SameLists
  <2> QED
      BY <1>3, <2>1
      DEF Inv, TypeOK, NoJoinerLeftBehind, ListsOK, TaskReadyState
<1> QED
    BY <1>2, <1>3 DEF schedule_io

\* Every step of the event loop, of the kernel and of a polled future
\* preserves the invariant.
LEMMA NextInv == Inv /\ [Next]_vars => Inv'
<1> SUFFICES ASSUME Inv, [Next]_vars
             PROVE  Inv'
    OBVIOUS
<1> USE DEF TaskReadyState, Phases
<1>0. ListsOK /\ TypeOK
    BY DEF Inv, TypeOK, ListsOK
<1> DEFINE Same == /\ ListsOK'
                   /\ QueuedCpu' = QueuedCpu
                   /\ \A u : Queued(u)' <=> Queued(u)
                   /\ any_ready' <=> any_ready
<1>same. ASSUME UNCHANGED lists
         PROVE  Same
    BY <1>0, <1>same, SameLists
<1> HIDE DEF Same
<1>1. CASE Exit
    BY <1>1, <1>0, EmptyFacts
    DEF Exit, Inv, TypeOK, NoJoinerLeftBehind, QueuedOnce, QueuedIo,
        QueuedFill, QueuedCpu
<1>2. CASE submit_and_complete_io
  <2>1. Same
      BY <1>2, <1>same DEF submit_and_complete_io
  <2> QED
      BY <1>2, <2>1
      DEF submit_and_complete_io, Same, Inv, TypeOK, NoJoinerLeftBehind, ListsOK
<1>3. CASE prepare_cohort
  <2>1. CASE ready_task_list_io = <<>>
    <3>1. /\ ready_task_list_io' = fill_ready_task_list_io
          /\ fill_ready_task_list_io' = <<>>
          /\ ready_task_list_cpu' = ready_task_list_cpu
        BY <1>3, <2>1 DEF prepare_cohort
    <3>2. ListsOK' /\ QueuedCpu' = QueuedCpu /\ \A u : Queued(u)' <=> Queued(u)
        BY <1>0, <2>1, <3>1, EmptyFacts
        DEF ListsOK, QueuedOnce, Queued, QueuedIo, QueuedFill, QueuedCpu
    <3> QED
        BY <1>3, <3>2
        DEF prepare_cohort, Inv, TypeOK, NoJoinerLeftBehind, ListsOK
  <2>2. CASE ready_task_list_io # <<>>
    <3>1. Same
        BY <1>3, <2>2, <1>same DEF prepare_cohort, lists
    <3> QED
        BY <1>3, <3>1
        DEF prepare_cohort, Same, Inv, TypeOK, NoJoinerLeftBehind, ListsOK
  <2> QED
      BY <2>1, <2>2
<1>4. CASE PollIo
  <2> DEFINE t == Head(ready_task_list_io)
  <2>1. /\ t \in Tasks
        /\ t \in QueuedIo
        /\ ListsOK'
        /\ QueuedCpu' = QueuedCpu
        /\ \A u : Queued(u)' <=> Queued(u) /\ u # t
    <3>1. /\ ready_task_list_io # <<>>
          /\ ready_task_list_io' = Tail(ready_task_list_io)
          /\ UNCHANGED <<fill_ready_task_list_io, ready_task_list_cpu>>
        BY <1>4 DEF PollIo
    <3> QED
        BY <1>0, <3>1, TailFacts
        DEF ListsOK, QueuedOnce, Queued, QueuedIo, QueuedFill, QueuedCpu
  <2>2. t \notin QueuedCpu
      BY <1>0, <2>1 DEF ListsOK, QueuedOnce
  <2> HIDE DEF t
  <2>3. CASE ready[t] = "Complete" /\ UNCHANGED <<ready, current_task, yielded, phase>>
      BY <1>4, <2>1, <2>2, <2>3, Zenon
      DEF PollIo, Inv, TypeOK, NoJoinerLeftBehind, ListsOK
  <2>4. CASE /\ ready[t] # "Complete"
             /\ ready' = [ready EXCEPT ![t] = IF @ = "Aborted" THEN @ ELSE "Running"]
             /\ StartPoll(t)
    <3>1. t \notin resolved /\ phase' = "run" /\ current_task' = t /\ phase = "cohort"
        BY <1>4, <2>1, <2>4 DEF Inv, PollIo, StartPoll
    <3>2. ready[t] \in {"Ready", "Aborted"}
        BY <1>0, <2>1, <2>4, <3>1 DEF Inv, TypeOK, Queued
    <3>3. TypeOK'
        BY <1>4, <1>0, <2>1, <2>4, <3>1, Zenon DEF PollIo, StartPoll, TypeOK, ListsOK
    <3>4. NoJoinerLeftBehind'
        BY <1>4, <1>0, <2>4, <3>1, <3>2 DEF PollIo, Inv, TypeOK, NoJoinerLeftBehind
    <3>5. current_task \notin Tasks
        BY <3>1 DEF Inv
    <3> QED
        BY <1>4, <2>1, <2>2, <2>4, <3>1, <3>2, <3>3, <3>4, <3>5
        DEF PollIo, Inv, TypeOK, ListsOK
  <2> QED
      BY <1>4, <2>3, <2>4 DEF PollIo, t
<1>5. CASE PollCpu
  <2> DEFINE t == Head(ready_task_list_cpu)
  <2>1. /\ t \in Tasks
        /\ t \in QueuedCpu
        /\ ListsOK'
        /\ QueuedCpu' = QueuedCpu \ {t}
        /\ \A u : Queued(u)' <=> Queued(u) /\ u # t
    <3>1. /\ ready_task_list_cpu # <<>>
          /\ ready_task_list_cpu' = Tail(ready_task_list_cpu)
          /\ UNCHANGED <<fill_ready_task_list_io, ready_task_list_io>>
        BY <1>5 DEF PollCpu
    <3> QED
        BY <1>0, <3>1, TailFacts
        DEF ListsOK, QueuedOnce, Queued, QueuedIo, QueuedFill, QueuedCpu
  <2>2. /\ ready' = [ready EXCEPT ![t] = IF @ = "Aborted" THEN @ ELSE "Running"]
        /\ StartPoll(t)
      BY <1>5 DEF PollCpu
  <2> HIDE DEF t
  <2>3. phase = "cohort" /\ Queued(t)
      BY <1>5, <2>1 DEF PollCpu, Queued
  <2>4. ready[t] \in {"Ready", "Aborted", "Complete"}
      BY <1>0, <2>1, <2>3 DEF Inv, TypeOK
  <2>5. CASE t \in resolved
    <3>1. ready[t] = "Complete" /\ EarlyReturn
        BY <2>1, <2>3, <2>5 DEF Inv
    <3>2. phase' = "panicked" /\ current_task' = t
        BY <2>2, <2>5 DEF StartPoll
    <3>3. TypeOK'
        BY <1>5, <1>0, <2>1, <2>2, <3>2, Zenon DEF PollCpu, StartPoll, TypeOK, ListsOK
    <3>4. NoJoinerLeftBehind'
        BY <1>5, <1>0, <2>2, <2>3, <3>1 DEF PollCpu, Inv, TypeOK, NoJoinerLeftBehind
    <3> QED
        BY <2>1, <3>1, <3>2, <3>3, <3>4 DEF Inv, ListsOK
  <2>6. CASE t \notin resolved
    <3>1. ready[t] \in {"Ready", "Aborted"}
        BY <2>1, <2>3, <2>4, <2>6 DEF Inv
    <3>2. phase' = "run" /\ current_task' = t
        BY <2>2, <2>6 DEF StartPoll
    <3>3. TypeOK'
        BY <1>5, <1>0, <2>1, <2>2, <3>2, Zenon DEF PollCpu, StartPoll, TypeOK, ListsOK
    <3>4. NoJoinerLeftBehind'
        BY <1>5, <1>0, <2>2, <3>1, <3>2 DEF PollCpu, Inv, TypeOK, NoJoinerLeftBehind
    <3>5. current_task \notin Tasks
        BY <2>3 DEF Inv
    <3> QED
        BY <1>5, <2>1, <2>2, <2>3, <2>6, <3>1, <3>2, <3>3, <3>4, <3>5
        DEF PollCpu, Inv, TypeOK, ListsOK
  <2> QED
      BY <2>5, <2>6
<1>6. CASE EndCohort
  <2>1. Same
      BY <1>6, <1>same DEF EndCohort
  <2> QED
      BY <1>6, <2>1, Zenon
      DEF EndCohort, Same, Inv, TypeOK, NoJoinerLeftBehind, ListsOK
<1>7. CASE complete_task
  <2>1. Same
      BY <1>7, <1>same DEF complete_task
  <2> QED
      BY <1>7, <2>1, TasksAssumption
      DEF complete_task, Same, Inv, TypeOK, NoJoinerLeftBehind, ListsOK
<1>8. ASSUME NEW u \in Tasks, WakeJoiner(u)
      PROVE  Inv'
  <2>1. /\ current_task \in Tasks
        /\ ready[u] # "Absent"
        /\ yielded' \in BOOLEAN
        /\ yielded => yielded'
      BY <1>8, <1>0 DEF WakeJoiner, schedule_io, Inv, TypeOK
  <2> DEFINE j == current_task
             d == {u}
  <2>2. /\ d \in SUBSET Tasks
        /\ joining_tasks' \in {joining_tasks,
                               [joining_tasks EXCEPT ![j] = @ \ d]}
      BY <1>8 DEF WakeJoiner
  <2>3. /\ phase \in {"reap", "run", "completing"}
        /\ schedule_io(u)
        /\ UNCHANGED <<last_ready_cpu, current_task, high_priority,
                       keep_running, tasks, completed_tasks, resolved,
                       phase>>
      BY <1>8 DEF WakeJoiner
  <2> HIDE DEF d
  <2> QED
      BY <2>1, <2>2, <2>3, WakeInv
<1>9. CASE Unblock
  <2>1. Same
      BY <1>9, <1>same DEF Unblock
  <2> QED
      BY <1>9, <2>1
      DEF Unblock, Same, Inv, TypeOK, NoJoinerLeftBehind, ListsOK
<1>10. ASSUME NEW t \in Tasks, process_completion(t)
       PROVE  Inv'
    BY <1>10, <1>0, WakeInv, Zenon DEF process_completion, TypeOK
<1>11. ASSUME NEW t \in Tasks, Call(t)
       PROVE  Inv'
  <2>0. phase = "run" /\ current_task = t /\ yielded \in BOOLEAN
    <3>1. Running(t)
        BY <1>11, Zenon
        DEF Call, yield_io, yield_cpu, set_high_priority, shutdown_loop,
            SubmitAll, Wake, spawn_task, abort_task, Join, DropJoin
    <3> QED
        BY <1>0, <3>1 DEF Running, TypeOK
  <2>1. CASE yield_io(t)
    <3>1. ready[t] # "Absent" /\ yielded' \in BOOLEAN /\ yielded'
        BY <2>1, <2>0 DEF yield_io, Inv
    <3> QED
        BY <2>0, <2>1, <3>1, WakeInv DEF yield_io
  <2>2. CASE yield_cpu(t)
    <3>1. CASE /\ ready[t] \in {"Running", "Suspend"}
               /\ ready' = [ready EXCEPT ![t] = "Ready"]
               /\ ready_task_list_cpu' = Append(ready_task_list_cpu, t)
               /\ UNCHANGED <<ready_task_list_io, fill_ready_task_list_io>>
      <4>1. ~Queued(t)
          BY <2>0, <3>1 DEF Inv
      <4>2. /\ ListsOK'
            /\ QueuedCpu' = QueuedCpu \cup {t}
            /\ \A u : Queued(u)' <=> Queued(u) \/ u = t
          BY <1>0, <3>1, <4>1, ScheduleCpuList
      <4> QED
          BY <2>0, <2>2, <3>1, <4>2
          DEF yield_cpu, Inv, TypeOK, NoJoinerLeftBehind, ListsOK
    <3>2. CASE UNCHANGED <<ready, lists>>
      <4>1. Same
          BY <3>2, <1>same
      <4> QED
          BY <2>0, <2>2, <3>2, <4>1
          DEF yield_cpu, Same, Inv, TypeOK, NoJoinerLeftBehind, ListsOK
    <3> QED
        BY <2>2, <3>1, <3>2 DEF yield_cpu, schedule_cpu
  <2>3. CASE set_high_priority(t)
    <3>1. Same
        BY <2>3, <1>same DEF set_high_priority
    <3> QED
        BY <2>0, <2>3, <3>1
        DEF set_high_priority, Same, Inv, TypeOK, NoJoinerLeftBehind, ListsOK
  <2>4. CASE shutdown_loop(t)
    <3>1. Same
        BY <2>4, <1>same DEF shutdown_loop
    <3> QED
        BY <2>0, <2>4, <3>1, Zenon
        DEF shutdown_loop, Same, Inv, TypeOK, NoJoinerLeftBehind, ListsOK
  <2>5. CASE SubmitAll(t)
    <3>1. Same
        BY <2>5, <1>same DEF SubmitAll
    <3> QED
        BY <2>0, <2>5, <3>1
        DEF SubmitAll, Same, Inv, TypeOK, NoJoinerLeftBehind, ListsOK
  <2>6. ASSUME NEW u \in Tasks, Wake(t, u)
        PROVE  Inv'
      BY <2>0, <2>6, WakeInv DEF Wake
  <2>7. ASSUME NEW u \in Tasks, spawn_task(t, u)
        PROVE  Inv'
    <3>1. ~Queued(u) /\ u # t /\ u \notin resolved
        BY <2>0, <2>7 DEF spawn_task, Inv
    <3>2. /\ ListsOK'
          /\ QueuedCpu' = QueuedCpu
          /\ \A v : Queued(v)' <=> Queued(v) \/ v = u
        BY <1>0, <2>7, <3>1, ScheduleInternal DEF spawn_task
    <3> QED
        BY <2>0, <2>7, <3>1, <3>2
        DEF spawn_task, Inv, TypeOK, NoJoinerLeftBehind, ListsOK
  <2>8. ASSUME NEW u \in Tasks, abort_task(t, u)
        PROVE  Inv'
    <3>1. CASE ready[u] = "Suspend" /\ schedule_io_internal(u)
      <4>1. ~Queued(u) /\ u # t /\ u \notin resolved
          BY <2>0, <3>1 DEF Inv
      <4>2. /\ ListsOK'
            /\ QueuedCpu' = QueuedCpu
            /\ \A v : Queued(v)' <=> Queued(v) \/ v = u
          BY <1>0, <3>1, <4>1, ScheduleInternal
      <4> QED
          BY <2>0, <2>8, <3>1, <4>1, <4>2
          DEF abort_task, Inv, TypeOK, NoJoinerLeftBehind, ListsOK
    <3>2. CASE ready[u] = "Ready" /\ UNCHANGED lists
      <4>1. Same
          BY <3>2, <1>same
      <4> QED
          BY <2>0, <2>8, <3>2, <4>1
          DEF abort_task, Same, Inv, TypeOK, NoJoinerLeftBehind, ListsOK
    <3> QED
        BY <2>8, <3>1, <3>2 DEF abort_task
  <2>9. ASSUME NEW u \in Tasks, Join(t, u)
        PROVE  Inv'
    <3>1. Same
        BY <2>9, <1>same DEF Join
    <3> QED
        BY <2>0, <2>9, <3>1
        DEF Join, Same, Inv, TypeOK, NoJoinerLeftBehind, ListsOK
  <2>10. ASSUME NEW u \in Tasks, DropJoin(t, u)
         PROVE  Inv'
    <3>1. Same
        BY <2>10, <1>same DEF DropJoin
    <3> QED
        BY <2>0, <2>10, <3>1
        DEF DropJoin, Same, Inv, TypeOK, NoJoinerLeftBehind, ListsOK
  <2> QED
      BY <1>11, <2>1, <2>2, <2>3, <2>4, <2>5, <2>6, <2>7, <2>8, <2>9, <2>10
      DEF Call
<1>12. ASSUME NEW t \in Tasks, ReturnPending(t)
       PROVE  Inv'
  <2>1. Same
      BY <1>12, <1>same DEF ReturnPending
  <2> QED
      BY <1>12, <2>1, TasksAssumption
      DEF ReturnPending, Same, Inv, TypeOK, NoJoinerLeftBehind, ListsOK
<1>13. ASSUME NEW t \in Tasks, ReturnReady(t)
       PROVE  Inv'
  <2>1. Same
      BY <1>13, <1>same DEF ReturnReady
  <2>2. phase = "run" /\ current_task = t /\ (yielded => EarlyReturn)
      BY <1>13 DEF ReturnReady, Running
  <2>3. NoJoinerLeftBehind'
      BY <1>13, <2>2 DEF ReturnReady, Inv, TypeOK, NoJoinerLeftBehind
  <2> QED
      BY <1>13, <2>1, <2>2, <2>3
      DEF ReturnReady, Same, Inv, TypeOK, ListsOK
<1>14. CASE UNCHANGED vars
  <2>1. Same
      BY <1>14, <1>same DEF vars, lists
  <2> QED
      BY <1>14, <2>1
      DEF vars, Same, Inv, TypeOK, NoJoinerLeftBehind, ListsOK
<1> QED
    BY <1>1, <1>2, <1>3, <1>4, <1>5, <1>6, <1>7, <1>8, <1>9, <1>10, <1>11,
       <1>12, <1>13, <1>14
    DEF Next, EventLoop, Kernel, Return, Done

-----------------------------------------------------------------------------
(* The theorems.                                                           *)

\* The inductive invariant holds in every state the event loop reaches.
THEOREM Invariance == Spec => []Inv
    BY InitInv, NextInv, PTL DEF Spec

\* Every queue, set and state of TaskState keeps its type.
THEOREM TypeCorrect == Spec => []TypeOK
<1>1. Inv => TypeOK
    BY DEF Inv
<1> QED
    BY <1>1, Invariance, PTL

\* A task never has two entries in the ready lists, however it is woken,
\* yielded and aborted (schedule_io, schedule_cpu, abort_task).
THEOREM OneEntry == Spec => []QueuedOnce
<1>1. Inv => QueuedOnce
    BY DEF Inv
<1> QED
    BY <1>1, Invariance, PTL

\* Task::ready and the ready lists always agree: a Ready task is never lost
\* from the lists.
THEOREM StatesAndLists == Spec => []ListsAgree
<1>1. Inv => ListsAgree
    BY DEF Inv, ListsAgree
<1> QED
    BY <1>1, Invariance, PTL

\* block_on never sleeps in the kernel while a task waits to be polled.
THEOREM SleepsOnlyIdle == Spec => []BlocksOnlyIdle
<1>1. Inv => BlocksOnlyIdle
  <2> SUFFICES ASSUME Inv, phase = "blocked", NEW t \in Tasks
               PROVE  ready[t] # "Ready" /\ (ready[t] = "Aborted" => AbortUnseen)
      BY DEF BlocksOnlyIdle
  <2>1. ~Queued(t)
      BY EmptyFacts
      DEF Inv, any_ready, Queued, QueuedIo, QueuedFill, QueuedCpu
  <2>2. current_task # t
      BY DEF Inv
  <2> QED
      BY <2>1, <2>2 DEF Inv
<1> QED
    BY <1>1, Invariance, PTL

\* complete_task wakes every task that waits for the finished one, and a task
\* that starts to wait afterwards is not registered.
THEOREM JoinersAreWoken == Spec => []NoJoinerLeftBehind
<1>1. Inv => NoJoinerLeftBehind
    BY DEF Inv
<1> QED
    BY <1>1, Invariance, PTL

\* If no task finishes in a poll in which it has polled a yield future, then
\* no finished task is polled again, although entries of finished tasks do
\* stay behind in the ready lists.
THEOREM FinishedStaysFinished ==
    ASSUME ~EarlyReturn
    PROVE  Spec => []NeverRepolled
<1>1. Inv => NeverRepolled
    BY DEF Inv, NeverRepolled
<1> QED
    BY <1>1, Invariance, PTL

-----------------------------------------------------------------------------
(* The scheduler implements the safety part of Executor, as long as no     *)
(* task finishes in a poll it has yielded in and an aborted task notices.  *)

Disciplined == ~EarlyReturn /\ ~AbortUnseen

\* Two states with the same task states, current task and queued tasks have
\* the same abstract state.
LEMMA SameStatus ==
    ASSUME UNCHANGED <<ready, current_task>>,
           \A u : Queued(u)' <=> Queued(u),
           (phase = "exited") <=> (phase = "exited")'
    PROVE  UNCHANGED Exec!vars
    BY DEF Exec!vars, StatusOf

\* A step that changes the abstract state of one task.
LEMMA OneStatus ==
    ASSUME NEW t \in Tasks, NEW s,
           \A u \in Tasks \ {t} : StatusOf(u)' = StatusOf(u),
           StatusOf(t)' = s,
           phase # "exited", phase' # "exited"
    PROVE  Exec!Become(t, s)
    BY Zenon DEF Exec!Become

\* Only the current task is being polled.
LEMMA BusyIsCurrent ==
    ASSUME Inv, phase \in {"top", "cohort"}
    PROVE  ~Exec!Busy
<1>1. current_task \notin Tasks
    BY DEF Inv
<1>2. \A t \in Tasks : ready[t] # "Running"
    BY <1>1 DEF Inv
<1>3. \A t \in Tasks : StatusOf(t) \notin {"running", "notified"}
    BY <1>1, <1>2 DEF StatusOf, Inv, TypeOK, TaskReadyState
<1> QED
    BY <1>3 DEF Exec!Busy

\* Waking a task is a Wake of the executor, or changes nothing it can see.
LEMMA WakeRefines ==
    ASSUME Inv, NEW t \in Tasks, schedule_io(t),
           phase \in {"reap", "run", "completing"},
           UNCHANGED <<current_task, phase>>
    PROVE  Exec!Next \/ UNCHANGED Exec!vars
<1>1. ListsOK
    BY DEF Inv, TypeOK, ListsOK
<1>2. CASE /\ ready[t] \in {"Running", "Suspend"}
           /\ ready' = [ready EXCEPT ![t] = "Ready"]
           /\ schedule_io_internal(t)
  <2>1. ~Queued(t)
      BY <1>2 DEF Inv
  <2>2. \A u : Queued(u)' <=> Queued(u) \/ u = t
      BY <1>1, <1>2, <2>1, ScheduleInternal
  <2>3. \A u \in Tasks \ {t} : StatusOf(u)' = StatusOf(u)
      BY <1>2, <2>2, Zenon DEF StatusOf, Inv, TypeOK
  <2>4. CASE ready[t] = "Running"
    <3>1. current_task = t
        BY <2>4 DEF Inv
    <3>2. StatusOf(t) = "running" /\ StatusOf(t)' = "notified"
        BY <1>2, <2>2, <2>4, <3>1 DEF StatusOf, Inv, TypeOK
    <3>3. Exec!Become(t, "notified")
        BY <2>3, <3>2, OneStatus
    <3>4. Exec!Wake(t)
        BY <3>2, <3>3 DEF Exec!Wake
    <3> QED
        BY <3>4 DEF Exec!Next
  <2>5. CASE ready[t] = "Suspend"
    <3>1. current_task # t
        BY <2>5 DEF Inv
    <3>2. StatusOf(t) = "idle" /\ StatusOf(t)' = "runnable"
        BY <1>2, <2>2, <2>5, <3>1 DEF StatusOf, Inv, TypeOK
    <3>3. Exec!Become(t, "runnable")
        BY <2>3, <3>2, OneStatus
    <3>4. Exec!Wake(t)
        BY <3>2, <3>3 DEF Exec!Wake
    <3> QED
        BY <3>4 DEF Exec!Next
  <2> QED
      BY <1>2, <2>4, <2>5
<1>3. CASE UNCHANGED <<ready, lists>>
    BY <1>1, <1>3, SameLists, SameStatus
<1> QED
    BY <1>2, <1>3 DEF schedule_io

\* A popped task starts to be polled.
LEMMA PollRefines ==
    ASSUME Inv, phase = "cohort", NEW t \in Tasks,
           ready[t] \in {"Ready", "Aborted"},
           ready' = [ready EXCEPT ![t] = IF @ = "Aborted" THEN @ ELSE "Running"],
           current_task' = t, phase' = "run",
           \A u : Queued(u)' <=> Queued(u) /\ u # t
    PROVE  Exec!Next
<1>1. current_task \notin Tasks
    BY DEF Inv
<1>2. \A u \in Tasks \ {t} : StatusOf(u)' = StatusOf(u)
    BY <1>1, Zenon DEF StatusOf, Inv, TypeOK
<1>3. StatusOf(t) = "runnable" /\ StatusOf(t)' = "running"
    BY <1>1 DEF StatusOf, Inv, TypeOK
<1>4. Exec!Become(t, "running")
    BY <1>2, <1>3, OneStatus
<1>5. Exec!Poll(t)
    BY <1>3, <1>4, BusyIsCurrent DEF Exec!Poll
<1> QED
    BY <1>5 DEF Exec!Next

\* block_on starts with two runnable tasks.
LEMMA InitRefines == Init => Exec!Init
<1> SUFFICES ASSUME Init
             PROVE  Exec!Init
    OBVIOUS
<1>1. \A t \in Tasks : StatusOf(t) \in {"absent", "runnable"}
    BY TasksAssumption DEF Init, StatusOf
<1> QED
    BY <1>1 DEF Exec!Init, Init

\* Every step of the scheduler is a step of the executor or invisible to it.
LEMMA NextRefines ==
    ASSUME Disciplined, Inv, Next
    PROVE  Exec!Next \/ UNCHANGED Exec!vars
<1>0. ListsOK /\ TypeOK
    BY DEF Inv, TypeOK, ListsOK
<1>same. ASSUME UNCHANGED <<ready, current_task>>, UNCHANGED lists,
                (phase = "exited") <=> (phase = "exited")'
         PROVE  UNCHANGED Exec!vars
    BY <1>0, <1>same, SameLists, SameStatus
<1>1. CASE Exit
  <2>1. phase = "top" /\ phase' = "exited" /\ UNCHANGED <<ready, current_task>>
      BY <1>1 DEF Exit
  <2>2. current_task \notin Tasks
      BY <2>1 DEF Inv
  <2>3. \A t \in Tasks : StatusOf(t)' = StatusOf(t)
      BY <2>1, <2>2 DEF StatusOf, Inv, TypeOK
  <2>4. Exec!Stop
      BY <2>1, <2>3, BusyIsCurrent DEF Exec!Stop
  <2> QED
      BY <2>4 DEF Exec!Next
<1>2. CASE submit_and_complete_io \/ EndCohort \/ Unblock
    BY <1>2, <1>same DEF submit_and_complete_io, EndCohort, Unblock
<1>3. CASE prepare_cohort
  <2>1. \A u : Queued(u)' <=> Queued(u)
    <3>1. CASE ready_task_list_io = <<>>
        BY <1>3, <3>1, EmptyFacts
        DEF prepare_cohort, Queued, QueuedIo, QueuedFill, QueuedCpu
    <3>2. CASE ready_task_list_io # <<>>
        BY <1>3, <3>2
        DEF prepare_cohort, Queued, QueuedIo, QueuedFill, QueuedCpu
    <3> QED
        BY <3>1, <3>2
  <2> QED
      BY <1>3, <2>1, SameStatus DEF prepare_cohort
<1>4. CASE PollIo
  <2> DEFINE t == Head(ready_task_list_io)
  <2>1. /\ ready_task_list_io # <<>>
        /\ ready_task_list_io' = Tail(ready_task_list_io)
        /\ UNCHANGED <<fill_ready_task_list_io, ready_task_list_cpu>>
        /\ phase = "cohort"
      BY <1>4 DEF PollIo
  <2>2. /\ t \in Tasks
        /\ Queued(t)
        /\ \A u : Queued(u)' <=> Queued(u) /\ u # t
      BY <1>0, <2>1, TailFacts
      DEF ListsOK, QueuedOnce, Queued, QueuedIo, QueuedFill, QueuedCpu
  <2> HIDE DEF t
  <2>3. CASE ready[t] = "Complete" /\ UNCHANGED <<ready, current_task, phase>>
    <3>1. \A u \in Tasks : StatusOf(u)' = StatusOf(u)
        BY <2>1, <2>2, <2>3 DEF StatusOf, Inv, TypeOK
    <3> QED
        BY <2>1, <2>3, <3>1 DEF Exec!vars
  <2>4. CASE /\ ready[t] # "Complete"
             /\ ready' = [ready EXCEPT ![t] = IF @ = "Aborted" THEN @ ELSE "Running"]
             /\ StartPoll(t)
    <3>1. ready[t] \in {"Ready", "Aborted"} /\ t \notin resolved
        BY <1>0, <2>1, <2>2, <2>4 DEF Inv, TypeOK, TaskReadyState
    <3>2. current_task' = t /\ phase' = "run"
        BY <2>4, <3>1 DEF StartPoll
    <3> QED
        BY <2>1, <2>2, <2>4, <3>1, <3>2, PollRefines, Zenon
  <2> QED
      BY <1>4, <2>3, <2>4 DEF PollIo, t
<1>5. CASE PollCpu
  <2> DEFINE t == Head(ready_task_list_cpu)
  <2>1. /\ ready_task_list_cpu # <<>>
        /\ ready_task_list_cpu' = Tail(ready_task_list_cpu)
        /\ UNCHANGED <<fill_ready_task_list_io, ready_task_list_io>>
        /\ phase = "cohort"
        /\ ready' = [ready EXCEPT ![t] = IF @ = "Aborted" THEN @ ELSE "Running"]
        /\ StartPoll(t)
      BY <1>5 DEF PollCpu
  <2>2. /\ t \in Tasks
        /\ t \in QueuedCpu
        /\ Queued(t)
        /\ \A u : Queued(u)' <=> Queued(u) /\ u # t
      BY <1>0, <2>1, TailFacts
      DEF ListsOK, QueuedOnce, Queued, QueuedIo, QueuedFill, QueuedCpu
  <2> HIDE DEF t
  <2>3. ready[t] \in {"Ready", "Aborted"} /\ t \notin resolved
      BY <1>0, <2>1, <2>2 DEF Inv, TypeOK, TaskReadyState, Disciplined
  <2>4. current_task' = t /\ phase' = "run"
      BY <2>1, <2>3 DEF StartPoll
  <2> QED
      BY <2>1, <2>2, <2>3, <2>4, PollRefines, Zenon
<1>6. CASE complete_task
  <2>1. /\ phase = "completing" /\ phase' = "cohort"
        /\ UNCHANGED <<ready, lists>> /\ current_task' = None
      BY <1>6 DEF complete_task
  <2>2. ready[current_task] = "Complete"
      BY <2>1 DEF Inv
  <2>3. \A u : Queued(u)' <=> Queued(u)
      BY <1>0, <2>1, SameLists
  <2>4. \A u \in Tasks : StatusOf(u)' = StatusOf(u)
      BY <2>1, <2>2, <2>3, TasksAssumption DEF StatusOf, Inv, TypeOK
  <2> QED
      BY <2>1, <2>4 DEF Exec!vars
<1>7. ASSUME NEW u \in Tasks,
             WakeJoiner(u) \/ process_completion(u)
                \/ \E t \in Tasks : Wake(t, u)
      PROVE  Exec!Next \/ UNCHANGED Exec!vars
    BY <1>7, WakeRefines DEF WakeJoiner, process_completion, Wake, Running
<1>8. ASSUME NEW t \in Tasks, Call(t)
      PROVE  Exec!Next \/ UNCHANGED Exec!vars
  <2>1. CASE yield_io(t)
      BY <2>1, WakeRefines DEF yield_io, Running
  <2>2. CASE yield_cpu(t)
    <3>0. phase = "run" /\ current_task = t /\ UNCHANGED <<phase, current_task>>
        BY <2>2 DEF yield_cpu, Running
    <3>1. CASE /\ ready[t] \in {"Running", "Suspend"}
               /\ ready' = [ready EXCEPT ![t] = "Ready"]
               /\ ready_task_list_cpu' = Append(ready_task_list_cpu, t)
               /\ UNCHANGED <<ready_task_list_io, fill_ready_task_list_io>>
      <4>1. ~Queued(t) /\ ready[t] = "Running"
          BY <3>0, <3>1 DEF Inv
      <4>2. \A u : Queued(u)' <=> Queued(u) \/ u = t
          BY <1>0, <3>1, <4>1, ScheduleCpuList
      <4>3. \A u \in Tasks \ {t} : StatusOf(u)' = StatusOf(u)
          BY <3>0, <3>1, <4>2, Zenon DEF StatusOf, Inv, TypeOK
      <4>4. StatusOf(t) = "running" /\ StatusOf(t)' = "notified"
          BY <3>0, <3>1, <4>1, <4>2 DEF StatusOf, Inv, TypeOK
      <4>5. Exec!Become(t, "notified")
          BY <3>0, <4>3, <4>4, OneStatus
      <4>6. Exec!Wake(t)
          BY <4>4, <4>5 DEF Exec!Wake
      <4> QED
          BY <4>6 DEF Exec!Next
    <3>2. CASE UNCHANGED <<ready, lists>>
        BY <3>0, <3>2, <1>same
    <3> QED
        BY <2>2, <3>1, <3>2 DEF yield_cpu, schedule_cpu
  <2>3. CASE set_high_priority(t) \/ shutdown_loop(t) \/ SubmitAll(t)
      BY <2>3, <1>same DEF set_high_priority, shutdown_loop, SubmitAll
  <2>4. ASSUME NEW u \in Tasks, spawn_task(t, u)
        PROVE  Exec!Next
    <3>0. phase = "run" /\ UNCHANGED <<phase, current_task>>
        BY <2>4 DEF spawn_task, Running
    <3>1. ~Queued(u) /\ current_task # u
        BY <2>4, <3>0 DEF spawn_task, Inv
    <3>2. \A v : Queued(v)' <=> Queued(v) \/ v = u
        BY <1>0, <2>4, <3>1, ScheduleInternal DEF spawn_task
    <3>3. \A v \in Tasks \ {u} : StatusOf(v)' = StatusOf(v)
        BY <2>4, <3>0, <3>2, Zenon DEF spawn_task, StatusOf, Inv, TypeOK
    <3>4. StatusOf(u) = "absent" /\ StatusOf(u)' = "runnable"
        BY <2>4, <3>0, <3>1 DEF spawn_task, StatusOf, Inv, TypeOK
    <3>5. Exec!Become(u, "runnable")
        BY <3>0, <3>3, <3>4, OneStatus
    <3>6. Exec!Spawn(u)
        BY <3>4, <3>5 DEF Exec!Spawn
    <3> QED
        BY <3>6 DEF Exec!Next
  <2>5. ASSUME NEW u \in Tasks, abort_task(t, u)
        PROVE  Exec!Next \/ UNCHANGED Exec!vars
    <3>0. phase = "run" /\ UNCHANGED <<phase, current_task>>
          /\ ready' = [ready EXCEPT ![u] = "Aborted"]
        BY <2>5 DEF abort_task, Running
    <3>1. CASE ready[u] = "Suspend" /\ schedule_io_internal(u)
      <4>1. ~Queued(u) /\ current_task # u
          BY <3>0, <3>1 DEF Inv
      <4>2. \A v : Queued(v)' <=> Queued(v) \/ v = u
          BY <1>0, <3>1, <4>1, ScheduleInternal
      <4>3. \A v \in Tasks \ {u} : StatusOf(v)' = StatusOf(v)
          BY <3>0, <4>2, Zenon DEF StatusOf, Inv, TypeOK
      <4>4. StatusOf(u) = "idle" /\ StatusOf(u)' = "runnable"
          BY <3>0, <3>1, <4>1 DEF StatusOf, Inv, TypeOK
      <4>5. Exec!Become(u, "runnable")
          BY <3>0, <4>3, <4>4, OneStatus
      <4>6. Exec!Wake(u)
          BY <4>4, <4>5 DEF Exec!Wake
      <4> QED
          BY <4>6 DEF Exec!Next
    <3>2. CASE ready[u] = "Ready" /\ UNCHANGED lists
      <4>1. \A v : Queued(v)' <=> Queued(v)
          BY <1>0, <3>2, SameLists
      <4>2. \A v \in Tasks : StatusOf(v)' = StatusOf(v)
          BY <3>0, <3>2, <4>1, Zenon DEF StatusOf, Inv, TypeOK
      <4> QED
          BY <3>0, <4>2 DEF Exec!vars
    <3> QED
        BY <2>5, <3>1, <3>2 DEF abort_task
  <2>6. ASSUME NEW u \in Tasks, Join(t, u) \/ DropJoin(t, u)
        PROVE  UNCHANGED Exec!vars
      BY <2>6, <1>same DEF Join, DropJoin
  <2> QED
      BY <1>7, <1>8, <2>1, <2>2, <2>3, <2>4, <2>5, <2>6 DEF Call
<1>9. ASSUME NEW t \in Tasks, ReturnPending(t)
      PROVE  Exec!Next
  <2>1. /\ phase = "run" /\ current_task = t /\ phase' = "cohort"
        /\ current_task' = None
        /\ ready' = [ready EXCEPT ![t] = IF @ = "Running" THEN "Suspend" ELSE @]
        /\ ready[t] \in {"Ready", "Running"}
      BY <1>9 DEF ReturnPending, Disciplined, Inv
  <2>2. \A u : Queued(u)' <=> Queued(u)
      BY <1>0, <1>9, SameLists DEF ReturnPending
  <2>3. \A u \in Tasks \ {t} : StatusOf(u)' = StatusOf(u)
      BY <2>1, <2>2, TasksAssumption, Zenon DEF StatusOf, Inv, TypeOK
  <2>4. CASE ready[t] = "Running"
    <3>1. StatusOf(t) = "running" /\ StatusOf(t)' = "idle"
        BY <2>1, <2>4, TasksAssumption DEF StatusOf, Inv, TypeOK
    <3>2. Exec!Become(t, "idle")
        BY <2>1, <2>3, <3>1, OneStatus
    <3>3. Exec!Suspend(t)
        BY <3>1, <3>2 DEF Exec!Suspend
    <3> QED
        BY <3>3 DEF Exec!Next
  <2>5. CASE ready[t] = "Ready"
    <3>0. Queued(t)
        BY <2>1, <2>5 DEF Inv
    <3>1. StatusOf(t) = "notified" /\ StatusOf(t)' = "runnable"
        BY <2>1, <2>5, <3>0, TasksAssumption DEF StatusOf, Inv, TypeOK
    <3>2. Exec!Become(t, "runnable")
        BY <2>1, <2>3, <3>1, OneStatus
    <3>3. Exec!Suspend(t)
        BY <3>1, <3>2 DEF Exec!Suspend
    <3> QED
        BY <3>3 DEF Exec!Next
  <2> QED
      BY <2>1, <2>4, <2>5
<1>10. ASSUME NEW t \in Tasks, ReturnReady(t)
       PROVE  Exec!Next
  <2>1. /\ phase = "run" /\ current_task = t /\ phase' = "completing"
        /\ current_task' = t
        /\ ready' = [ready EXCEPT ![t] = "Complete"]
        /\ ready[t] \in {"Ready", "Running", "Aborted"}
      BY <1>10 DEF ReturnReady, Running, Inv
  <2>2. \A u : Queued(u)' <=> Queued(u)
      BY <1>0, <1>10, SameLists DEF ReturnReady
  <2>3. \A u \in Tasks \ {t} : StatusOf(u)' = StatusOf(u)
      BY <2>1, <2>2, Zenon DEF StatusOf, Inv, TypeOK
  <2>4. StatusOf(t) \in {"running", "notified"} /\ StatusOf(t)' = "finished"
      BY <2>1 DEF StatusOf, Inv, TypeOK
  <2>5. Exec!Become(t, "finished")
      BY <2>1, <2>3, <2>4, OneStatus
  <2>6. Exec!Finish(t)
      BY <2>4, <2>5 DEF Exec!Finish
  <2> QED
      BY <2>6 DEF Exec!Next
<1>11. CASE Done
    BY <1>11, <1>same DEF Done, vars, lists
<1> QED
    BY <1>1, <1>2, <1>3, <1>4, <1>5, <1>6, <1>7, <1>8, <1>9, <1>10, <1>11
    DEF Next, EventLoop, Kernel, Return

\* Safety of the executor the tasks rely on: one poll at a time, no wake-up
\* lost during a poll or in a list, no poll after the end.
THEOREM ImplementsSafety ==
    ASSUME Disciplined
    PROVE  Spec => Exec!Safety
<1>1. Inv /\ [Next]_vars => [Exec!Next]_(Exec!vars)
  <2>1. ASSUME Inv, UNCHANGED vars
        PROVE  UNCHANGED Exec!vars
    <3>1. ListsOK /\ UNCHANGED lists
        BY <2>1 DEF Inv, TypeOK, ListsOK, vars, lists
    <3> QED
        BY <2>1, <3>1, SameLists, SameStatus DEF vars
  <2> QED
      BY <2>1, NextRefines
<1> QED
    BY <1>1, InitRefines, Invariance, PTL DEF Spec, Exec!Safety
=============================================================================
