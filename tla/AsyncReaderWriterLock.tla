----------------------- MODULE AsyncReaderWriterLock -----------------------
(***************************************************************************)
(* AsyncReaderWriterLock (kimojio/src/async_reader_writer_lock.rs): two    *)
(* AsyncEvents.  A writer that leaves prefers one waiting writer and wakes *)
(* no reader; a writer that gives up wakes the readers (the scopeguard).   *)
(***************************************************************************)
EXTENDS WaitList, FiniteSets

CONSTANT Tasks  \* lock futures and the guards they become

VARIABLES
    readers,      \* the counter
    writer,       \* the flag
    read_event, write_event,
    pc,           \* "idle", "wait_read", "wait_write", "reading", "writing"
    woken         \* waiting tasks woken since they were last polled

vars == <<readers, writer, read_event, write_event, pc, woken>>

States == {"idle", "wait_read", "wait_write", "reading", "writing"}
In(s) == {t \in Tasks : pc[t] = s}
Waiting == In("wait_read") \cup In("wait_write")

Init ==
    /\ readers = 0
    /\ writer = FALSE
    /\ read_event = with_state(TRUE)
    /\ write_event = with_state(TRUE)
    /\ pc = [t \in Tasks |-> "idle"]
    /\ woken = {}

\* t leaves the poll in state s; the tasks of W have been woken.
Leave(t, s, W) ==
    /\ pc' = [pc EXCEPT ![t] = s]
    /\ woken' = (woken \cup (W \cap Waiting)) \ {t}

-----------------------------------------------------------------------------
(* lock_write.                                                             *)

\* The lock is free: e is the write event when the loop is left.
take_write(t, e) ==
    /\ writer' = TRUE
    /\ write_event' = reset(e)
    /\ read_event' = reset(read_event)
    /\ UNCHANGED readers
    /\ Leave(t, "writing", NotifiedAll(e) \cup NotifiedAll(read_event))

wait_write(t) ==
    /\ ~write_event.state
    /\ write_event' = register(write_event, t)
    /\ UNCHANGED <<readers, writer, read_event>>
    /\ Leave(t, "wait_write", {})

\* Mutant: readers do not keep a writer out.
lock_write_IgnoresReaders(t) ==
    /\ pc[t] = "idle"
    /\ IF ~writer THEN take_write(t, write_event) ELSE wait_write(t)

lock_write(t) ==
    /\ pc[t] = "idle"
    /\ IF readers = 0 /\ ~writer THEN take_write(t, write_event) ELSE wait_write(t)

\* The wait future looks at the event, the loop at the counters.
PollWrite(t) ==
    /\ pc[t] = "wait_write"
    /\ \/ /\ write_event.state
          /\ readers = 0 /\ ~writer
          /\ take_write(t, returned(write_event, t))
       \/ wait_write(t)

\* The scopeguard of lock_write, when the future ends without the lock.
wake_readers_on_cancel(e) == IF writer THEN e ELSE set(e)

\* The waiting future is dropped, or its wait is cancelled.
cancel_write(t) ==
    /\ pc[t] = "wait_write"
    /\ write_event' = unregister_canceled_wait(write_event, t, TRUE)
    /\ read_event' = wake_readers_on_cancel(read_event)
    /\ UNCHANGED <<readers, writer>>
    /\ Leave(t, "idle",
             NotifiedByCancel(write_event, t, TRUE) \cup
                (IF writer THEN {} ELSE NotifiedAll(read_event)))

\* Mutant: without the scopeguard.
abort_write_NoGuard(t) ==
    /\ pc[t] = "wait_write"
    /\ write_event' = wake_all(write_event)
    /\ UNCHANGED <<readers, writer, read_event>>
    /\ Leave(t, "idle", NotifiedAll(write_event))

\* The task is aborted while it waits.
abort_write(t) ==
    /\ pc[t] = "wait_write"
    /\ write_event' = wake_all(write_event)
    /\ read_event' = wake_readers_on_cancel(read_event)
    /\ UNCHANGED <<readers, writer>>
    /\ Leave(t, "idle",
             NotifiedAll(write_event) \cup
                (IF writer THEN {} ELSE NotifiedAll(read_event)))

-----------------------------------------------------------------------------
(* lock_read.                                                              *)

\* There is no writer: the reader resets the write event, e is the read event.
take_read(t, e) ==
    /\ readers' = readers + 1
    /\ read_event' = e
    /\ write_event' = reset(write_event)
    /\ UNCHANGED writer
    /\ Leave(t, "reading", NotifiedAll(write_event))

wait_read(t) ==
    /\ ~read_event.state
    /\ read_event' = register(read_event, t)
    /\ UNCHANGED <<readers, writer, write_event>>
    /\ Leave(t, "wait_read", {})

lock_read(t) ==
    /\ pc[t] = "idle"
    /\ IF ~writer THEN take_read(t, read_event) ELSE wait_read(t)

PollRead(t) ==
    /\ pc[t] = "wait_read"
    /\ \/ /\ read_event.state
          /\ ~writer
          /\ take_read(t, returned(read_event, t))
       \/ wait_read(t)

cancel_read(t) ==
    /\ pc[t] = "wait_read"
    /\ read_event' = unregister_canceled_wait(read_event, t, TRUE)
    /\ UNCHANGED <<readers, writer, write_event>>
    /\ Leave(t, "idle", NotifiedByCancel(read_event, t, TRUE))

abort_read(t) ==
    /\ pc[t] = "wait_read"
    /\ read_event' = wake_all(read_event)
    /\ UNCHANGED <<readers, writer, write_event>>
    /\ Leave(t, "idle", NotifiedAll(read_event))

-----------------------------------------------------------------------------
(* Dropping the guards.                                                    *)

drop_write(t) ==
    /\ pc[t] = "writing"
    /\ writer' = FALSE
    /\ UNCHANGED readers
    /\ IF any_waiting(write_event)
       THEN /\ write_event' = set_wake_n(write_event, 1)
            /\ read_event' = set_wake_n(read_event, 0)
            /\ Leave(t, "idle", Notified(write_event, 1))
       ELSE /\ write_event' = set(write_event)
            /\ read_event' = set(read_event)
            /\ Leave(t, "idle", NotifiedAll(read_event))

drop_read(t) ==
    /\ pc[t] = "reading"
    /\ readers' = readers - 1
    /\ UNCHANGED <<writer, read_event>>
    /\ IF readers = 1
       THEN /\ write_event' = set(write_event)
            /\ Leave(t, "idle", NotifiedAll(write_event))
       ELSE /\ UNCHANGED write_event
            /\ Leave(t, "idle", {})

\* ReadRef::upgrade drops the guard and enters lock_write in the same poll.
upgrade(t) ==
    /\ pc[t] = "reading"
    /\ \/ /\ readers = 1
          /\ readers' = 0
          /\ writer' = TRUE
          /\ write_event' = reset(set(write_event))
          /\ read_event' = reset(read_event)
          /\ Leave(t, "writing", NotifiedAll(write_event) \cup NotifiedAll(read_event))
       \/ /\ readers > 1
          /\ readers' = readers - 1
          /\ write_event' = register(write_event, t)
          /\ UNCHANGED <<writer, read_event>>
          /\ Leave(t, "wait_write", {})

Next ==
    \E t \in Tasks :
       \/ lock_write(t) \/ PollWrite(t) \/ cancel_write(t) \/ abort_write(t)
       \/ lock_read(t) \/ PollRead(t) \/ cancel_read(t) \/ abort_read(t)
       \/ drop_write(t) \/ drop_read(t) \/ upgrade(t)

Spec == Init /\ [][Next]_vars

\* The scheduler polls a task that has been woken.  A guard may be kept.
Fairness ==
    \A t \in Tasks : WF_vars(t \in woken /\ (PollWrite(t) \/ PollRead(t)))

FairSpec == Spec /\ Fairness

-----------------------------------------------------------------------------
TypeOK ==
    /\ readers \in 0..Cardinality(Tasks)
    /\ writer \in BOOLEAN
    /\ read_event \in Events(Tasks)
    /\ write_event \in Events(Tasks)
    /\ pc \in [Tasks -> States]
    /\ woken \in SUBSET Waiting

\* The SAFETY comments: one WriteRef at a time, and none beside a ReadRef; the
\* counter and the flag say which guards exist (assert_valid checks only that
\* they exclude each other).
Exclusion ==
    /\ Cardinality(In("reading")) = readers
    /\ In("writing") = {} <=> ~writer
    /\ \A t, u \in In("writing") : t = u
    /\ writer => readers = 0

\* The events are set exactly when the counters say so: who begins to wait for the
\* lock finds a flag that is not stale.
EventsMatch ==
    /\ read_event.state <=> ~writer
    /\ write_event.state <=> ~writer /\ readers = 0

\* A free lock with waiters has been offered to one of them: the hand-over to
\* a single writer survives that writer's cancellation, abort or delay.
FreeLockIsOffered ==
    ~writer /\ readers = 0 /\ Waiting # {} => woken # {}

\* And so it is taken.
FreeLockIsTaken == []<>~(~writer /\ readers = 0 /\ Waiting # {})

\* A waiting task that is not woken is linked in the list of its event.
WaitersAreLinked ==
    /\ \A t \in In("wait_read") : t \in woken \/ is_linked(read_event, t)
    /\ \A t \in In("wait_write") : t \in woken \/ is_linked(write_event, t)

\* lock_read: "Waits until there are no writers, then returns a `ReadRef`".
ReaderWaitsForWritersOnly ==
    \A t \in Tasks : pc[t] = "wait_read" ~> writer \/ pc[t] # "wait_read"
=============================================================================
