----------------------------- MODULE Operations -----------------------------
(* The life of one operation of kimojio/src/operations.rs with its deadline:    *)
(* creation, first poll, the kernel with its linked timeout, the last poll or a  *)
(* drop.  RingFuture has the request's bookkeeping; here are time, deadlines     *)
(* and what is borrowed.                                                     *)
EXTENDS Integers, FiniteSets, OperationTable

CONSTANTS MaxTime,  \* bound: deadlines, and the time of the first poll
          Second,   \* ticks in a second
          None

-----------------------------------------------------------------------------
VARIABLES now, virtual,  \* the real clock; the virtual one, None if disabled
          op, wrapper,   \* the request; timeout_at, with_timeout_warning or None around it
          deadline, timespec, submitted, \* the caller's; of the request; when submitted
          kernel, future, result, inner, warned

vars == <<now, virtual, op, wrapper, deadline, timespec, submitted, kernel, future, result, inner, warned>>
request == <<op, wrapper, deadline>>

Init ==
  /\ now = 0 /\ virtual \in {None, 0} /\ op = None /\ wrapper = None
  /\ deadline = None /\ timespec = None /\ submitted = None
  /\ kernel = "idle" /\ future = "none" /\ result = None /\ inner = "none" /\ warned = 0

clock_now == IF virtual = None THEN now ELSE virtual

Tick ==
  /\ \/ /\ now < IF future \in {"none", "created"} THEN MaxTime ELSE 2 * MaxTime
        /\ now' = now + 1 /\ UNCHANGED virtual
     \/ virtual # None /\ virtual < MaxTime /\ virtual' = virtual + 1 /\ UNCHANGED now
  /\ UNCHANGED <<request, timespec, submitted, kernel, future, result, inner, warned>>

\* Mutant: the nanoseconds of a duration are left out of its timespec.
Timespec_Seconds(d) == (d \div Second) * Second

\* with_polled: a duration becomes seconds and nanoseconds.
Timespec(d) == (d \div Second) * Second + (d % Second)


\* timeout_from_deadline: TIMEDOUT if the deadline has passed, else what remains;
\* sleep_until saturates instead.
Prepare(o, d) ==
  IF d = None THEN timespec' = None /\ UNCHANGED result
  ELSE IF d >= clock_now THEN timespec' = Timespec(d - clock_now) /\ UNCHANGED result
  ELSE IF o = sleep THEN timespec' = 0 /\ UNCHANGED result
  ELSE timespec' = None /\ result' = "TIMEDOUT"

\* A call of one of the functions; timeout_at and with_timeout_warning have a
\* sleep and run the caller's future beside it.  A sleep has no virtual clock
\* here (see VirtualClock).
Create(o, d, w) ==
  /\ future = "none"
  /\ d # None => o.deadline
  /\ o = sleep => d # None /\ virtual = None
  /\ w # None => o = sleep
  /\ op' = o /\ deadline' = d /\ wrapper' = w /\ future' = "created"
  /\ inner' = IF w = None THEN "none" ELSE "waiting"
  /\ IF o.lazy THEN UNCHANGED <<timespec, result>> ELSE Prepare(o, d)
  /\ UNCHANGED <<now, virtual, submitted, kernel, warned>>

\* The first poll submits the request, or returns the error of ErrnoOrFuture.
FirstPoll ==
  /\ future = "created"
  /\ IF op.lazy THEN Prepare(op, deadline) ELSE UNCHANGED <<timespec, result>>
  /\ IF result' # None THEN future' = "ended" /\ UNCHANGED <<submitted, kernel>>
     ELSE future' = "pending" /\ submitted' = now /\ kernel' = "running"
  /\ UNCHANGED <<now, virtual, request, inner, warned>>

\* The kernel completes a request (a sleep never).
KernelCompletes ==
  /\ kernel = "running" /\ kernel' = "done"
  /\ op # sleep /\ result' \in {"Ok", "Err"}
  /\ UNCHANGED <<now, virtual, request, timespec, submitted, future, inner, warned>>

\* The timeout that is linked to a request, or is the request, expires; or the
\* cancel of a drop is answered.
KernelEnds ==
  /\ kernel = "running" /\ kernel' = "done"
  /\ \/ timespec # None /\ now >= submitted + timespec
        /\ result' = IF future \in {"ended", "gone"} THEN result ELSE "TIME"
     \/ future = "dropping" /\ result' = "CANCELED"
     \/ future \in {"ended", "gone"} /\ UNCHANGED result
  /\ UNCHANGED <<now, virtual, request, timespec, submitted, future, inner, warned>>

InnerReady ==
  /\ inner = "waiting" /\ inner' = "ready"
  /\ UNCHANGED <<now, virtual, request, timespec, submitted, kernel, future, result, warned>>

\* cancel, of a sleep or of another operation: before the request is submitted the next
\* poll returns, after it the kernel ends the request (unless it has completed it).
Cancel ==
  /\ \/ future = "created" /\ ~op.lazy /\ wrapper = None /\ result = None /\ UNCHANGED kernel
     \/ future = "pending" /\ kernel = "running" /\ kernel' = "done"
  /\ result' = "CANCELED"
  /\ UNCHANGED <<now, virtual, request, timespec, submitted, future, inner, warned>>

\* Ok is what a sleep makes of TIME.
map_timeout_poll(r) == IF r = "TIME" THEN "Ok" ELSE r

\* The poll of an operation that is complete.
PollReady ==
  /\ wrapper = None /\ kernel = "done"
  /\ result' = IF op = sleep THEN map_timeout_poll(result) ELSE result
  /\ future' = "ended" /\ UNCHANGED <<inner, warned, kernel>>

InnerFirst ==
  /\ wrapper # None /\ inner = "ready"
  /\ future' = "ended" /\ inner' = "taken" /\ result' = "Ok" /\ UNCHANGED <<warned, kernel>>

\* The inner future is polled first; then the timer decides.
timeout_at ==
  \/ wrapper = "timeout_at" /\ InnerFirst
  \/ /\ wrapper = "timeout_at" /\ kernel = "done" /\ inner = "waiting"
     /\ future' = "ended" /\ inner' = "dropped" /\ UNCHANGED <<warned, kernel>>
     /\ result' = IF map_timeout_poll(result) = "Ok" THEN "Timeout" ELSE "Canceled"

\* select! polls in any order; the first timer to end warns, whatever its result, and then
\* the inner future is awaited alone.
with_timeout_warning ==
  \/ wrapper = "with_timeout_warning" /\ InnerFirst
  \/ /\ wrapper = "with_timeout_warning" /\ kernel = "done" /\ warned = 0
     /\ warned' = 1 /\ UNCHANGED <<future, inner, result, kernel>>

LastPoll ==
  /\ future = "pending"
  /\ PollReady \/ timeout_at \/ with_timeout_warning
  /\ UNCHANGED <<now, virtual, request, timespec, submitted>>

\* RingFuture::drop: a request in the kernel is cancelled, and waited for if it
\* may point into the caller's memory.
DropFuture ==
  /\ \/ future \in {"created", "ended"} /\ future' = "gone"
     \/ /\ future = "pending"
        /\ future' = IF kernel = "running" /\ pending_io_with_borrowed_resources(op) THEN "dropping" ELSE "gone"
     \/ future = "dropping" /\ kernel = "done" /\ future' = "gone"
  /\ UNCHANGED <<now, virtual, request, timespec, submitted, kernel, result, inner, warned>>

Next ==
  \/ Tick \/ FirstPoll \/ KernelCompletes \/ KernelEnds \/ InnerReady \/ Cancel \/ LastPoll
  \/ DropFuture
  \/ \E o \in Table, d \in (0 .. MaxTime) \cup {None}, w \in {None, "timeout_at", "with_timeout_warning"} :
       Create(o, d, w)

\* Time passes, the kernel's timers fire and cancels are answered, woken tasks are polled.
Fairness == WF_vars(Tick) /\ WF_vars(KernelEnds) /\ WF_vars(LastPoll) /\ WF_vars(FirstPoll)
Spec == Init /\ [][Next]_vars /\ Fairness
-----------------------------------------------------------------------------
TypeOK ==
  /\ now \in 0 .. 2 * MaxTime /\ virtual \in (0 .. MaxTime) \cup {None}
  /\ op \in Table \cup {None} /\ kernel \in {"idle", "running", "done"}
  /\ future \in {"none", "created", "pending", "ended", "dropping", "gone"}
  /\ inner \in {"none", "waiting", "ready", "taken", "dropped"} /\ warned \in 0 .. 1

\* The kernel holds a pointer into the caller's memory only while the future that
\* borrows it exists, for each operation of the table: whatever it borrows, its
\* drop waits.
BorrowsEnd == kernel = "running" /\ op.borrows # {} => future \in {"pending", "dropping"}

\* No deadline fires early: a request that ran into its timeout, a sleep that
\* ended and timeout_at's Timeout all come at or after the deadline on the real
\* clock, however long after its creation the future was first polled.
NeverEarly ==
  virtual = None /\ deadline # None =>
    /\ result \in {"TIME", "TIMEDOUT", "Timeout"} => now >= deadline
    /\ op = sleep /\ wrapper = None /\ result = "Ok" => now >= deadline

WaitsForDeadline == future = "pending" /\ deadline # None /\ wrapper # "with_timeout_warning"

\* A deadline does fire: a future that was given one and is not dropped ends,
\* even if the kernel would never complete the request.
DeadlineEnds == []<>~WaitsForDeadline
=============================================================================
