---------------------------- MODULE VirtualClock ----------------------------
(***************************************************************************)
(* The virtual clock (kimojio/src/virtual_clock.rs), the sleeps on it, the *)
(* calls that drive it (operations.rs) and the part of the runtime's loop  *)
(* that advances it when the runtime is idle (runtime.rs).                 *)
(*                                                                         *)
(* An iteration of the loop takes the woken tasks as its cohort, runs each *)
(* of them, and then, if nobody was woken meanwhile, asks the callback.    *)
(* While a task runs it may make any of the calls, and poll any sleep with *)
(* its own waker: a sleep can move from one task to another.  A task with  *)
(* several sleeps in a select or join counts as one task for each.         *)
(***************************************************************************)
EXTENDS Integers, FiniteSets, FiniteSetsExt

CONSTANTS
    Sleeps,      \* VirtualSleepFutures; a finished one is made anew
    Tasks,
    Durations,   \* of sleeps and advances
    MaxTime,     \* bound: latest instant
    MaxTimers,   \* bound: timer ids of one clock
    MaxClocks    \* bound: clocks enabled, one after another

VARIABLES
    enabled, clock,  \* TaskState::clock
    sleeps,
    ready,           \* tasks woken since the cohort was taken
    cohort,          \* tasks this iteration has still to run
    waiting,         \* the loop is about to enter the kernel
    idle_advance_active,
    clocks           \* history: clocks made so far

runtime == <<ready, cohort, waiting, idle_advance_active>>
vars == <<enabled, clock, sleeps, runtime, clocks>>

Fns == {"next", "step", "stop"}  \* to the next timer; by 1; not at all

\* VirtualClockState::new
New(start) ==
    [current |-> start, timers |-> {}, next_timer_id |-> 1, idle_advance_fn |-> "none"]

\* A VirtualSleepFuture; timer_id 0 is None.  task is the task that polled it
\* last and clock, for the properties only, the clock it has its timer from.
Sleep == [at : {"none", "new", "pending"}, deadline : 0..MaxTime, timer_id : 0..MaxTimers,
          cached_waker : Tasks, task : Tasks, yielded_once : BOOLEAN, clock : 0..MaxClocks]

Gone == [at |-> "none", deadline |-> 0, timer_id |-> 0, yielded_once |-> FALSE, clock |-> 0,
         cached_waker |-> CHOOSE t \in Tasks : TRUE, task |-> CHOOSE t \in Tasks : TRUE]

Init ==
    /\ enabled = FALSE /\ clock = New(0) /\ clocks = 0
    /\ sleeps = [f \in Sleeps |-> Gone]
    /\ ready = Tasks /\ cohort = {} /\ waiting = TRUE
    /\ idle_advance_active = TRUE

-----------------------------------------------------------------------------
(* VirtualClockState.                                                      *)

\* Mutant: a timer at the new time is kept.
advance_to_Strict(c, target) ==
    LET now == Max({c.current, target}) IN
    [c EXCEPT !.current = now, !.timers = {t \in @ : t.deadline >= now}]

\* The wakers of the timers that are gone are woken by the caller.
advance_to(c, target) ==
    LET now == Max({c.current, target}) IN
    [c EXCEPT !.current = now, !.timers = {t \in @ : t.deadline > now}]

Expired(c, d) == {t.waker : t \in c.timers \ d.timers}

next_deadline(c) == Min({t.deadline : t \in c.timers})

\* Mutant: cancelling leaves the timer in the heap.
cancel_timer_Keeps(c, id) == c

cancel_timer(c, id) == [c EXCEPT !.timers = {t \in @ : t.id # id}]

register_timer(c, deadline, waker) ==
    [c EXCEPT !.timers = @ \cup {[id |-> c.next_timer_id, deadline |-> deadline, waker |-> waker]},
              !.next_timer_id = @ + 1]

-----------------------------------------------------------------------------
(* Calls a running task may make.                                          *)

Running == ~waiting /\ cohort # {}

virtual_clock_enable ==
    /\ Running /\ ~enabled /\ clocks < MaxClocks
    /\ enabled' = TRUE
    /\ clock' = New(0)
    /\ clocks' = clocks + 1
    /\ UNCHANGED <<sleeps, runtime>>

virtual_clock_disable ==
    /\ Running /\ enabled
    /\ enabled' = FALSE
    /\ clock' = New(0)
    /\ UNCHANGED <<sleeps, runtime, clocks>>

virtual_clock_advance(d) ==
    /\ Running /\ enabled /\ clock.current + d <= MaxTime
    /\ clock' = advance_to(clock, clock.current + d)
    /\ ready' = ready \cup Expired(clock, clock')
    /\ UNCHANGED <<enabled, sleeps, cohort, waiting, idle_advance_active, clocks>>

\* virtual_clock_set_idle_advance, and _clear_idle_advance with "none".
set_idle_advance(fn) ==
    /\ Running /\ enabled
    /\ clock' = [clock EXCEPT !.idle_advance_fn = fn]
    /\ UNCHANGED <<enabled, sleeps, runtime, clocks>>

\* sleep and sleep_until with the clock active.
sleep(f, d) ==
    /\ Running /\ enabled
    /\ sleeps[f].at = "none" /\ clock.current + d <= MaxTime
    /\ sleeps' = [sleeps EXCEPT ![f].at = "new", ![f].deadline = clock.current + d,
                                ![f].clock = clocks]
    /\ UNCHANGED <<enabled, clock, runtime, clocks>>

\* Drop and cancel of a sleep that has not completed.
drop(f) ==
    /\ Running /\ sleeps[f].at # "none"
    /\ sleeps' = [sleeps EXCEPT ![f] = Gone]
    /\ clock' = IF enabled /\ sleeps[f].timer_id # 0
                THEN cancel_timer(clock, sleeps[f].timer_id) ELSE clock
    /\ UNCHANGED <<enabled, runtime, clocks>>

-----------------------------------------------------------------------------
(* VirtualSleepFuture::poll, by task t.                                    *)

\* The deadline has passed: the first poll to see it only yields.
PollExpired(f, t) ==
    /\ enabled /\ clock.current >= sleeps[f].deadline
    /\ IF sleeps[f].yielded_once
       THEN /\ sleeps' = [sleeps EXCEPT ![f] = Gone]
            /\ ready' = ready
       ELSE /\ sleeps' = [sleeps EXCEPT ![f].yielded_once = TRUE,
                                        ![f].at = "pending", ![f].task = t]
            /\ ready' = ready \cup {t}
    /\ UNCHANGED clock

\* Mutant: the timer keeps the waker it was registered with.
needs_register_Once(f, t) == sleeps[f].timer_id = 0

needs_register(f, t) == sleeps[f].timer_id = 0 \/ sleeps[f].cached_waker # t

PollPending(f, t) ==
    /\ enabled /\ clock.current < sleeps[f].deadline
    /\ IF needs_register(f, t)
       THEN /\ clock.next_timer_id <= MaxTimers
            /\ clock' = register_timer(cancel_timer(clock, sleeps[f].timer_id),
                                       sleeps[f].deadline, t)
            /\ sleeps' = [sleeps EXCEPT ![f].timer_id = clock.next_timer_id,
                             ![f].cached_waker = t, ![f].at = "pending", ![f].task = t,
                             ![f].clock = clocks]
       ELSE /\ sleeps' = [sleeps EXCEPT ![f].at = "pending", ![f].task = t]
            /\ UNCHANGED clock
    /\ UNCHANGED ready

\* "virtual clock not active": the panic drops the future.
PollPanics(f, t) ==
    /\ ~enabled
    /\ sleeps' = [sleeps EXCEPT ![f] = Gone]
    /\ UNCHANGED <<clock, ready>>

poll(f, t) ==
    /\ sleeps[f].at # "none"
    /\ PollExpired(f, t) \/ PollPending(f, t) \/ PollPanics(f, t)
    /\ UNCHANGED <<enabled, waiting, clocks>>

SleepOf(t) == {f \in Sleeps : sleeps[f].at = "pending" /\ sleeps[f].task = t}

\* The running task polls a sleep it has just made, or that moved to it.
Poll(f, t) ==
    /\ Running /\ t \in cohort /\ SleepOf(t) \subseteq {f}
    /\ poll(f, t)
    /\ UNCHANGED <<cohort, idle_advance_active>>

\* poll_task: t polls the sleep it waits for, and its turn ends.
Run(t) ==
    /\ Running /\ t \in cohort
    /\ cohort' = cohort \ {t}
    /\ idle_advance_active' = TRUE
    /\ \/ \E f \in SleepOf(t) : poll(f, t)
       \/ SleepOf(t) = {} /\ UNCHANGED <<enabled, clock, sleeps, ready, waiting, clocks>>

-----------------------------------------------------------------------------
(* The loop of Runtime::block_on.                                          *)

\* submit_and_complete_io_all waits for an I/O completion.
Blocks ==
    ready = {} /\ ~(enabled /\ idle_advance_active /\ clock.idle_advance_fn # "none")

\* I/O completes for some tasks, and the cohort is taken.
Submit ==
    /\ waiting
    /\ \E io \in SUBSET Tasks :
          /\ Blocks => io # {}
          /\ cohort' = ready \cup io
    /\ ready' = {}
    /\ waiting' = FALSE
    /\ UNCHANGED <<enabled, clock, sleeps, idle_advance_active, clocks>>

IsIdle == ~waiting /\ cohort = {} /\ ready = {}
AsksCallback == enabled /\ idle_advance_active /\ clock.idle_advance_fn # "none"

\* The end of an iteration in which the callback is not called.
EndIteration ==
    /\ ~waiting /\ cohort = {}
    /\ ~(IsIdle /\ AsksCallback)
    /\ waiting' = TRUE
    /\ UNCHANGED <<enabled, clock, sleeps, ready, cohort, idle_advance_active, clocks>>

\* What the callback returns; 0 stands for None and for Duration::ZERO.
Answer ==
    CASE clock.idle_advance_fn = "next" /\ clock.timers # {} ->
            next_deadline(clock) - clock.current
      [] clock.idle_advance_fn = "step" /\ clock.current < MaxTime -> 1
      [] OTHER -> 0

\* Mutant: a callback installed by the callback is not asked.
Advance_NotRearmed(c, was_replaced) ==
    /\ IsIdle /\ AsksCallback
    /\ clock' = IF Answer > 0 THEN advance_to(c, c.current + Answer) ELSE c
    /\ ready' = Expired(c, clock')
    /\ idle_advance_active' = (Answer > 0)
    /\ waiting' = TRUE
    /\ UNCHANGED <<sleeps, cohort>>

\* The callback has answered; c is the clock it leaves, with the callback put
\* back unless it installed or cleared one itself.
Advance(c, was_replaced) ==
    /\ IsIdle /\ AsksCallback
    /\ clock' = IF Answer > 0 THEN advance_to(c, c.current + Answer) ELSE c
    /\ ready' = Expired(c, clock')
    /\ idle_advance_active' = (Answer > 0 \/ was_replaced)
    /\ waiting' = TRUE
    /\ UNCHANGED <<sleeps, cohort>>

IdleAdvance == Advance(clock, FALSE) /\ UNCHANGED <<enabled, clocks>>

IdleReplaces(fn) ==
    /\ Advance([clock EXCEPT !.idle_advance_fn = fn], TRUE)
    /\ UNCHANGED <<enabled, clocks>>

\* The callback disables the clock: it is dropped with it.
IdleDisables ==
    /\ IsIdle /\ AsksCallback
    /\ enabled' = FALSE
    /\ clock' = New(0)
    /\ idle_advance_active' = (Answer > 0)
    /\ waiting' = TRUE
    /\ UNCHANGED <<sleeps, ready, cohort, clocks>>

Next ==
    \/ virtual_clock_enable \/ virtual_clock_disable
    \/ \E d \in Durations : virtual_clock_advance(d)
    \/ \E fn \in Fns \cup {"none"} : set_idle_advance(fn)
    \/ \E f \in Sleeps :
          drop(f) \/ (\E d \in Durations : sleep(f, d)) \/ (\E t \in Tasks : Poll(f, t))
    \/ \E t \in Tasks : Run(t)
    \/ Submit \/ EndIteration \/ IdleAdvance \/ IdleDisables
    \/ \E fn \in Fns \cup {"none"} : IdleReplaces(fn)

Spec == Init /\ [][Next]_vars

\* The loop runs and polls the tasks of its cohort.
Fairness ==
    /\ \A t \in Tasks : WF_vars(Run(t))
    /\ WF_vars(~Blocks /\ Submit) /\ WF_vars(EndIteration) /\ WF_vars(IdleAdvance)

FairSpec == Spec /\ Fairness

-----------------------------------------------------------------------------
Timer == [id : 1..MaxTimers, deadline : 0..MaxTime, waker : Tasks]

TypeOK ==
    /\ enabled \in BOOLEAN
    /\ clock \in [current : 0..MaxTime, timers : SUBSET Timer,
                  next_timer_id : 1..(MaxTimers + 1), idle_advance_fn : Fns \cup {"none"}]
    /\ sleeps \in [Sleeps -> Sleep]
    /\ ready \in SUBSET Tasks /\ cohort \in SUBSET Tasks
    /\ waiting \in BOOLEAN /\ idle_advance_active \in BOOLEAN
    /\ clocks \in 0..MaxClocks

\* Every timer in the heap is still to come and is the timer of one pending
\* sleep: completing a sleep may just forget its timer_id ("if advance() fired
\* this timer, it's already removed from the heap"), and no timer outlives
\* its sleep.
TimersAreOwned ==
    \A t \in clock.timers :
       /\ t.deadline > clock.current
       /\ \E f \in Sleeps : sleeps[f].at = "pending" /\ sleeps[f].timer_id = t.id
                               /\ sleeps[f].deadline = t.deadline

\* A pending sleep will be polled when its time comes: its timer is in the
\* heap with the waker of the task that waits now, or that task is already
\* woken.  Sleeps that are left over from a clock that was disabled are not
\* meant.
SleepIsArmed ==
    \A f \in Sleeps :
       LET s == sleeps[f] IN
       enabled /\ s.at = "pending" /\ s.clock = clocks =>
          \/ s.task \in ready \cup cohort
          \/ \E t \in clock.timers :
                t.id = s.timer_id /\ t.deadline = s.deadline /\ t.waker = s.task

\* With a callback that goes to the next timer the runtime never blocks while
\* a timer is pending.
NextIsAsked ==
    waiting /\ enabled /\ clock.idle_advance_fn = "next" /\ clock.timers # {} => ~Blocks

SleepWaits(f) == sleeps[f].at = "pending" /\ enabled /\ clock.idle_advance_fn = "next"

\* "Sleeps resolve automatically": as long as such a callback is installed, no
\* sleep stays pending.
SleepEnds == \A f \in Sleeps : []<>~SleepWaits(f)
=============================================================================
