----------------------------- MODULE AsyncEvent -----------------------------
(***************************************************************************)
(* AsyncEvent (kimojio/src/async_event.rs) under every order of set, reset *)
(* and limited sets with waiters that are polled, woken or not, dropped,   *)
(* cancelled by an io_scope, and aborted.                                  *)
(***************************************************************************)
EXTENDS WaitList

CONSTANTS
    Waiters,  \* wait futures
    ForReset, \* the ones made by wait_reset
    Counts    \* what set_wake_n is called with; {} if it is not called

VARIABLES
    event,    \* state and waiting_tasks
    pending,  \* futures that have returned Pending
    canceled, \* WaitData::canceled
    woken     \* futures whose task was woken since they were last polled

vars == <<event, pending, canceled, woken>>

expected_state(w) == w \notin ForReset
is_complete(w) == event.state = expected_state(w)

Init ==
    /\ event \in {with_state(b) : b \in BOOLEAN}
    /\ pending = {}
    /\ canceled = {}
    /\ woken = {}

\* Mutant: set wakes one waiter only.
Set_WakeOne ==
    /\ event' = set_wake_n(event, 1)
    /\ woken' = woken \cup (Notified(event, 1) \cap pending)
    /\ UNCHANGED <<pending, canceled>>

\* Mutant: the list entry is taken for the waiter.
Set_WakeData ==
    /\ event' = set(event)
    /\ woken' = woken \cup Range(event.waiting_tasks)
    /\ UNCHANGED <<pending, canceled>>

Set ==
    /\ event' = set(event)
    /\ woken' = woken \cup (NotifiedAll(event) \cap pending)
    /\ UNCHANGED <<pending, canceled>>

SetWakeN(n) ==
    /\ event' = set_wake_n(event, n)
    /\ woken' = woken \cup (Notified(event, n) \cap pending)
    /\ UNCHANGED <<pending, canceled>>

Reset ==
    /\ event' = reset(event)
    /\ woken' = woken \cup (NotifiedAll(event) \cap pending)
    /\ UNCHANGED <<pending, canceled>>

-----------------------------------------------------------------------------
(* WaitFuture::poll.  The runtime may poll a future that was not woken.    *)

PollCanceled(w) ==
    /\ w \in pending \cap canceled
    /\ event' = unregister_canceled_wait(event, w, expected_state(w))
    /\ woken' = (woken \cup (NotifiedByCancel(event, w, expected_state(w))
                             \cap pending)) \ {w}
    /\ pending' = pending \ {w}
    /\ canceled' = canceled \ {w}

PollAborted(w) ==
    /\ w \notin canceled
    /\ event' = wake_all(event)
    /\ woken' = (woken \cup (NotifiedAll(event) \cap pending)) \ {w}
    /\ pending' = pending \ {w}
    /\ UNCHANGED canceled

PollReady(w) ==
    /\ w \notin canceled
    /\ is_complete(w)
    /\ event' = returned(event, w)
    /\ woken' = woken \ {w}
    /\ pending' = pending \ {w}
    /\ UNCHANGED canceled

\* Mutant: a future that is polled again does not register again.
PollPending_Once(w) ==
    /\ w \notin canceled
    /\ ~is_complete(w)
    /\ event' = IF w \in pending THEN event ELSE register(event, w)
    /\ woken' = woken \ {w}
    /\ pending' = pending \cup {w}
    /\ UNCHANGED canceled

PollPending(w) ==
    /\ w \notin canceled
    /\ ~is_complete(w)
    /\ event' = register(event, w)
    /\ woken' = woken \ {w}
    /\ pending' = pending \cup {w}
    /\ UNCHANGED canceled

Poll(w) == PollCanceled(w) \/ PollReady(w) \/ PollPending(w)

\* Mutant: the notification the wait has received is lost with it.
Drop_KeepsNotification(w) ==
    /\ w \in pending
    /\ event' = unregister(event, w)
    /\ woken' = woken \ {w}
    /\ pending' = pending \ {w}
    /\ canceled' = canceled \ {w}

\* Drop of a pending WaitFuture, for example a lost select branch.
Drop(w) ==
    /\ w \in pending
    /\ event' = unregister_canceled_wait(event, w, expected_state(w))
    /\ woken' = (woken \cup (NotifiedByCancel(event, w, expected_state(w))
                             \cap pending)) \ {w}
    /\ pending' = pending \ {w}
    /\ canceled' = canceled \ {w}

\* wait_with_deadline: the sleep won the select and the wait is dropped; the
\* call then returns success if the event is set and a timeout if not.
Deadline(w) == expected_state(w) /\ Drop(w)

\* An io_scope cancels the waits registered in it.
CancelWait(w) ==
    /\ w \in pending
    /\ canceled' = canceled \cup {w}
    /\ woken' = woken \cup {w}
    /\ UNCHANGED <<event, pending>>

Next ==
    \/ Set \/ Reset
    \/ \E n \in Counts : SetWakeN(n)
    \/ \E w \in Waiters :
          PollCanceled(w) \/ PollAborted(w) \/ PollReady(w) \/ PollPending(w)
             \/ Drop(w) \/ Deadline(w) \/ CancelWait(w)

Spec == Init /\ [][Next]_vars

\* The scheduler polls a task that has been woken.
Fairness == \A w \in Waiters : WF_vars(w \in woken /\ Poll(w))

FairSpec == Spec /\ Fairness

-----------------------------------------------------------------------------
TypeOK ==
    /\ event \in Events(Waiters)
    /\ pending \in SUBSET Waiters
    /\ canceled \in SUBSET Waiters
    /\ woken \in SUBSET Waiters

\* A suspended wait is never forgotten: it is in the wait list, where the next
\* set or reset finds it, or its task has been woken.
NobodyForgotten == \A w \in pending : w \in woken \/ is_linked(event, w)

\* WaitData is linked at most once and only while its future waits: unregister
\* removes the one entry (the SAFETY comment on cursor_mut_from_ptr).
LinkedOnce ==
    /\ \A w \in Waiters : is_linked(event, w) => w \in pending
    /\ \A i, j \in DOMAIN event.waiting_tasks :
          event.waiting_tasks[i][2] /\ event.waiting_tasks[i] = event.waiting_tasks[j]
             => i = j

\* Stale entries exist only while the event is set: reset discards them, so a
\* later set_wake_one cannot spend its notification on a finished wait.
StaleOnlyWhileSet ==
    ~event.state => \A i \in DOMAIN event.waiting_tasks : event.waiting_tasks[i][2]

\* With set and reset alone, a wait whose condition holds has been woken.
NoMissedSignal ==
    Counts = {} => \A w \in pending : is_complete(w) => w \in woken

\* wait: "A canceled waiter passes an available notification to other waiters."
\* A wait for the set state that ends without success while the event is set
\* leaves no other such wait asleep.
PassesNotification ==
    [][\A w \in pending \ pending' :
          event.state /\ expected_state(w) /\ ~PollReady(w) =>
             \A v \in pending' : expected_state(v) => v \in woken']_vars

\* A wait whose condition stays true returns: it does not depend on a second
\* set, nor on what other waiters do.
SignalIsSeen == \A w \in Waiters : []<>~(w \in pending /\ is_complete(w))
=============================================================================
