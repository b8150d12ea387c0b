------------------------------ MODULE WaitList ------------------------------
(***************************************************************************)
(* AsyncEvent and its WaitList (kimojio/src/async_event.rs) as values: an  *)
(* event is its flag and the intrusive list of its waiters.  An operator   *)
(* returns the event after a call; Notified says whom the call wakes.      *)
(*                                                                         *)
(* A list entry is the WaitData of one wait future.  It is live until the  *)
(* future returns Ready; a future that finds its condition true without    *)
(* having been woken returns and leaves its entry in the list, stale.      *)
(***************************************************************************)
EXTENDS Integers, Sequences, Functions

live(w) == <<w, TRUE>>
stale(w) == <<w, FALSE>>

Entries(Waiters) == Waiters \X BOOLEAN
Events(Waiters) == [state : BOOLEAN, waiting_tasks : Seq(Entries(Waiters))]

with_state(b) == [state |-> b, waiting_tasks |-> <<>>]

any_waiting(e) == e.waiting_tasks # <<>>
is_linked(e, w) == live(w) \in Range(e.waiting_tasks)

\* The waiters the first n entries wake.
Notified(e, n) == {e.waiting_tasks[i][1] : i \in {j \in DOMAIN e.waiting_tasks : j <= n}}
NotifiedAll(e) == Notified(e, Len(e.waiting_tasks))

after_n(e, n) == SubSeq(e.waiting_tasks, n + 1, Len(e.waiting_tasks))
wake_n(e, n) == [state |-> e.state, waiting_tasks |-> after_n(e, n)]
wake_all(e) == [state |-> e.state, waiting_tasks |-> <<>>]

set(e) == [state |-> TRUE, waiting_tasks |-> <<>>]
set_wake_n(e, n) == [state |-> TRUE, waiting_tasks |-> after_n(e, n)]

\* Mutant: reset touches only the flag.
reset_FlagOnly(e) == [e EXCEPT !.state = FALSE]

\* reset wakes every waiter too: the ones for the set state wait again.
reset(e) == [state |-> FALSE, waiting_tasks |-> <<>>]

register(e, w) ==
    IF is_linked(e, w) THEN e
    ELSE [e EXCEPT !.waiting_tasks = Append(@, live(w))]

unregister(e, w) ==
    IF ~is_linked(e, w) THEN e
    ELSE LET cursor == CHOOSE i \in DOMAIN e.waiting_tasks : e.waiting_tasks[i] = live(w)
         IN  [e EXCEPT !.waiting_tasks =
                 SubSeq(@, 1, cursor - 1) \o SubSeq(@, cursor + 1, Len(@))]

\* WaitFuture::poll returned Ready: an entry still in the list goes stale.
returned(e, w) ==
    [e EXCEPT !.waiting_tasks =
        [i \in DOMAIN @ |-> IF @[i] = live(w) THEN stale(w) ELSE @[i]]]

\* Dropping or cancelling a wait passes an available notification on.
unregister_canceled_wait(e, w, expected_state) ==
    IF e.state = expected_state THEN wake_all(unregister(e, w))
    ELSE unregister(e, w)
NotifiedByCancel(e, w, expected_state) ==
    IF e.state = expected_state THEN NotifiedAll(unregister(e, w)) ELSE {}
=============================================================================
