----------------------- MODULE AsyncChannelUnbounded -----------------------
(***************************************************************************)
(* The unbounded channel (kimojio/src/async_channel.rs): a queue, a closed *)
(* flag and an AsyncEvent.  Senders are counted; the receiver is not Clone *)
(* but recv takes &self, so several tasks may wait in it at once.          *)
(***************************************************************************)
EXTENDS WaitList

CONSTANTS
    Tasks,       \* recv futures; a task receives again and again
    Messages,
    MaxSends,    \* bound: messages accepted by the channel
    MaxSenders   \* bound: clone is called below this count only

VARIABLES
    items, closed,  \* ChannelQueue
    has_items,      \* the AsyncEvent
    sender_count,
    receiver,       \* ReceiverUnbounded has not been dropped
    waiting,        \* tasks suspended in recv
    woken,          \* waiting tasks woken since they were last polled
    sent,           \* history: messages accepted
    received,       \* history: messages returned
    ended           \* history: a receive has returned Closed

channel == <<items, closed, has_items>>
history == <<sent, received, ended>>
vars == <<channel, sender_count, receiver, waiting, woken, history>>

Init ==
    /\ items = <<>>
    /\ closed = FALSE
    /\ has_items = with_state(FALSE)
    /\ sender_count = 1
    /\ receiver = TRUE
    /\ waiting = {}
    /\ woken = {}
    /\ sent = <<>>
    /\ received = <<>>
    /\ ended = FALSE

\* Mutant: one receiver is woken.
send_WakeOne(m) ==
    /\ sender_count > 0 /\ Len(sent) < MaxSends
    /\ ~closed
    /\ items' = Append(items, m)
    /\ sent' = Append(sent, m)
    /\ has_items' = set_wake_n(has_items, 1)
    /\ woken' = woken \cup (Notified(has_items, 1) \cap waiting)
    /\ UNCHANGED <<closed, sender_count, receiver, waiting, received, ended>>

\* A closed channel returns the message and changes nothing.
send(m) ==
    /\ sender_count > 0 /\ Len(sent) < MaxSends
    /\ ~closed
    /\ items' = Append(items, m)
    /\ sent' = Append(sent, m)
    /\ has_items' = set(has_items)
    /\ woken' = woken \cup (NotifiedAll(has_items) \cap waiting)
    /\ UNCHANGED <<closed, sender_count, receiver, waiting, received, ended>>

\* Mutant: a closed channel is empty.
pop_front_ClosedFirst ==
    /\ items # <<>> \/ closed
    /\ items' = IF closed THEN items ELSE Tail(items)
    /\ received' = IF closed THEN received ELSE Append(received, Head(items))
    /\ ended' = (ended \/ closed)
    /\ UNCHANGED <<closed, sent>>

\* pop_front with a result: the first message, or Closed if there is none.
pop_front ==
    /\ items # <<>> \/ closed
    /\ items' = IF items # <<>> THEN Tail(items) ELSE items
    /\ received' = IF items # <<>> THEN Append(received, Head(items)) ELSE received
    /\ ended' = (ended \/ items = <<>>)
    /\ UNCHANGED <<closed, sent>>

\* pop_front without one; it resets the event, from the value e.
empty(e) ==
    /\ items = <<>> /\ ~closed
    /\ has_items' = reset(e)
    /\ UNCHANGED <<items, closed, history>>

try_recv ==
    /\ receiver
    /\ \/ pop_front /\ UNCHANGED <<has_items, woken>>
       \/ empty(has_items) /\ woken' = woken \cup (NotifiedAll(has_items) \cap waiting)
    /\ UNCHANGED <<sender_count, receiver, waiting>>

\* The loop of recv from pop_front on, until it returns or waits; e is the
\* event so far and W whom the poll has woken before.
loop(t, e, W) ==
    \/ /\ pop_front
       /\ has_items' = e
       /\ waiting' = waiting \ {t}
       /\ woken' = (woken \cup (W \cap waiting)) \ {t}
    \/ /\ items = <<>> /\ ~closed
       /\ has_items' = register(reset(e), t)
       /\ waiting' = waiting \cup {t}
       /\ woken' = (woken \cup ((W \cup NotifiedAll(e)) \cap waiting)) \ {t}
       /\ UNCHANGED <<items, closed, history>>

recv(t) ==
    /\ receiver /\ t \notin waiting
    /\ loop(t, has_items, {})
    /\ UNCHANGED <<sender_count, receiver>>

Poll(t) ==
    /\ t \in waiting
    /\ \/ has_items.state /\ loop(t, returned(has_items, t), {})
       \/ /\ ~has_items.state
          /\ has_items' = register(has_items, t)
          /\ woken' = woken \ {t}
          /\ UNCHANGED <<items, closed, waiting, history>>
    /\ UNCHANGED <<sender_count, receiver>>

\* The waiting recv is dropped, or its wait is cancelled.
cancel(t) ==
    /\ t \in waiting
    /\ has_items' = unregister_canceled_wait(has_items, t, TRUE)
    /\ waiting' = waiting \ {t}
    /\ woken' = (woken \cup (NotifiedByCancel(has_items, t, TRUE) \cap waiting)) \ {t}
    /\ UNCHANGED <<items, closed, sender_count, receiver, history>>

\* recv_with_deadline: the sleep won the select.  A set event still counts as
\* success; if the queue turns out empty the second wait times out at once.
deadline(t) ==
    LET W == NotifiedByCancel(has_items, t, TRUE)
        e == unregister_canceled_wait(has_items, t, TRUE) IN
    /\ t \in waiting
    /\ \/ has_items.state /\ pop_front /\ has_items' = e
       \/ has_items.state /\ empty(e)
       \/ ~has_items.state /\ has_items' = e /\ UNCHANGED <<items, closed, history>>
    /\ waiting' = waiting \ {t}
    /\ woken' = (woken \cup (W \cap waiting)) \ {t}
    /\ UNCHANGED <<sender_count, receiver>>

\* The task is aborted while it waits.
abort(t) ==
    /\ t \in waiting
    /\ has_items' = wake_all(has_items)
    /\ waiting' = waiting \ {t}
    /\ woken' = (woken \cup (NotifiedAll(has_items) \cap waiting)) \ {t}
    /\ UNCHANGED <<items, closed, sender_count, receiver, history>>

\* Mutant: nobody is told.
close_NoSet ==
    /\ closed' = TRUE
    /\ UNCHANGED <<items, has_items, waiting, woken, history>>

close ==
    /\ closed' = TRUE
    /\ has_items' = set(has_items)
    /\ woken' = woken \cup (NotifiedAll(has_items) \cap waiting)
    /\ UNCHANGED <<items, waiting, history>>

close_sender == sender_count > 0 /\ close /\ UNCHANGED <<sender_count, receiver>>

clone_sender ==
    /\ sender_count \in 1..(MaxSenders - 1)
    /\ sender_count' = sender_count + 1
    /\ UNCHANGED <<channel, receiver, waiting, woken, history>>

\* decrement_sender_count: the last sender closes the channel.
drop_sender ==
    /\ sender_count > 0
    /\ sender_count' = sender_count - 1
    /\ IF sender_count' = 0 THEN close ELSE UNCHANGED <<channel, waiting, woken, history>>
    /\ UNCHANGED receiver

\* Waiting futures borrow the receiver, so it has none when it is dropped.
drop_receiver ==
    /\ receiver /\ waiting = {}
    /\ receiver' = FALSE
    /\ close
    /\ UNCHANGED sender_count

Next ==
    \/ \E m \in Messages : send(m)
    \/ try_recv \/ close_sender \/ clone_sender \/ drop_sender \/ drop_receiver
    \/ \E t \in Tasks : recv(t) \/ Poll(t) \/ cancel(t) \/ deadline(t) \/ abort(t)

Spec == Init /\ [][Next]_vars

\* The scheduler polls a task that has been woken.
Fairness == \A t \in Tasks : WF_vars(t \in woken /\ Poll(t))

FairSpec == Spec /\ Fairness

-----------------------------------------------------------------------------
TypeOK ==
    /\ items \in Seq(Messages) /\ sent \in Seq(Messages) /\ received \in Seq(Messages)
    /\ closed \in BOOLEAN /\ receiver \in BOOLEAN /\ ended \in BOOLEAN
    /\ has_items \in Events(Tasks)
    /\ sender_count \in 0..MaxSenders
    /\ waiting \in SUBSET Tasks
    /\ woken \in SUBSET waiting

\* While there is something to return, a message or Closed, the event is set
\* and every task suspended in recv has been woken.
NoMissedMessage ==
    items # <<>> \/ closed => has_items.state /\ waiting \subseteq woken

\* "The receiver can still receive queued messages after the channel closes":
\* Closed is reported only once every accepted message has been returned, and
\* nothing is accepted or returned afterwards.
ClosedIsFinal == ended => closed /\ received = sent

\* A recv that waits when the last sender or close() is gone returns.
RecvEnds == []<>(closed => waiting = {})
=============================================================================
