---------------------------- MODULE AsyncChannel ----------------------------
(***************************************************************************)
(* The one-slot channel (kimojio/src/async_channel.rs).  Senders that find *)
(* the slot full and receivers that find it empty wait in one WaitList;    *)
(* each call that changes the slot wakes all of them.                      *)
(***************************************************************************)
EXTENDS WaitList, FiniteSets, TLC

CONSTANTS
    Senders, Receivers,  \* send and recv futures
    MaxSends,            \* bound: calls of send and try_send
    MaxSenders           \* bound: clone is called below this count only

VARIABLES
    value,         \* <<>>, or the one message in the slot
    closed,
    waiters,       \* the WaitList; the flag of the event is not used
    sender_count,
    receiver,      \* Receiver has not been dropped
    sending,       \* message of each suspended send
    waiting,       \* receivers suspended in recv
    woken,         \* suspended futures woken since they were last polled
    calls,         \* history: messages made so far; they are 1..calls
    sent,          \* history: messages accepted
    received,      \* history: messages returned
    refused        \* history: messages handed back or dropped by a send

channel == <<value, closed, waiters>>
history == <<calls, sent, received, refused>>
vars == <<channel, sender_count, receiver, sending, waiting, woken, history>>

SenderWaits(t) == t \in DOMAIN sending
Waiting == DOMAIN sending \cup waiting
Without(f, t) == Restrict(f, DOMAIN f \ {t})

Init ==
    /\ value = <<>>
    /\ closed = FALSE
    /\ waiters = with_state(FALSE)
    /\ sender_count = 1
    /\ receiver = TRUE
    /\ sending = <<>>
    /\ waiting = {}
    /\ woken = {}
    /\ calls = 0
    /\ sent = <<>> /\ received = <<>> /\ refused = {}

\* ChannelSendSource and ChannelRecvSource::is_complete.
SendComplete == closed \/ value = <<>>
RecvComplete == closed \/ value # <<>>
is_complete(t) == IF t \in Senders THEN SendComplete ELSE RecvComplete

\* Mutant: only one of those that wait is woken.
wake_OneOnly(e, t) ==
    /\ waiters' = wake_n(e, 1)
    /\ woken' = (woken \cup (Notified(e, 1) \cap Waiting)) \ {t}

\* t's call ends with wake_all; e is the list at that point.
wake(e, t) ==
    /\ waiters' = wake_all(e)
    /\ woken' = (woken \cup (NotifiedAll(e) \cap Waiting)) \ {t}

\* The end of a poll that wakes nobody.
quiet(e, t) ==
    /\ waiters' = e
    /\ woken' = woken \ {t}

-----------------------------------------------------------------------------
(* Sending.  e is the list at the start of try_send.                       *)

\* try_send succeeds.
accept(t, m, e) ==
    /\ ~closed /\ value = <<>>
    /\ value' = <<m>>
    /\ sent' = Append(sent, m)
    /\ sending' = Without(sending, t)
    /\ wake(e, t)
    /\ UNCHANGED <<closed, waiting, received, refused>>

\* Mutant: the message is handed back and kept.
refuse_KeepsSending(t, m) ==
    /\ refused' = refused \cup {m}
    /\ UNCHANGED <<value, closed, sending, waiting, sent, received>>

\* The call ends with an error that holds the message.
refuse(t, m) ==
    /\ refused' = refused \cup {m}
    /\ sending' = Without(sending, t)
    /\ UNCHANGED <<value, closed, waiting, sent, received>>

\* The slot is full: send waits with its message.
hold(t, m) ==
    /\ ~SendComplete
    /\ sending' = (t :> m) @@ sending
    /\ quiet(register(waiters, t), t)
    /\ UNCHANGED <<value, closed, waiting, sent, received, refused>>

send(t) ==
    /\ sender_count > 0 /\ calls < MaxSends /\ ~SenderWaits(t)
    /\ calls' = calls + 1
    /\ \/ accept(t, calls', waiters)
       \/ closed /\ refuse(t, calls') /\ quiet(waiters, t)
       \/ hold(t, calls')
    /\ UNCHANGED <<sender_count, receiver>>

try_send(t) ==
    /\ sender_count > 0 /\ calls < MaxSends /\ ~SenderWaits(t)
    /\ calls' = calls + 1
    /\ \/ accept(t, calls', waiters)
       \/ (closed \/ value # <<>>) /\ refuse(t, calls') /\ quiet(waiters, t)
    /\ UNCHANGED <<sender_count, receiver>>

PollSend(t) ==
    /\ SenderWaits(t)
    /\ \/ SendComplete /\ accept(t, sending[t], returned(waiters, t))
       \/ /\ SendComplete /\ closed
          /\ refuse(t, sending[t]) /\ quiet(returned(waiters, t), t)
       \/ hold(t, sending[t])
    /\ UNCHANGED <<sender_count, receiver, calls>>

-----------------------------------------------------------------------------
(* Receiving.                                                              *)

\* try_recv returns the message.
take(t, e) ==
    /\ value # <<>>
    /\ value' = <<>>
    /\ received' = received \o value
    /\ waiting' = waiting \ {t}
    /\ wake(e, t)
    /\ UNCHANGED <<closed, sending, calls, sent, refused>>

\* try_recv returns Err(Closed).
end(t, e) ==
    /\ value = <<>> /\ closed
    /\ waiting' = waiting \ {t}
    /\ quiet(e, t)
    /\ UNCHANGED <<value, closed, sending, history>>

\* Mutant: a receiver that is polled again does not register again.
await_Once(t) ==
    /\ ~RecvComplete
    /\ waiting' = waiting \cup {t}
    /\ quiet(IF t \in waiting THEN waiters ELSE register(waiters, t), t)
    /\ UNCHANGED <<value, closed, sending, history>>

\* The slot is empty: recv waits.
await(t) ==
    /\ ~RecvComplete
    /\ waiting' = waiting \cup {t}
    /\ quiet(register(waiters, t), t)
    /\ UNCHANGED <<value, closed, sending, history>>

recv(t) ==
    /\ receiver /\ t \notin waiting
    /\ take(t, waiters) \/ end(t, waiters) \/ await(t)
    /\ UNCHANGED <<sender_count, receiver>>

\* Without a message try_recv changes nothing.
try_recv(t) ==
    /\ receiver /\ t \notin waiting
    /\ take(t, waiters)
    /\ UNCHANGED <<sender_count, receiver>>

PollRecv(t) ==
    /\ t \in waiting
    /\ \/ take(t, returned(waiters, t))
       \/ end(t, returned(waiters, t))
       \/ await(t)
    /\ UNCHANGED <<sender_count, receiver>>

Poll(t) == PollSend(t) \/ PollRecv(t)

-----------------------------------------------------------------------------
\* The future is dropped or its wait cancelled; a send hands its message back
\* or drops it.
Leave(t) ==
    \/ SenderWaits(t) /\ refuse(t, sending[t]) /\ UNCHANGED calls
    \/ /\ t \in waiting
       /\ waiting' = waiting \ {t}
       /\ UNCHANGED <<value, closed, sending, history>>

cancel(t) ==
    /\ Leave(t)
    /\ IF is_complete(t) THEN wake(unregister(waiters, t), t)
                         ELSE quiet(unregister(waiters, t), t)
    /\ UNCHANGED <<sender_count, receiver>>

\* The task is aborted while it waits.
abort(t) ==
    /\ Leave(t)
    /\ wake(waiters, t)
    /\ UNCHANGED <<sender_count, receiver>>

close ==
    /\ closed' = TRUE
    /\ waiters' = wake_all(waiters)
    /\ woken' = woken \cup (NotifiedAll(waiters) \cap Waiting)
    /\ UNCHANGED <<value, sending, waiting, history>>

clone_sender ==
    /\ sender_count \in 1..(MaxSenders - 1)
    /\ sender_count' = sender_count + 1
    /\ UNCHANGED <<channel, receiver, sending, waiting, woken, history>>

\* A suspended send borrows a sender, so the last one has none.
drop_sender ==
    /\ sender_count > (IF sending = <<>> THEN 0 ELSE 1)
    /\ sender_count' = sender_count - 1
    /\ IF sender_count' = 0 THEN close
       ELSE UNCHANGED <<channel, sending, waiting, woken, history>>
    /\ UNCHANGED receiver

drop_receiver ==
    /\ receiver /\ waiting = {}
    /\ receiver' = FALSE
    /\ close
    /\ UNCHANGED sender_count

Next ==
    \/ clone_sender \/ drop_sender \/ drop_receiver
    \/ \E t \in Senders : send(t) \/ try_send(t) \/ PollSend(t)
    \/ \E t \in Receivers : recv(t) \/ try_recv(t) \/ PollRecv(t)
    \/ \E t \in Senders \cup Receivers : cancel(t) \/ abort(t)

Spec == Init /\ [][Next]_vars

\* The scheduler polls a task that has been woken.
Fairness == \A t \in Senders \cup Receivers : WF_vars(t \in woken /\ Poll(t))

FairSpec == Spec /\ Fairness

-----------------------------------------------------------------------------
TypeOK ==
    /\ value \in {<<>>} \cup {<<m>> : m \in 1..calls}
    /\ closed \in BOOLEAN /\ receiver \in BOOLEAN
    /\ waiters \in Events(Senders \cup Receivers)
    /\ sender_count \in 0..MaxSenders
    /\ DOMAIN sending \subseteq Senders /\ Range(sending) \subseteq 1..calls
    /\ waiting \in SUBSET Receivers
    /\ woken \in SUBSET Waiting
    /\ calls \in 0..MaxSends
    /\ sent \in Seq(1..calls) /\ received \in Seq(1..calls)
    /\ refused \in SUBSET (1..calls)

\* A message is in one place: with a suspended send, handed back, or accepted;
\* accepted messages come out once and in the order they went in.
OneOwner ==
    /\ sent = received \o value
    /\ IsInjective(sent) /\ IsInjective(sending)
    /\ Range(sending) \cup refused \cup Range(sent) = 1..calls
    /\ \A m \in refused : m \notin Range(sent) \cup Range(sending)
    /\ Range(sending) \cap Range(sent) = {}

\* A future that could go on has been woken, and one that could not is in the
\* wait list: no wake-up is lost between the two sides that share the list.
NobodyForgotten ==
    \A t \in Waiting :
       t \in woken \/ (~is_complete(t) /\ is_linked(waiters, t))

\* An empty slot is filled while senders wait, a full one emptied while
\* receivers wait.
SlotMoves ==
    /\ []<>(value # <<>> \/ sending = <<>>)
    /\ []<>(value = <<>> \/ waiting = {})
=============================================================================
