---------------------------- MODULE AsyncOneshot ----------------------------
(***************************************************************************)
(* The oneshot channel (kimojio/src/async_oneshot.rs).  send and recv      *)
(* consume their handle, and dropping a handle closes the channel, so each *)
(* of them ends with close.                                                *)
(***************************************************************************)
EXTENDS WaitList

CONSTANT Receiver  \* the recv future

VARIABLES
    value,      \* a value is in the channel
    closed,
    has_value,  \* the AsyncEvent
    sender,     \* "alive"; "sent" or "refused" by send; "dropped"
    receiver,   \* "idle"; "waiting" in recv; "gone", with its handle
    woken,      \* the waiting receiver was woken since it was last polled
    got,        \* history: values received
    told        \* history: a receive has returned Closed

vars == <<value, closed, has_value, sender, receiver, woken, got, told>>

Init ==
    /\ value = FALSE
    /\ closed = FALSE
    /\ has_value = with_state(FALSE)
    /\ sender = "alive"
    /\ receiver = "idle"
    /\ woken = FALSE
    /\ got = 0
    /\ told = FALSE

\* A handle is dropped.
close ==
    /\ closed' = TRUE
    /\ has_value' = set(has_value)
    /\ woken' = (receiver' = "waiting" /\ (woken \/ NotifiedAll(has_value) # {}))

send ==
    /\ sender = "alive"
    /\ value' = (value \/ ~closed)
    /\ sender' = IF closed THEN "refused" ELSE "sent"
    /\ UNCHANGED <<receiver, got, told>>
    /\ close

drop_sender ==
    /\ sender = "alive"
    /\ sender' = "dropped"
    /\ UNCHANGED <<value, receiver, got, told>>
    /\ close

\* Mutant: the value is read, not taken.
result_Keeps ==
    /\ value \/ closed
    /\ got' = IF value THEN got + 1 ELSE got
    /\ told' = (told \/ ~value)
    /\ UNCHANGED value

\* Mutant: closed is looked at before the value.
result_ClosedFirst ==
    /\ value \/ closed
    /\ got' = IF ~closed THEN got + 1 ELSE got
    /\ told' = (told \/ closed)
    /\ value' = (value /\ closed)

\* try_recv with a result, the value or Closed.
result ==
    /\ value \/ closed
    /\ got' = IF value THEN got + 1 ELSE got
    /\ told' = (told \/ ~value)
    /\ value' = FALSE

\* Without a result try_recv changes nothing.
try_recv ==
    /\ receiver = "idle"
    /\ result
    /\ UNCHANGED <<closed, has_value, sender, receiver, woken>>

\* The handle goes when recv ends, whatever it returns.
gone == receiver' = "gone" /\ close /\ UNCHANGED sender

wait ==
    /\ ~has_value.state
    /\ has_value' = register(has_value, Receiver)
    /\ receiver' = "waiting"
    /\ woken' = FALSE
    /\ UNCHANGED <<value, closed, sender, got, told>>

recv ==
    /\ receiver = "idle"
    /\ \/ result /\ gone
       \/ ~value /\ ~closed /\ wait

Poll ==
    /\ receiver = "waiting"
    /\ \/ has_value.state /\ result /\ gone
       \/ wait

\* recv_with_deadline: the sleep won the select.  A set event still counts as
\* success.
deadline ==
    /\ receiver = "waiting"
    /\ \/ has_value.state /\ result
       \/ ~has_value.state /\ UNCHANGED <<value, got, told>>
    /\ gone

\* recv is dropped, cancelled or aborted; there is no other waiter to notify.
cancel ==
    /\ receiver = "waiting"
    /\ gone
    /\ UNCHANGED <<value, got, told>>

drop_receiver ==
    /\ receiver = "idle"
    /\ gone
    /\ UNCHANGED <<value, got, told>>

Next ==
    \/ send \/ drop_sender \/ try_recv \/ recv
    \/ Poll \/ deadline \/ cancel \/ drop_receiver

Spec == Init /\ [][Next]_vars

\* The scheduler polls the task when it has been woken.
Fairness == WF_vars(woken /\ Poll)

FairSpec == Spec /\ Fairness

-----------------------------------------------------------------------------
TypeOK ==
    /\ value \in BOOLEAN /\ closed \in BOOLEAN /\ told \in BOOLEAN
    /\ has_value \in Events({Receiver})
    /\ sender \in {"alive", "sent", "refused", "dropped"}
    /\ receiver \in {"idle", "waiting", "gone"}
    /\ woken \in BOOLEAN
    /\ got \in 0..1

\* A value that send has accepted is received at most once, and stays in the
\* channel until it is; Closed is reported only when there is none to come.
SentOnce ==
    /\ sender = "sent" <=> got = 1 \/ value
    /\ ~(value /\ got = 1)
    /\ told => ~value /\ sender # "alive"

\* The event is never reset, so it is set only when the loop of recv ends: a
\* receiver never spins.
SetMeansResult == has_value.state => value \/ closed

\* A send that was accepted while recv waits, and a dropped sender, end recv.
RecvEnds == []<>(sender # "alive" => receiver # "waiting")
=============================================================================
