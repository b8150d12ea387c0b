---------------------------- MODULE MessagePipe ----------------------------
(* One direction of an in-process pipe that carries pointers to boxes        *)
(* (message_pipe.rs, pointer_buffer.rs).  A box that is sent becomes eight   *)
(* bytes; whoever turns them back into a Box owns it.  MessagePipe sends a   *)
(* plain array of bytes, IdMessagePipe an IdPointerMsg, which frees its box  *)
(* when it is dropped.  The kernel's part of a write and of a read is a step *)
(* of its own: a future may be dropped before and after it.                  *)
EXTENDS Integers, Sequences, SequencesExt

CONSTANTS Boxes, Senders, Receivers, None

VARIABLES
    id_pipe,    \* IdMessagePipe instead of MessagePipe
    box,        \* per box: "caller", "raw" (a pointer somewhere), "owned" (received), "freed"
    pipe,       \* the pointers in the socket
    sending,    \* per sender: its write in flight, [box, state]
    receiving,  \* per receiver: its read in flight, [box, state]
    sender_open, receiver_open,
    excused,    \* history: boxes whose future was dropped, or that were in a closed pipe
    abandoned   \* history: an IdMessagePipe send was dropped after its write

vars == <<id_pipe, box, pipe, sending, receiving, sender_open, receiver_open, excused, abandoned>>

Idle == [box |-> None, state |-> "idle"]

Init == /\ id_pipe \in BOOLEAN
        /\ box = [b \in Boxes |-> "caller"] /\ pipe = <<>>
        /\ sending = [s \in Senders |-> Idle] /\ receiving = [r \in Receivers |-> Idle]
        /\ sender_open = TRUE /\ receiver_open = TRUE
        /\ excused = {} /\ abandoned = FALSE

Send(s, b, st) == sending' = [sending EXCEPT ![s] = [box |-> b, state |-> st]]
Recv(r, b, st) == receiving' = [receiving EXCEPT ![r] = [box |-> b, state |-> st]]
ends == <<sender_open, receiver_open>>

\* Box::into_raw, and a Box made of the bytes again.
pointer_to_buffer(b) == box' = [box EXCEPT ![b] = "raw"]
pointer_from_buffer(b, owner) == box' = [box EXCEPT ![b] = owner]

\* IdPointerMsg: made of an identifier and a box, taken apart by the receiver; dropped as it
\* is, it frees the box.
from_id_box(b) == pointer_to_buffer(b)
into_id_box(b) == pointer_from_buffer(b, "owned")
IdPointerMsg_drop(b) == pointer_from_buffer(b, "freed")

send_message(s, b) ==
    /\ sender_open /\ sending[s] = Idle /\ box[b] = "caller"
    /\ IF id_pipe THEN from_id_box(b) ELSE pointer_to_buffer(b)
    /\ Send(s, b, "queued")
    /\ UNCHANGED <<id_pipe, pipe, receiving, ends, excused, abandoned>>

\* The kernel copies the bytes, or finds the other end closed.
KernelWrite(s) ==
    /\ sending[s].state = "queued"
    /\ Send(s, sending[s].box, IF receiver_open THEN "written" ELSE "failed")
    /\ pipe' = IF receiver_open THEN Append(pipe, sending[s].box) ELSE pipe
    /\ UNCHANGED <<id_pipe, box, receiving, ends, excused, abandoned>>

\* The write is cancelled or fails for another reason.
KernelWriteFails(s) ==
    /\ sending[s].state = "queued"
    /\ Send(s, sending[s].box, "failed")
    /\ UNCHANGED <<id_pipe, box, pipe, receiving, ends, excused, abandoned>>

\* Mutant: the error path forgets the bytes.
SendReturns_Forgets(s) ==
    /\ sending[s].state \in {"written", "failed"}
    /\ Send(s, None, "idle")
    /\ UNCHANGED <<id_pipe, box, pipe, receiving, ends, excused, abandoned>>

\* Mutant: the box is reconstituted after a write that succeeded, too.
SendReturns_Always(s) ==
    /\ sending[s].state \in {"written", "failed"}
    /\ pointer_from_buffer(sending[s].box, "freed")
    /\ Send(s, None, "idle")
    /\ UNCHANGED <<id_pipe, pipe, receiving, ends, excused, abandoned>>

\* send_message returns: after a failure the box is made again and freed, after a
\* success the bytes are forgotten.
SendReturns(s) ==
    /\ ~id_pipe /\ sending[s].state \in {"written", "failed"}
    /\ IF sending[s].state = "failed" THEN pointer_from_buffer(sending[s].box, "freed")
       ELSE UNCHANGED box
    /\ Send(s, None, "idle")
    /\ UNCHANGED <<id_pipe, pipe, receiving, ends, excused, abandoned>>

\* IdMessagePipe: mem::forget after a success, or the drop of the message.
id_send_message(s) ==
    /\ id_pipe /\ sending[s].state \in {"written", "failed"}
    /\ IF sending[s].state = "failed" THEN IdPointerMsg_drop(sending[s].box) ELSE UNCHANGED box
    /\ Send(s, None, "idle")
    /\ UNCHANGED <<id_pipe, pipe, receiving, ends, excused, abandoned>>

\* The future of send_message is dropped; a write in flight is cancelled and waited
\* for, so that it has or has not taken place.  The bytes of a MessagePipe are
\* just gone; an IdPointerMsg frees its box.
DropSend(s) ==
    /\ sending[s] # Idle
    /\ IF id_pipe THEN IdPointerMsg_drop(sending[s].box) ELSE UNCHANGED box
    /\ excused' = IF sending[s].state = "written" THEN excused ELSE excused \cup {sending[s].box}
    /\ abandoned' = (abandoned \/ (id_pipe /\ sending[s].state = "written"))
    /\ Send(s, None, "idle")
    /\ UNCHANGED <<id_pipe, pipe, receiving, ends>>

send_message_sync(b) ==
    /\ ~id_pipe /\ sender_open /\ box[b] = "caller"
    /\ \/ receiver_open /\ pipe' = Append(pipe, b) /\ pointer_to_buffer(b)
       \/ UNCHANGED pipe /\ pointer_from_buffer(b, "freed")
    /\ UNCHANGED <<id_pipe, sending, receiving, ends, excused, abandoned>>

id_send_message_sync(b) ==
    /\ id_pipe /\ sender_open /\ box[b] = "caller"
    /\ \/ receiver_open /\ pipe' = Append(pipe, b) /\ from_id_box(b)
       \/ UNCHANGED pipe /\ IdPointerMsg_drop(b)
    /\ UNCHANGED <<id_pipe, sending, receiving, ends, excused, abandoned>>

-----------------------------------------------------------------------------

\* recv_message and recv_message_with_timeout start their read.
recv_message(r) ==
    /\ receiver_open /\ receiving[r] = Idle
    /\ Recv(r, None, "waiting")
    /\ UNCHANGED <<id_pipe, box, pipe, sending, ends, excused, abandoned>>

\* The kernel moves a pointer into the buffer of the read, or reports the end.
KernelRead(r) ==
    /\ receiving[r].state = "waiting"
    /\ \/ pipe # <<>> /\ pipe' = Tail(pipe) /\ Recv(r, Head(pipe), "read")
       \/ pipe = <<>> /\ ~sender_open /\ UNCHANGED pipe /\ Recv(r, None, "ended")
    /\ UNCHANGED <<id_pipe, box, sending, ends, excused, abandoned>>

\* The timeout, or a cancellation, ends the read.
KernelReadFails(r) ==
    /\ receiving[r].state = "waiting"
    /\ Recv(r, None, "ended")
    /\ UNCHANGED <<id_pipe, box, pipe, sending, ends, excused, abandoned>>

\* RecvMessageFuture::poll: a box, or an error.
RecvReturns(r) ==
    /\ ~id_pipe /\ receiving[r].state \in {"read", "ended"}
    /\ IF receiving[r].state = "read" THEN pointer_from_buffer(receiving[r].box, "owned")
       ELSE UNCHANGED box
    /\ Recv(r, None, "idle")
    /\ UNCHANGED <<id_pipe, pipe, sending, ends, excused, abandoned>>

id_recv_message(r) ==
    /\ id_pipe /\ receiving[r].state \in {"read", "ended"}
    /\ IF receiving[r].state = "read" THEN into_id_box(receiving[r].box) ELSE UNCHANGED box
    /\ Recv(r, None, "idle")
    /\ UNCHANGED <<id_pipe, pipe, sending, ends, excused, abandoned>>

\* The future is dropped.  IdMessagePipe reads into the future itself, so that the
\* drop waits for the kernel; the buffer of RecvMessageFuture belongs to the
\* completion, and its read may still take a message.
DropRecv(r) ==
    /\ receiving[r] # Idle /\ receiving[r].state # "orphan"
    /\ IF receiving[r].state = "read"
       THEN Recv(r, None, "idle") /\ excused' = excused \cup {receiving[r].box}
       ELSE /\ Recv(r, None, IF receiving[r].state = "waiting" /\ ~id_pipe
                             THEN "orphan" ELSE "idle")
            /\ UNCHANGED excused
    /\ UNCHANGED <<id_pipe, box, pipe, sending, ends, abandoned>>

OrphanEnds(r) ==
    /\ receiving[r].state = "orphan"
    /\ \/ UNCHANGED <<pipe, excused>>
       \/ pipe # <<>> /\ pipe' = Tail(pipe) /\ excused' = excused \cup {Head(pipe)}
    /\ Recv(r, None, "idle")
    /\ UNCHANGED <<id_pipe, box, sending, ends, abandoned>>

recv_message_sync ==
    /\ ~id_pipe /\ receiver_open
    /\ pipe # <<>> /\ pipe' = Tail(pipe) /\ pointer_from_buffer(Head(pipe), "owned")
    /\ UNCHANGED <<id_pipe, sending, receiving, ends, excused, abandoned>>

id_recv_message_sync ==
    /\ id_pipe /\ receiver_open
    /\ pipe # <<>> /\ pipe' = Tail(pipe) /\ into_id_box(Head(pipe))
    /\ UNCHANGED <<id_pipe, sending, receiving, ends, excused, abandoned>>

\* The ends are closed with their descriptors; no call borrows them any more.
CloseSender ==
    /\ sender_open /\ \A s \in Senders : sending[s] = Idle
    /\ sender_open' = FALSE
    /\ UNCHANGED <<id_pipe, box, pipe, sending, receiving, receiver_open, excused, abandoned>>

CloseReceiver ==
    /\ receiver_open /\ \A r \in Receivers : receiving[r].state \in {"idle", "orphan"}
    /\ receiver_open' = FALSE
    /\ pipe' = <<>> /\ excused' = excused \cup ToSet(pipe)
    /\ UNCHANGED <<id_pipe, box, sending, receiving, sender_open, abandoned>>

Next ==
    \/ \E s \in Senders, b \in Boxes : send_message(s, b)
    \/ \E s \in Senders : KernelWrite(s) \/ KernelWriteFails(s) \/ SendReturns(s)
                         \/ id_send_message(s) \/ DropSend(s)
    \/ \E b \in Boxes : send_message_sync(b) \/ id_send_message_sync(b)
    \/ \E r \in Receivers : \/ recv_message(r) \/ KernelRead(r) \/ KernelReadFails(r)
                            \/ RecvReturns(r) \/ id_recv_message(r) \/ DropRecv(r) \/ OrphanEnds(r)
    \/ recv_message_sync \/ id_recv_message_sync \/ CloseSender \/ CloseReceiver

Spec == Init /\ [][Next]_vars

-----------------------------------------------------------------------------

TypeOK ==
    /\ box \in [Boxes -> {"caller", "raw", "owned", "freed"}] /\ pipe \in Seq(Boxes)
    /\ \A s \in Senders : sending[s].state \in {"idle", "queued", "written", "failed"}
    /\ \A r \in Receivers : receiving[r].state \in {"idle", "waiting", "read", "ended", "orphan"}

\* The places from which a pointer to b will be made a box again.
Places(b) == {<<"send", s>> : s \in {x \in Senders : /\ sending[x].box = b
                                                    /\ sending[x].state # "written"}}
             \cup {<<"pipe", i>> : i \in {x \in DOMAIN pipe : pipe[x] = b}}
             \cup {<<"recv", r>> : r \in {x \in Receivers : receiving[x].box = b}}

\* "A given buffer must never be turned back into a pointer more than once"
\* (pointer_buffer.rs): a pointer that is still to be made a box has one place,
\* and its box is neither freed nor owned by somebody else.
NeverTwice ==
    \A b \in Boxes : /\ \A p, q \in Places(b) : p = q
                     /\ Places(b) # {} => box[b] = "raw"

\* The same, but for an IdMessagePipe whose send was dropped between its write and
\* its return.  And "to avoid leaks it must be turned back into a pointer exactly
\* one time": a box is lost only with a dropped future or a closed pipe.
OwnedOnce ==
    /\ ~abandoned => NeverTwice
    /\ \A b \in Boxes : box[b] = "raw" /\ Places(b) = {} => b \in excused
=============================================================================
