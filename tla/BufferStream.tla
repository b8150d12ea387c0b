---------------------------- MODULE BufferStream ----------------------------
(* The in-memory stream (buffer_pipe.rs): a ring buffer with two events.     *)
(* Its lock is never held across an await, so that a poll which finds its    *)
(* event set runs to the end of the loop or to the next wait.  The events    *)
(* are their flags: that a wait on a set event is polled is AsyncEvent's     *)
(* SignalIsSeen.                                                             *)
EXTENDS Integers, Sequences, FiniteSetsExt, SequencesExt

CONSTANTS
    Readers,
    Capacity,  \* of the buffer (1024 in the code)
    Sizes,     \* of reads and writes
    MaxBytes   \* bound: bytes written; they are numbered 1, 2, ...

VARIABLES
    buffer, head, amount,  \* BufferStreamState; the byte at offset i is buffer[i + 1]
    available, not_full, closed,
    reader,    \* per reader: [call |-> "idle", "try_read" or "read", left |-> bytes to read]
    writer,    \* bytes left of the write that waits; <<>> if none does
    accepted,  \* history: the number of the last byte put into the buffer
    received   \* history: the bytes taken out of it

vars == <<buffer, head, amount, available, not_full, closed, reader, writer, accepted, received>>

Idle == [call |-> "idle", left |-> 0]

Init ==
    /\ buffer = [i \in 1..Capacity |-> 0] /\ head = 0 /\ amount = 0
    /\ available = FALSE /\ not_full = TRUE /\ closed = FALSE
    /\ reader = [r \in Readers |-> Idle] /\ writer = <<>>
    /\ accepted = 0 /\ received = <<>>

\* Mutant: the event that the buffer has room is left alone.
update_events_Available(n) == available' = (n > 0) /\ UNCHANGED not_full

update_events(n) == available' = (n > 0) /\ not_full' = (n # Capacity)

\* The bytes of one contiguous piece that a critical section moves: from head, with n
\* bytes in the buffer; and to the free room.
readable(from, n, len) == Min({Min({from + n, Capacity}) - from, len})

\* Mutant: the bytes in the buffer are not skipped.
free_head_Head(from, n) == from

free_head(from, n) == (from + n) % Capacity

\* Mutant: a write goes up to the end of the buffer, into what is not yet read.
writable_ToEnd(from, n, len) == Min({len, Capacity - free_head(from, n)})

writable(from, n, len) ==
    Min({len, Min({free_head(from, n) + Capacity - n, Capacity}) - free_head(from, n)})

Piece(from, n) == SubSeq(buffer, from + 1, from + n)
Overwrite(b, at, bytes) == SubSeq(b, 1, at) \o bytes \o SubSeq(b, at + Len(bytes) + 1, Capacity)

\* A read goes on with the event set.  try_read takes one piece, which may be empty;
\* read goes on while the event is set, that is with one more piece where the ring
\* wraps, and ends with EPIPE if the first piece is empty.
Proceed(r, call, left) ==
    \E n1 \in {readable(head, amount, left)} :
    \E n2 \in {IF call = "try_read" THEN 0
               ELSE readable((head + n1) % Capacity, amount - n1, left - n1)} :
        /\ head' = (head + n1 + n2) % Capacity /\ amount' = amount - n1 - n2
        /\ update_events(amount - n1 - n2)
        /\ received' = received \o Piece(head, n1) \o Piece((head + n1) % Capacity, n2)
        /\ reader' = [reader EXCEPT ![r] =
                         IF call = "try_read" \/ n1 + n2 \in {0, left} THEN Idle
                         ELSE [call |-> call, left |-> left - n1 - n2]]
        /\ UNCHANGED buffer

\* try_read and read: EPIPE at once, a first poll that succeeds, or a wait.
StartRead(r, call, n) ==
    /\ reader[r] = Idle
    /\ \/ closed /\ ~available
          /\ UNCHANGED <<buffer, head, amount, available, not_full, reader, received>>
       \/ available /\ Proceed(r, call, n)
       \/ /\ ~closed /\ ~available
          /\ reader' = [reader EXCEPT ![r] = [call |-> call, left |-> n]]
          /\ UNCHANGED <<buffer, head, amount, available, not_full, received>>
    /\ UNCHANGED <<closed, writer, accepted>>

PollRead(r) ==
    /\ reader[r] # Idle /\ available
    /\ Proceed(r, reader[r].call, reader[r].left)
    /\ UNCHANGED <<closed, writer, accepted>>

\* The future is dropped, or the deadline of a read has passed: try_read waits
\* for the event without its deadline.
EndRead(r) ==
    /\ reader[r] # Idle
    /\ reader' = [reader EXCEPT ![r] = Idle]
    /\ UNCHANGED <<buffer, head, amount, available, not_full, closed, writer, accepted, received>>

\* A write goes on with the event set; after a close the event is set although the
\* buffer may be full, and nothing is written.
Put(bytes) ==
    \E n1 \in {writable(head, amount, Len(bytes))} :
    \E n2 \in {writable(head, amount + n1, Len(bytes) - n1)} :
        /\ buffer' = Overwrite(Overwrite(buffer, free_head(head, amount), SubSeq(bytes, 1, n1)),
                               free_head(head, amount + n1), SubSeq(bytes, n1 + 1, n1 + n2))
        /\ amount' = amount + n1 + n2 /\ UNCHANGED head
        /\ update_events(amount + n1 + n2)
        /\ writer' = SubSeq(bytes, n1 + n2 + 1, Len(bytes))
        /\ accepted' = accepted + n1 + n2

\* write: EPIPE if the stream is closed, and then no more checks of it.
write(n) ==
    /\ writer = <<>> /\ ~closed /\ accepted + n <= MaxBytes
    /\ LET bytes == [i \in 1..n |-> accepted + i] IN
       IF not_full THEN Put(bytes)
       ELSE writer' = bytes /\ UNCHANGED <<buffer, head, amount, available, not_full, accepted>>
    /\ UNCHANGED <<closed, reader, received>>

PollWrite ==
    /\ writer # <<>> /\ not_full
    /\ Put(writer)
    /\ UNCHANGED <<closed, reader, received>>

\* The deadline has passed, or the future is dropped.
EndWrite ==
    /\ writer # <<>>
    /\ writer' = <<>>
    /\ UNCHANGED <<buffer, head, amount, available, not_full, closed, reader, accepted, received>>

\* shutdown and close, of either half.
close ==
    /\ closed' = TRUE /\ available' = TRUE /\ not_full' = TRUE
    /\ UNCHANGED <<buffer, head, amount, reader, writer, accepted, received>>

Next == \/ \E r \in Readers : PollRead(r) \/ EndRead(r)
        \/ \E r \in Readers, call \in {"try_read", "read"}, n \in Sizes : StartRead(r, call, n)
        \/ \E n \in Sizes : write(n)
        \/ PollWrite \/ EndWrite \/ close

\* A task whose event is set is polled.
Fairness == WF_vars(PollWrite) /\ \A r \in Readers : WF_vars(PollRead(r))

Spec == Init /\ [][Next]_vars /\ Fairness

-----------------------------------------------------------------------------

TypeOK ==
    /\ head \in 0..Capacity - 1 /\ amount \in 0..Capacity
    /\ available \in BOOLEAN /\ not_full \in BOOLEAN /\ closed \in BOOLEAN
    /\ received \in Seq(1..MaxBytes)

\* What was taken out and what is in the ring are the bytes put in, in order:
\* nothing is lost, doubled or overwritten where the ring wraps or a read ends
\* early.
BytesInOrder ==
    received \o [i \in 1..amount |-> buffer[1 + ((head + i - 1) % Capacity)]]
        = [i \in 1..accepted |-> i]

\* The events are a cache of the amount: a waiter for bytes or for room sleeps
\* only while there is none.
EventsAgree ==
    /\ amount > 0 => available
    /\ amount < Capacity => not_full
    /\ ~closed => (available <=> amount > 0) /\ (not_full <=> amount < Capacity)

ReadWaits(r) == closed /\ reader[r].call = "try_read"
WriteWaits == writer # <<>> /\ amount < Capacity

\* A reader that waits in try_read when the stream is closed learns of it, and a
\* writer goes on while there is room.  Not so a read that is closed in the middle
\* (ReadEnds fails) nor a writer of a full buffer that is closed: both wait for ever.
WaitsEnd == []<>~WriteWaits /\ \A r \in Readers : []<>~ReadWaits(r)

\* read "Repeatedly reads until the buffer is full or an error occurs"
\* (async_stream.rs): a reader ends when the stream is closed.
ReadEnds == \A r \in Readers : closed /\ reader[r] # Idle ~> reader[r] = Idle
=============================================================================
