--------------------------- MODULE OwnedFdStream ---------------------------
(* A stream on a descriptor (async_stream.rs): buffered reads and direct     *)
(* writes, each a loop of requests to the kernel.  The descriptor is a       *)
(* connected socket; requests end as RingFuture shows: a request in flight   *)
(* may complete before the deadline or the drop that cancels it.             *)
EXTENDS Integers, Sequences, FiniteSetsExt, SequencesExt

CONSTANTS
    BufferSize,  \* of read_buffer (16384 in the code)
    Sizes,       \* of reads and of the slices that are written
    MaxBytes,    \* bound: bytes the peer sends, numbered 1, 2, ...
    MaxWritten   \* bound: bytes written, numbered likewise

VARIABLES
    read_fd, write_fd,  \* the halves' descriptors: "open", "none"
    shut,       \* the socket was shut down
    incoming,   \* bytes the peer has sent and the kernel holds
    peer_sent, peer_open,
    read_buffer,  \* the unread bytes of read_buffer
    reader,     \* [call |-> "idle", "try_read", "read"; want; got; landed]
    delivered,  \* history: bytes of the calls that succeeded
    aligned,    \* history: no call has ended with bytes it had taken
    writer,     \* [slices |-> left to write; "idle", "writing"]
    wire,       \* bytes the kernel has accepted
    started,    \* history: the number of the last byte given to a write
    written,    \* history: bytes of the writes that succeeded
    broken      \* history: a write has failed or was dropped

vars == <<read_fd, write_fd, shut, incoming, peer_sent, peer_open, read_buffer, reader,
          delivered, aligned, writer, wire, started, written, broken>>
read_side == <<incoming, peer_sent, peer_open, read_buffer, reader, delivered, aligned>>
write_side == <<writer, wire, started, written, broken>>

\* `landed` is what the kernel has put into read_buffer behind the back of a pending call.
IdleReader == [call |-> "idle", want |-> 0, got |-> <<>>, landed |-> <<>>]
IdleWriter == [call |-> "idle", slices |-> <<>>, all |-> <<>>]

Init ==
    /\ read_fd = "open" /\ write_fd = "open" /\ shut = FALSE
    /\ incoming = <<>> /\ peer_sent = 0 /\ peer_open = TRUE /\ read_buffer = <<>>
    /\ reader = IdleReader /\ delivered = <<>> /\ aligned = TRUE
    /\ writer = IdleWriter /\ wire = <<>> /\ started = 0 /\ written = <<>> /\ broken = FALSE

PeerSends ==
    /\ peer_open /\ peer_sent < MaxBytes
    /\ incoming' = Append(incoming, peer_sent + 1) /\ peer_sent' = peer_sent + 1
    /\ UNCHANGED <<read_fd, write_fd, shut, peer_open, read_buffer, reader, delivered, aligned,
                   write_side>>

PeerCloses ==
    /\ peer_open /\ peer_open' = FALSE
    /\ UNCHANGED <<read_fd, write_fd, shut, incoming, peer_sent, read_buffer, reader, delivered,
                   aligned, write_side>>

-----------------------------------------------------------------------------
(* Reading.                                                                 *)

\* Copies from the buffer to the caller and ends the call, or asks the kernel.  Mutant:
\* what does not fit into the caller's buffer is dropped.
Copy_Discards(call, want, got, buf) ==
    LET n == Min({want - Len(got), Len(buf)})
        now == got \o SubSeq(buf, 1, n)
    IN  /\ read_buffer' = <<>>
        /\ IF call = "try_read" \/ Len(now) = want
           THEN reader' = IdleReader /\ delivered' = delivered \o now
           ELSE /\ reader' = [call |-> call, want |-> want, got |-> now, landed |-> <<>>]
                /\ UNCHANGED delivered

Copy(call, want, got, buf) ==
    LET n == Min({want - Len(got), Len(buf)})
        now == got \o SubSeq(buf, 1, n)
    IN  /\ read_buffer' = SubSeq(buf, n + 1, Len(buf))
        /\ IF call = "try_read" \/ Len(now) = want
           THEN reader' = IdleReader /\ delivered' = delivered \o now
           ELSE /\ reader' = [call |-> call, want |-> want, got |-> now, landed |-> <<>>]
                /\ UNCHANGED delivered

\* try_read_impl and read_impl, to their first await or to their end.
StartRead(call, n) ==
    /\ reader = IdleReader /\ read_fd = "open"
    /\ IF read_buffer # <<>> THEN Copy(call, n, <<>>, read_buffer)
       ELSE /\ reader' = [call |-> call, want |-> n, got |-> <<>>, landed |-> <<>>]
            /\ UNCHANGED <<read_buffer, delivered>>
    /\ UNCHANGED <<read_fd, write_fd, shut, incoming, peer_sent, peer_open, aligned, write_side>>

\* The kernel fills read_buffer, as far as it has bytes.
KernelRead ==
    /\ reader.call # "idle" /\ reader.landed = <<>> /\ incoming # <<>>
    /\ \E n \in 1..Min({Len(incoming), BufferSize}) :
          /\ reader' = [reader EXCEPT !.landed = SubSeq(incoming, 1, n)]
          /\ incoming' = SubSeq(incoming, n + 1, Len(incoming))
    /\ UNCHANGED <<read_fd, write_fd, shut, peer_sent, peer_open, read_buffer, delivered, aligned,
                   write_side>>

\* The request is complete: read_available is set, and the loop goes on.
PollRead ==
    /\ reader.call # "idle" /\ reader.landed # <<>>
    /\ Copy(reader.call, reader.want, reader.got, reader.landed)
    /\ UNCHANGED <<read_fd, write_fd, shut, incoming, peer_sent, peer_open, aligned, write_side>>

\* The request returns 0: the end for try_read, EPIPE for read.
EndOfStream ==
    /\ reader.call # "idle" /\ reader.landed = <<>>
    /\ incoming = <<>> /\ (~peer_open \/ shut)
    /\ reader' = IdleReader
    /\ aligned' = (aligned /\ reader.got = <<>>)
    /\ UNCHANGED <<read_fd, write_fd, shut, incoming, peer_sent, peer_open, read_buffer,
                   delivered, write_side>>

\* The deadline, an error, or the drop of the future: a request that the kernel has
\* completed is lost with the future, its bytes are in a buffer marked empty.
EndRead ==
    /\ reader.call # "idle"
    /\ reader' = IdleReader
    /\ aligned' = (aligned /\ reader.got = <<>> /\ reader.landed = <<>>)
    /\ UNCHANGED <<read_fd, write_fd, shut, incoming, peer_sent, peer_open, read_buffer,
                   delivered, write_side>>

-----------------------------------------------------------------------------
(* Writing.  A write has one slice; writev has several.                     *)

Bytes(slices) == FlattenSeq(slices)

\* IoSlice::advance_slices, and buffer[amount..].  Mutant: the slice that was written in
\* part is passed over.
advance_slices_Whole(slices, n) ==
    IF n = 0 THEN slices ELSE Tail(slices)

advance_slices(slices, n) ==
    LET done == CHOOSE k \in 0..Len(slices) :
                    /\ Len(Bytes(SubSeq(slices, 1, k))) <= n
                    /\ k = Len(slices) \/ Len(Bytes(SubSeq(slices, 1, k + 1))) > n
        rest == SubSeq(slices, done + 1, Len(slices))
        part == n - Len(Bytes(SubSeq(slices, 1, done)))
    IN  IF part = 0 THEN rest ELSE [rest EXCEPT ![1] = SubSeq(@, part + 1, Len(@))]

Numbered(from, n) == [i \in 1..n |-> from + i]

\* write_impl and writev_impl
StartWrite(n, m) ==
    /\ writer = IdleWriter /\ write_fd = "open"
    /\ started + n + m <= MaxWritten /\ started' = started + n + m
    /\ LET slices == <<Numbered(started, n)>>
                         \o (IF m = 0 THEN <<>> ELSE <<Numbered(started + n, m)>>)
       IN writer' = [call |-> "writing", slices |-> slices, all |-> Bytes(slices)]
    /\ UNCHANGED <<read_fd, write_fd, shut, read_side, wire, written, broken>>

\* One request of the loop: the kernel takes some of the bytes.
WriteSome ==
    /\ writer.call = "writing" /\ ~shut /\ peer_open
    /\ \E n \in 1..Len(Bytes(writer.slices)) :
          LET rest == advance_slices(writer.slices, n) IN
          /\ wire' = wire \o SubSeq(Bytes(writer.slices), 1, n)
          /\ IF rest = <<>>
             THEN writer' = IdleWriter /\ written' = written \o writer.all
             ELSE writer' = [writer EXCEPT !.slices = rest] /\ UNCHANGED written
    /\ UNCHANGED <<read_fd, write_fd, shut, read_side, started, broken>>

\* An error, the deadline, or the drop of the future; the last request may have been
\* accepted all the same.
EndWrite ==
    /\ writer.call = "writing"
    /\ \E n \in 0..Len(Bytes(writer.slices)) : wire' = wire \o SubSeq(Bytes(writer.slices), 1, n)
    /\ writer' = IdleWriter /\ broken' = TRUE
    /\ UNCHANGED <<read_fd, write_fd, shut, read_side, started, written>>

\* shutdown_impl shuts both directions.
shutdown ==
    /\ writer = IdleWriter /\ write_fd = "open"
    /\ shut' = TRUE
    /\ UNCHANGED <<read_fd, write_fd, read_side, write_side>>

\* close_impl, and the drop of the half that reads.
close ==
    \/ /\ writer = IdleWriter /\ write_fd = "open" /\ write_fd' = "none"
       /\ UNCHANGED <<read_fd, shut, read_side, write_side>>
    \/ /\ reader = IdleReader /\ read_fd = "open" /\ read_fd' = "none"
       /\ UNCHANGED <<write_fd, shut, read_side, write_side>>

Next ==
    \/ PeerSends \/ PeerCloses
    \/ \E call \in {"try_read", "read"}, n \in Sizes : StartRead(call, n)
    \/ KernelRead \/ PollRead \/ EndOfStream \/ EndRead
    \/ \E n \in Sizes, m \in Sizes \cup {0} : StartWrite(n, m)
    \/ WriteSome \/ EndWrite \/ shutdown \/ close

Fairness == WF_vars(PollRead) /\ WF_vars(EndOfStream) /\ WF_vars(KernelRead)

Spec == Init /\ [][Next]_vars /\ Fairness

-----------------------------------------------------------------------------

TypeOK ==
    /\ read_fd \in {"open", "none"} /\ write_fd \in {"open", "none"}
    /\ Len(read_buffer) <= BufferSize /\ Len(reader.landed) <= BufferSize
    /\ Len(reader.got) <= reader.want

\* The calls that succeed deliver the peer's bytes in order and without gaps, as
\* long as no call has failed or was dropped with bytes it had taken.  The bytes of
\* the writes that succeed are on the wire in order, each once, with nothing
\* between them but parts of writes that failed.
FdBytesInOrder ==
    /\ aligned => delivered \o reader.got \o read_buffer \o reader.landed \o incoming
                     = Numbered(0, peer_sent)
    /\ ~broken => wire \o Bytes(writer.slices) = written \o writer.all
    /\ SelectSeq(wire, LAMBDA b : b \in ToSet(written)) = written

ReadWaits == reader.call # "idle" /\ ~peer_open

\* A read ends when the peer has closed.
FdReadEnds == []<>~ReadWaits
=============================================================================
