----------------------------- MODULE TlsStream -----------------------------
(* A TLS stream after `split`: a read half and a write half that share one    *)
(* OpenSSL connection, its BIO pair and a pair of locked sockets              *)
(* (kimojio/src/tlsstream.rs, kimojio-tls/src/lib.rs).  `call[h]` is the call  *)
(* in progress on half h; its `pc` is the await it is suspended in, or "ssl"    *)
(* while it runs.  OpenSSL, the kernel and the peer are external.              *)
EXTENDS Integers, Sequences, SequencesExt, FiniteSetsExt

CONSTANTS BioSize,    \* bufsize: units of ciphertext a BIO holds
          Sizes,      \* sizes of the caller's buffers
          MaxRecords, \* bound: data records the peer sends
          MaxCalls,   \* bound: calls made on the halves
          MaxFaults,  \* bound: operations that fail and calls that are dropped
          None

Halves == {"reader", "writer"}
Ops == [reader |-> {"read", "try_read"}, writer |-> {"write", "shutdown", "close"}]

VARIABLES call, calls, faults,    \* the call of each half; calls and faults so far
          read_socket, write_socket, \* SharedSocketPair: [open, owner] of each lock
          inbio, rbuf, outbio, pending, \* the BIO pair, OpenSSL's partial records
          shut, broken, stale,    \* OpenSSL: alerts seen, fatal error, abandoned record
          wire_in, wire_out, peer, \* ciphertext in the sockets; what the peer did
          sent, got, issued, acked, torn \* histories

ssl == <<inbio, rbuf, outbio, pending, shut, broken, stale>>
sockets == <<read_socket, write_socket>>
wires == <<wire_in, wire_out, peer>>
histories == <<sent, got, issued, acked, torn>>
vars == <<call, calls, faults, sockets, ssl, wires, histories>>

IdleCall == [op |-> None, left |-> 0, pc |-> "idle", flush |-> FALSE]
Unit(t, k, i) == [t |-> t, k |-> k, i |-> i]

Init ==
  /\ call = [h \in Halves |-> IdleCall] /\ calls = 0 /\ faults = 0
  /\ read_socket = [open |-> TRUE, owner |-> None]
  /\ write_socket = [open |-> TRUE, owner |-> None]
  /\ inbio = <<>> /\ rbuf = <<>> /\ outbio = <<>> /\ pending = <<>>
  /\ shut = {} /\ broken = FALSE /\ stale = FALSE
  /\ wire_in = <<>> /\ wire_out = <<>> /\ peer = {}
  /\ sent = 0 /\ got = <<>> /\ issued = <<>> /\ acked = 0 /\ torn = FALSE

\* One thread: nobody else runs while a half is between two awaits.
Turn(h) == \A o \in Halves \ {h} : call[o].pc # "ssl"
At(h, pc) == call[h].pc = pc /\ Turn(h)
Goto(h, pc) == call' = [call EXCEPT ![h].pc = pc]
Return(h) == call' = [call EXCEPT ![h] = IdleCall]

-----------------------------------------------------------------------------
\* The user calls a method of a half.  Every method but close starts with a
\* call of OpenSSL; close goes to the socket.
Start(h, op, n) ==
  /\ call[h].pc = "idle" /\ calls < MaxCalls /\ Turn(h)
  /\ n = 0 <=> op \in {"shutdown", "close"}
  /\ calls' = calls + 1
  /\ call' = [call EXCEPT ![h] = [op |-> op, left |-> n, flush |-> FALSE,
                                  pc |-> IF op = "close" THEN "close" ELSE "ssl"]]
  /\ UNCHANGED <<faults, sockets, ssl, wires, histories>>

\* ssl_error_response and the arms that treat all calls alike: an error goes to
\* handle_tls_error, WantRead to try_read, WantWrite to try_write.
Await(resp) == [Fail |-> "error_read", WantRead |-> "lock_read", WantWrite |-> "lock_write"][resp]

Room == BioSize - Len(outbio)
Incoming == rbuf \o inbio

\* OpenSSL looks for the next record in what has arrived; a data record is two
\* units long.  Reading never writes: an alert or a key update that is due waits
\* for the next SSL_write.
Receive ==
  LET resp == IF Incoming = <<>> \/ (Incoming[1].t = "data" /\ Len(Incoming) = 1) THEN "WantRead"
              ELSE [data |-> "Success", close |-> "Eof", bad |-> "Fail"][Incoming[1].t]
      size == [WantRead |-> 0, Success |-> 2, Eof |-> 1, Fail |-> 1][resp]
  IN [resp |-> resp, rest |-> SubSeq(Incoming, size + 1, Len(Incoming)),
      record |-> IF resp = "Success" THEN Incoming[1].k ELSE None]

Received(r) ==
  /\ rbuf' = IF r.resp = "WantRead" THEN r.rest ELSE <<>>
  /\ inbio' = IF r.resp = "WantRead" THEN <<>> ELSE r.rest
  /\ shut' = IF r.resp = "Eof" THEN shut \cup {"received"} ELSE shut

\* try_read_impl and read_impl: SSL_read until the buffer has bytes (is full).
ReadLoop(h) ==
  /\ At(h, "ssl") /\ call[h].op \in Ops["reader"]
  /\ \/ /\ broken /\ Goto(h, "error_read")
        /\ UNCHANGED <<ssl, got>>
     \/ /\ ~broken /\ "received" \in shut   \* Eof: Ok(0), or EPIPE for `read`
        /\ IF call[h].op = "try_read" THEN Return(h) ELSE Goto(h, "close")
        /\ UNCHANGED <<ssl, got>>
     \/ /\ ~broken /\ "received" \notin shut
        /\ \E r \in {Receive} :
             /\ Received(r)
             /\ broken' = (r.resp = "Fail")
             /\ got' = IF r.resp = "Success" THEN Append(got, r.record) ELSE got
             /\ CASE r.resp = "Success" ->
                       IF call[h].op = "try_read" \/ call[h].left = 1 THEN Return(h)
                       ELSE call' = [call EXCEPT ![h].left = @ - 1]
                  [] r.resp = "Eof" ->
                       IF call[h].op = "try_read" THEN Return(h) ELSE Goto(h, "close")
                  [] OTHER -> Goto(h, Await(r.resp))
        /\ UNCHANGED <<outbio, pending, stale>>
  /\ UNCHANGED <<calls, faults, sockets, wires, sent, issued, acked, torn>>

\* write_internal, one SSL_write: a new record, or the rest of the one that did
\* not fit.  Once all is in the BIO, writev_impl and write_impl flush.
WriteLoop(h) ==
  /\ At(h, "ssl") /\ call[h].op = "write"
  /\ \/ /\ broken \/ "sent" \in shut \/ stale
        /\ Goto(h, "error_read")
        /\ UNCHANGED <<ssl, issued>>
     \/ /\ ~broken /\ "sent" \notin shut /\ ~stale
        /\ \E record \in {IF pending # <<>> THEN pending
                          ELSE [i \in 1 .. call[h].left + 1 |-> Unit("data", Len(issued), i)]},
              n \in 0 .. BioSize :
             /\ n = Min({Room, Len(record)})
             /\ issued' = IF pending # <<>> THEN issued ELSE issued \o record
             /\ outbio' = outbio \o SubSeq(record, 1, n)
             /\ pending' = SubSeq(record, n + 1, Len(record))
             /\ call' = [call EXCEPT ![h].pc = "lock_write",
                                     ![h].flush = (Len(record) = n)]
        /\ UNCHANGED <<inbio, rbuf, shut, broken, stale>>
  /\ UNCHANGED <<calls, faults, sockets, wires, sent, got, acked, torn>>

\* shutdown_impl, one SSL_shutdown: send close_notify, then wait for the peer's.
ShutdownLoop(h) ==
  /\ At(h, "ssl") /\ call[h].op = "shutdown"
  /\ \/ /\ broken \/ stale
        /\ Goto(h, "error_read")
        /\ UNCHANGED ssl
     \/ /\ ~broken /\ ~stale /\ "sent" \notin shut
        /\ IF Room = 0 THEN Goto(h, "lock_write") /\ UNCHANGED ssl
           ELSE /\ outbio' = Append(outbio, Unit("close", 0, 0))
                /\ shut' = shut \cup {"sent"}
                /\ IF "received" \in shut THEN Return(h) ELSE Goto(h, "lock_write")
                /\ UNCHANGED <<inbio, rbuf, pending, broken, stale>>
     \/ /\ ~broken /\ shut = {"sent", "received"} /\ Return(h)
        /\ UNCHANGED ssl
     \/ /\ ~broken /\ shut = {"sent"}
        /\ \E r \in {Receive} :
             /\ Received(r)
             /\ broken' = (r.resp \in {"Fail", "Success"})  \* data after close_notify
             /\ IF r.resp = "Eof" THEN Return(h)
                ELSE Goto(h, Await(IF r.resp = "Success" THEN "Fail" ELSE r.resp))
        /\ UNCHANGED <<outbio, pending, stale>>
  /\ UNCHANGED <<calls, faults, sockets, wires, histories>>

-----------------------------------------------------------------------------
\* A failure inside try_read: shutdown_impl takes EPIPE for the end and repeats
\* after any other error; the other calls close their socket.
ReadFails(h, errno) ==
  IF call[h].op # "shutdown" THEN Goto(h, "close")
  ELSE IF errno = "PIPE" THEN Return(h) ELSE Goto(h, "ssl")

\* The leases: the free part of the BIO that TLS reads from, if there is one, and the
\* filled part of the BIO that it writes to.
write_lease == BioSize - Len(inbio)
read_lease(bio) == Len(bio)

\* try_read: lock the read socket and lease the free part of the BIO.
LockRead(h) ==
  /\ At(h, "lock_read") /\ read_socket.owner = None
  /\ IF ~read_socket.open THEN ReadFails(h, "PIPE") /\ UNCHANGED read_socket
     ELSE IF write_lease = 0 THEN Goto(h, "ssl") /\ UNCHANGED read_socket
     ELSE Goto(h, "kernel_read") /\ read_socket' = [read_socket EXCEPT !.owner = h]
  /\ UNCHANGED <<calls, faults, write_socket, ssl, wires, histories>>

\* The kernel's read ends with n units, which are committed; the lock is released.
KernelRead(h, n) ==
  /\ At(h, "kernel_read") /\ n \in 1 .. Min({write_lease, Len(wire_in)})
  /\ inbio' = inbio \o SubSeq(wire_in, 1, n)
  /\ wire_in' = SubSeq(wire_in, n + 1, Len(wire_in))
  /\ read_socket' = [read_socket EXCEPT !.owner = None]
  /\ Goto(h, "ssl")
  /\ UNCHANGED <<calls, faults, write_socket, rbuf, outbio, pending, shut, broken, stale,
                 wire_out, peer, histories>>

\* Mutant: a read of zero bytes is not taken for the end of the stream.
KernelEof_Ignored(h) ==
  /\ At(h, "kernel_read") /\ wire_in = <<>> /\ "closed" \in peer
  /\ read_socket' = [read_socket EXCEPT !.owner = None]
  /\ Goto(h, "ssl")
  /\ UNCHANGED <<calls, faults, write_socket, ssl, wires, histories>>

\* The kernel's read returns 0: EPIPE.
KernelEof(h) ==
  /\ At(h, "kernel_read") /\ wire_in = <<>> /\ "closed" \in peer
  /\ read_socket' = [read_socket EXCEPT !.owner = None]
  /\ ReadFails(h, "PIPE")
  /\ UNCHANGED <<calls, faults, write_socket, ssl, wires, histories>>

\* Mutant: one write per flush, whatever remains in the BIO.
Flushed_Once(h, bio, all) ==
  IF bio # <<>> /\ bio = all THEN Goto(h, "kernel_write") /\ acked' = acked
  ELSE IF call[h].flush THEN Return(h) /\ acked' = Len(issued)
  ELSE Goto(h, "ssl") /\ acked' = acked

\* try_write's loop: with the BIO exhausted, back to the caller's loop, or done.
Flushed(h, bio, all) ==
  IF read_lease(bio) > 0 THEN Goto(h, "kernel_write") /\ acked' = acked
  ELSE IF call[h].flush THEN Return(h) /\ acked' = Len(issued)
  ELSE Goto(h, "ssl") /\ acked' = acked

Holds(h) == /\ write_socket' = [write_socket EXCEPT
                                  !.owner = IF call'[h].pc = "kernel_write" THEN h ELSE None]

\* try_write: lock the write socket.
LockWrite(h) ==
  /\ At(h, "lock_write") /\ write_socket.owner = None
  /\ IF write_socket.open THEN Flushed(h, outbio, outbio) ELSE Goto(h, "close") /\ acked' = acked
  /\ Holds(h)
  /\ UNCHANGED <<calls, faults, read_socket, ssl, wires, sent, got, issued, torn>>

\* The kernel's write ends with n units, which are consumed.
KernelWrite(h, n) ==
  /\ At(h, "kernel_write") /\ n \in 1 .. read_lease(outbio)
  /\ wire_out' = wire_out \o SubSeq(outbio, 1, n)
  /\ outbio' = SubSeq(outbio, n + 1, Len(outbio))
  /\ Flushed(h, outbio', outbio)
  /\ Holds(h)
  /\ UNCHANGED <<calls, faults, read_socket, inbio, rbuf, pending, shut, broken, stale,
                 wire_in, peer, sent, got, issued, torn>>

\* handle_tls_error: both locks, in the order read, write; then the error.
LockBoth(h) ==
  /\ \/ /\ At(h, "error_read") /\ read_socket.owner = None
        /\ read_socket' = [read_socket EXCEPT !.owner = h] /\ Goto(h, "error_write")
     \/ /\ At(h, "error_write") /\ write_socket.owner = None
        /\ read_socket' = [read_socket EXCEPT !.owner = None] /\ Goto(h, "close")
  /\ UNCHANGED <<calls, faults, write_socket, ssl, wires, histories>>

\* close_read_because, close_write_because: take the half's socket and close it.
CloseBecause(h) ==
  /\ At(h, "close")
  /\ \/ /\ h = "reader" /\ read_socket.owner = None
        /\ read_socket' = [read_socket EXCEPT !.open = FALSE] /\ UNCHANGED write_socket
     \/ /\ h = "writer" /\ write_socket.owner = None
        /\ write_socket' = [write_socket EXCEPT !.open = FALSE] /\ UNCHANGED read_socket
  /\ Return(h)
  /\ UNCHANGED <<calls, faults, ssl, wires, histories>>

Unlocked(h, s) == IF s.owner = h THEN [s EXCEPT !.owner = None] ELSE s

\* A lock is cancelled, or a kernel operation fails (deadline, cancellation,
\* reset): the lease is dropped, nothing is committed or consumed.
Fails(h) ==
  /\ Turn(h) /\ faults < MaxFaults /\ faults' = faults + 1
  /\ call[h].pc \in {"lock_read", "kernel_read", "lock_write", "kernel_write", "error_read", "error_write"}
  /\ read_socket' = Unlocked(h, read_socket) /\ write_socket' = Unlocked(h, write_socket)
  /\ IF call[h].pc \in {"lock_read", "kernel_read"} THEN ReadFails(h, "other") ELSE Goto(h, "close")
  /\ stale' = (stale \/ (call[h].op = "write" /\ pending # <<>>))
  /\ UNCHANGED <<calls, inbio, rbuf, outbio, pending, shut, broken, wires, histories>>

\* The caller drops the future of a call.  A kernel operation in flight may have
\* moved n units that are then neither committed nor consumed.
DropCall(h, n) ==
  /\ Turn(h) /\ faults < MaxFaults /\ faults' = faults + 1
  /\ call[h].pc \notin {"idle", "ssl"}
  /\ CASE call[h].pc = "kernel_read" ->
            /\ n \in 0 .. Min({write_lease, Len(wire_in)})
            /\ wire_in' = SubSeq(wire_in, n + 1, Len(wire_in)) /\ wire_out' = wire_out
       [] call[h].pc = "kernel_write" ->
            /\ n \in 0 .. read_lease(outbio)
            /\ wire_out' = wire_out \o SubSeq(outbio, 1, n) /\ wire_in' = wire_in
       [] OTHER -> n = 0 /\ UNCHANGED <<wire_in, wire_out>>
  /\ torn' = (torn \/ n > 0) /\ stale' = (stale \/ (call[h].op = "write" /\ pending # <<>>))
  /\ read_socket' = Unlocked(h, read_socket) /\ write_socket' = Unlocked(h, write_socket)
  /\ Return(h)
  /\ UNCHANGED <<calls, inbio, rbuf, outbio, pending, shut, broken, peer, sent, got, issued, acked>>

\* The peer: data, then close_notify or a record that does not decrypt, then EOF.
PeerSends ==
  /\ "closed" \notin peer
  /\ \/ /\ sent < MaxRecords /\ peer \cap {"close", "bad"} = {}
        /\ wire_in' = wire_in \o <<Unit("data", sent + 1, 1), Unit("data", sent + 1, 2)>>
        /\ sent' = sent + 1 /\ UNCHANGED peer
     \/ \E t \in {"close", "bad"} :
          /\ peer \cap {"close", "bad"} = {}
          /\ wire_in' = Append(wire_in, Unit(t, 0, 0))
          /\ peer' = peer \cup {t} /\ UNCHANGED sent
  /\ UNCHANGED <<call, calls, faults, sockets, ssl, wire_out, got, issued, acked, torn>>

PeerCloses ==
  /\ "closed" \notin peer /\ peer' = peer \cup {"closed"}
  /\ UNCHANGED <<call, calls, faults, sockets, ssl, wire_in, wire_out, histories>>

Run(h) == ReadLoop(h) \/ WriteLoop(h) \/ ShutdownLoop(h)
Progress(h) ==
  \/ Run(h) \/ LockRead(h) \/ LockWrite(h) \/ LockBoth(h) \/ CloseBecause(h) \/ KernelEof(h)
  \/ \E n \in 1 .. BioSize : KernelRead(h, n) \/ KernelWrite(h, n)

Next ==
  \/ \E h \in Halves : \/ \E op \in Ops[h], n \in Sizes \cup {0} : Start(h, op, n)
                       \/ Progress(h) \/ Fails(h) \/ \E n \in 0 .. BioSize : DropCall(h, n)
  \/ PeerSends \/ PeerCloses

\* The thread goes on, the kernel accepts what is written, and the peer closes
\* in the end.  Nothing is assumed of errors, drops and calls.
Fairness == WF_vars(PeerCloses) /\ \A h \in Halves : WF_vars(Progress(h))
Spec == Init /\ [][Next]_vars /\ Fairness
-----------------------------------------------------------------------------
TypeOK ==
  /\ \A h \in Halves : call[h].op \in Ops[h] \cup {None}
  /\ calls \in 0 .. MaxCalls /\ faults \in 0 .. MaxFaults
  /\ \A s \in {read_socket, write_socket} : s.open \in BOOLEAN /\ s.owner \in Halves \cup {None}
  /\ Len(inbio) <= BioSize /\ Len(outbio) <= BioSize /\ Len(rbuf) <= 1

Data(s) == SelectSeq(s, LAMBDA u : u.t = "data")

\* The two halves share OpenSSL's buffers, yet what the reader gets and what is
\* still under way is exactly what the peer sent, and what is on the wire and in
\* OpenSSL's buffers exactly what was written, in order, as long as no call was
\* dropped while the kernel had its lease.  The reentrancy asserts of
\* enter_callback never fire: a buffer has one lease at a time.
HalvesShareTls ==
  /\ ~(\A h \in Halves : call[h].pc = "kernel_read")
  /\ ~(\A h \in Halves : call[h].pc = "kernel_write")
  /\ ~torn =>
       /\ Data(wire_out \o outbio \o pending) = issued
       /\ ~broken => LET way == Data(Incoming \o wire_in)
                     IN got \o [i \in 1 .. Len(way) \div 2 |-> way[2 * i].k] = [i \in 1 .. sent |-> i]

\* A write that returned Ok has been handed to the kernel to the last byte, its
\* record included that did not fit into the BIO at once (try_write exhausts
\* the BIO before it returns).
WrittenIsFlushed == ~torn => Len(Data(wire_out)) >= acked

CallWaits(h) == call[h].pc # "idle"

\* Every call ends once the peer has closed the connection: the locks are always
\* taken in the order read, write, and a read of zero bytes ends every loop.
TlsCallsEnd == \A h \in Halves : []<>~CallWaits(h)
=============================================================================
