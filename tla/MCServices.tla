----------------------------- MODULE MCServices -----------------------------
(***************************************************************************)
(* What runs on top of the scheduler, on small instances: the virtual      *)
(* clock, the deadlines of operations, a program that uses io_scope,       *)
(* streams, TLS and a server that uses it, the runtime server and the      *)
(* resolver.  They share no state; an initial state chooses the one that   *)
(* is explored.                                                            *)
(***************************************************************************)
EXTENDS Integers, Sequences, TLC

CONSTANTS None, MaxClocks, FlightSizes, f1, f2, t1, t2, r1, c1, c2, v1, v2, l1, l2, l3

VARIABLES
    kind,  \* the component explored
    \* VirtualClock
    enabled, clock, sleeps, ready, cohort, waiting, idle_advance_active, clocks,
    \* Operations
    now, virtual, op, wrapper, deadline, timespec, submitted, kernel, future,
    operation_result, inner, warned,
    \* CopyFile
    args, copy_pc, buffer_pool, data, next_block, copy_complete, in_flight_ops,
    total_bytes_copied, destination, copy_result,
    \* BufferStream
    buffer_buffer, head, buffer_amount, available, not_full, closed, buffer_reader,
    buffer_writer, accepted, received,
    \* OwnedFdStream
    read_fd, write_fd, fd_shut, incoming, peer_sent, peer_open, read_buffer,
    fd_reader, delivered, aligned, fd_writer, fd_wire, started, written, fd_broken,
    \* TlsStream
    call, tls_calls, tls_faults, read_socket, write_socket, tls_inbio, rbuf,
    tls_outbio, pending, tls_shut, tls_broken, stale, wire_in, wire_out, peer,
    tls_sent, got, issued, acked, torn,
    \* TlsHandshake
    handshake_size, state, handshake_pc, flight, part, error, handshake_inbio,
    handshake_outbio, handshake_wire,
    \* TlsEchoServer
    echo_server, client_id, echo_client, echo_sent, echo_wire, handler, echo_buffer,
    echo_amount, echoed, socket_open, failed, echo_faults,
    \* RuntimeHandle
    exit, main, handle_server, runs, handle_calls, mailbox, loop, handle_client,
    value, handle_requests, tasks, replies, answer, dropped,
    \* Resolver
    owner, mode, connection, resolver_pc, retried, outcome, resolver_input,
    resolver_read_buffer, resolver_requests, stream, up, alive, helper, jobs, job,
    slot, signal, resolver_faults, abandoned

Clock == INSTANCE VirtualClock WITH
    Sleeps <- {f1, f2}, Tasks <- {t1, t2}, Durations <- {1, 2}, MaxTime <- 2,
    MaxTimers <- 3, MaxClocks <- MaxClocks

Ops == INSTANCE Operations WITH
    MaxTime <- 3, Second <- 2, result <- operation_result

Copy == INSTANCE CopyFile WITH
    BlockSize <- 2, InFlights <- {0, 1, 3}, Counts <- {None, 1, 2}, Lengths <- {0, 3,
    4}, Partial <- FALSE, pc <- copy_pc, result <- copy_result

Buffer == INSTANCE BufferStream WITH
    Readers <- {r1}, Capacity <- 3, Sizes <- {1, 2, 4}, MaxBytes <- 9,
    buffer <- buffer_buffer, amount <- buffer_amount, reader <- buffer_reader,
    writer <- buffer_writer

Fd == INSTANCE OwnedFdStream WITH
    BufferSize <- 2, Sizes <- {1, 2}, MaxBytes <- 3, MaxWritten <- 2,
    shut <- fd_shut, reader <- fd_reader, writer <- fd_writer, wire <- fd_wire,
    broken <- fd_broken

Tls == INSTANCE TlsStream WITH
    BioSize <- 2, Sizes <- {2}, MaxRecords <- 2, MaxCalls <- 3, MaxFaults <- 1,
    calls <- tls_calls, faults <- tls_faults, inbio <- tls_inbio,
    outbio <- tls_outbio, shut <- tls_shut, broken <- tls_broken, sent <- tls_sent

Handshake == INSTANCE TlsHandshake WITH
    BioSize <- 2, FlightSizes <- FlightSizes, Flights <- 3, size <- handshake_size,
    pc <- handshake_pc, inbio <- handshake_inbio, outbio <- handshake_outbio,
    wire <- handshake_wire

Echo == INSTANCE TlsEchoServer WITH
    Clients <- {c1, c2}, BufferSize <- 2, MaxBytes <- 3, MaxFaults <- 1,
    server <- echo_server, client <- echo_client, sent <- echo_sent,
    wire <- echo_wire, buffer <- echo_buffer, amount <- echo_amount,
    faults <- echo_faults

Handle == INSTANCE RuntimeHandle WITH
    Channels <- {c1}, Values <- {v1, v2}, MaxRuns <- 2, MaxCalls <- 3,
    server <- handle_server, calls <- handle_calls, client <- handle_client,
    requests <- handle_requests

Resolve == INSTANCE Resolver WITH
    Lookups <- {l1, l2, l3}, MAX_VARLINK_REPLY_SIZE <- 2, VARLINK_READ_CHUNK <- 2,
    MaxWork <- 6, pc <- resolver_pc, input <- resolver_input,
    read_buffer <- resolver_read_buffer, requests <- resolver_requests,
    faults <- resolver_faults

clock_vars == <<enabled, clock, sleeps, ready, cohort, waiting, idle_advance_active,
    clocks>>
operation_vars == <<now, virtual, op, wrapper, deadline, timespec, submitted, kernel,
    future, operation_result, inner, warned>>
copy_vars == <<args, copy_pc, buffer_pool, data, next_block, copy_complete,
    in_flight_ops, total_bytes_copied, destination, copy_result>>
buffer_vars == <<buffer_buffer, head, buffer_amount, available, not_full, closed,
    buffer_reader, buffer_writer, accepted, received>>
fd_vars == <<read_fd, write_fd, fd_shut, incoming, peer_sent, peer_open, read_buffer,
    fd_reader, delivered, aligned, fd_writer, fd_wire, started, written, fd_broken>>
tls_vars == <<call, tls_calls, tls_faults, read_socket, write_socket, tls_inbio,
    rbuf, tls_outbio, pending, tls_shut, tls_broken, stale, wire_in, wire_out, peer,
    tls_sent, got, issued, acked, torn>>
handshake_vars == <<handshake_size, state, handshake_pc, flight, part, error,
    handshake_inbio, handshake_outbio, handshake_wire>>
echo_vars == <<echo_server, client_id, echo_client, echo_sent, echo_wire, handler,
    echo_buffer, echo_amount, echoed, socket_open, failed, echo_faults>>
handle_vars == <<exit, main, handle_server, runs, handle_calls, mailbox, loop,
    handle_client, value, handle_requests, tasks, replies, answer, dropped>>
resolver_vars == <<owner, mode, connection, resolver_pc, retried, outcome,
    resolver_input, resolver_read_buffer, resolver_requests, stream, up, alive, helper, jobs,
    job, slot, signal, resolver_faults, abandoned>>

all_vars == <<clock_vars, operation_vars, copy_vars, buffer_vars, fd_vars, tls_vars,
    handshake_vars, echo_vars, handle_vars, resolver_vars>>
vars == <<kind, all_vars>>

Init ==
    /\ kind \in {"clock", "operation", "copy", "buffer", "fd", "tls", "handshake",
                "echo", "handle", "resolver"}
    /\ Clock!Init /\ Buffer!Init /\ Fd!Init /\ Tls!Init /\ Echo!Init
    /\ Ops!Init /\ (kind # "operation" => virtual = None)
    /\ Copy!Init /\ (kind # "copy" => args = [in_flight |-> 0, count |-> None, length |-> 0])
    /\ Handshake!Init /\ (kind # "handshake" => handshake_size = 2)
    /\ Handle!Init /\ (kind # "handle" => exit = "WhenEmpty")
    /\ Resolve!Init /\ (kind # "resolver" => up = FALSE)

OnClock ==
    /\ kind = "clock"
    /\ UNCHANGED <<kind, operation_vars, copy_vars, buffer_vars, fd_vars, tls_vars,
                   handshake_vars, echo_vars, handle_vars, resolver_vars>>
OnOps ==
    /\ kind = "operation"
    /\ UNCHANGED <<kind, clock_vars, copy_vars, buffer_vars, fd_vars, tls_vars,
                   handshake_vars, echo_vars, handle_vars, resolver_vars>>
OnCopy ==
    /\ kind = "copy"
    /\ UNCHANGED <<kind, clock_vars, operation_vars, buffer_vars, fd_vars, tls_vars,
                   handshake_vars, echo_vars, handle_vars, resolver_vars>>
OnBuffer ==
    /\ kind = "buffer"
    /\ UNCHANGED <<kind, clock_vars, operation_vars, copy_vars, fd_vars, tls_vars,
                   handshake_vars, echo_vars, handle_vars, resolver_vars>>
OnFd ==
    /\ kind = "fd"
    /\ UNCHANGED <<kind, clock_vars, operation_vars, copy_vars, buffer_vars,
                   tls_vars, handshake_vars, echo_vars, handle_vars, resolver_vars>>
OnTls ==
    /\ kind = "tls"
    /\ UNCHANGED <<kind, clock_vars, operation_vars, copy_vars, buffer_vars, fd_vars,
                   handshake_vars, echo_vars, handle_vars, resolver_vars>>
OnHandshake ==
    /\ kind = "handshake"
    /\ UNCHANGED <<kind, clock_vars, operation_vars, copy_vars, buffer_vars, fd_vars,
                   tls_vars, echo_vars, handle_vars, resolver_vars>>
OnEcho ==
    /\ kind = "echo"
    /\ UNCHANGED <<kind, clock_vars, operation_vars, copy_vars, buffer_vars, fd_vars,
                   tls_vars, handshake_vars, handle_vars, resolver_vars>>
OnHandle ==
    /\ kind = "handle"
    /\ UNCHANGED <<kind, clock_vars, operation_vars, copy_vars, buffer_vars, fd_vars,
                   tls_vars, handshake_vars, echo_vars, resolver_vars>>
OnResolve ==
    /\ kind = "resolver"
    /\ UNCHANGED <<kind, clock_vars, operation_vars, copy_vars, buffer_vars, fd_vars,
                   tls_vars, handshake_vars, echo_vars, handle_vars>>

Next ==
    \/ OnClock /\ Clock!Next
    \/ OnOps /\ Ops!Next
    \/ OnCopy /\ Copy!Next
    \/ OnBuffer /\ Buffer!Next
    \/ OnFd /\ Fd!Next
    \/ OnTls /\ Tls!Next
    \/ OnHandshake /\ Handshake!Next
    \/ OnEcho /\ Echo!Next
    \/ OnHandle /\ Handle!Next
    \/ OnResolve /\ Resolve!Next

Fair1 ==
    /\ UNCHANGED kind
    /\ \/ kind = "clock" /\ Clock!Run(t1)
       \/ kind = "operation" /\ Ops!Tick
       \/ kind = "copy" /\ Copy!Progress
       \/ kind = "buffer" /\ Buffer!PollWrite
       \/ kind = "fd" /\ Fd!PollRead
       \/ kind = "tls" /\ Tls!PeerCloses
       \/ kind = "handshake" /\ Handshake!Progress("client")
       \/ kind = "echo" /\ Echo!handle_client(c1)
       \/ kind = "handle" /\ Handle!runtime_server
       \/ kind = "resolver" /\ Resolve!blocking_helper_loop

Fair2 ==
    /\ UNCHANGED kind
    /\ \/ kind = "clock" /\ Clock!Run(t2)
       \/ kind = "operation" /\ Ops!KernelEnds
       \/ kind = "copy" /\ \E o \in in_flight_ops : Copy!Step(o)
       \/ kind = "buffer" /\ Buffer!PollRead(r1)
       \/ kind = "fd" /\ Fd!EndOfStream
       \/ kind = "tls" /\ Tls!Progress("reader")
       \/ kind = "handshake" /\ Handshake!Progress("server")
       \/ kind = "echo" /\ Echo!handle_client(c2)
       \/ kind = "handle" /\ Handle!BlockOnReturns
       \/ kind = "resolver" /\ Resolve!ServiceReplies

Fair3 ==
    /\ UNCHANGED kind
    /\ \/ kind = "clock" /\ ~Clock!Blocks /\ Clock!Submit
       \/ kind = "operation" /\ Ops!LastPoll
       \/ kind = "copy" /\ \E o \in in_flight_ops : Copy!Kernel(o)
       \/ kind = "fd" /\ Fd!KernelRead
       \/ kind = "tls" /\ Tls!Progress("writer")
       \/ kind = "echo" /\ Echo!ClientCloses(c1)
       \/ kind = "handle" /\ Handle!invoke_loop(c1)
       \/ kind = "resolver" /\ Resolve!Progress(l1)

Fair4 ==
    /\ UNCHANGED kind
    /\ \/ kind = "clock" /\ Clock!EndIteration
       \/ kind = "operation" /\ Ops!FirstPoll
       \/ kind = "echo" /\ Echo!ClientCloses(c2)
       \/ kind = "handle" /\ Handle!InvokeReturns(c1)
       \/ kind = "resolver" /\ Resolve!Progress(l2)

Fair5 ==
    /\ UNCHANGED kind
    /\ \/ kind = "clock" /\ Clock!IdleAdvance
       \/ kind = "handle" /\ Handle!TaskReplies(c1, 1)
       \/ kind = "resolver" /\ Resolve!Progress(l3)

active ==
    CASE kind = "clock" -> clock_vars
      [] kind = "operation" -> operation_vars
      [] kind = "copy" -> copy_vars
      [] kind = "buffer" -> buffer_vars
      [] kind = "fd" -> fd_vars
      [] kind = "tls" -> tls_vars
      [] kind = "handshake" -> handshake_vars
      [] kind = "echo" -> echo_vars
      [] kind = "handle" -> handle_vars
      [] kind = "resolver" -> resolver_vars

Fairness ==
    WF_active(Fair1) /\ WF_active(Fair2) /\ WF_active(Fair3) /\ WF_active(Fair4) /\ WF_active(Fair5)

Spec == Init /\ [][Next]_vars /\ Fairness

-----------------------------------------------------------------------------
TypeOK ==
    CASE kind = "clock" -> Clock!TypeOK
      [] kind = "operation" -> Ops!TypeOK
      [] kind = "copy" -> Copy!TypeOK
      [] kind = "buffer" -> Buffer!TypeOK
      [] kind = "fd" -> Fd!TypeOK
      [] kind = "tls" -> Tls!TypeOK
      [] kind = "handshake" -> Handshake!TypeOK
      [] kind = "echo" -> Echo!TypeOK
      [] kind = "handle" -> Handle!TypeOK
      [] kind = "resolver" -> Resolve!TypeOK

\* Virtual clock: a pending sleep has a timer with the waker of its task, each
\* timer has its sleep, and a callback that goes to the next timer is asked again
\* whenever there is one, so that the runtime does not block beside it.
SleepIsArmed ==
    kind = "clock" => Clock!SleepIsArmed /\ Clock!TimersAreOwned /\ Clock!NextIsAsked

\* Operations: whatever memory an operation borrows, the kernel is done with it
\* when the borrow ends.
BorrowsEnd == kind = "operation" => Ops!BorrowsEnd

\* Operations: no deadline fires early, however late the future is first polled.
NeverEarly == kind = "operation" => Ops!NeverEarly

\* copyfile: a copy that returns Ok is complete and exact, as long as the kernel moves
\* whole blocks (Partial is FALSE: the code ignores a short write); after an error
\* nothing is in flight.
CopyExact == kind = "copy" => Copy!CopyExact

\* Streams: bytes arrive once and in order over partial transfers, full buffers and
\* dropped calls, but for a call of a descriptor or of TLS that is dropped with bytes
\* in the kernel; the events of the in-memory stream say what its ring holds;
\* the halves of a TLS stream do not tear each other's records; each client of the echo
\* server gets back what it sent, whatever happens to the others.
BytesInOrder ==
    /\ kind = "buffer" => Buffer!BytesInOrder /\ Buffer!EventsAgree
    /\ kind = "fd" => Fd!FdBytesInOrder
    /\ kind = "tls" => Tls!HalvesShareTls
    /\ kind = "echo" => Echo!EchoesExactly

\* TLS: what a write has acknowledged is on the wire.
WrittenIsFlushed == kind = "tls" => Tls!WrittenIsFlushed

\* Runtime handles and resolver: an answer belongs to the call that gets it.  Not
\* covered are channels one of whose calls was dropped after its request was sent, and
\* connections after a lookup was dropped while its request was written or with all of
\* its reply read but the NUL: the next call gets the answer (NeverAnotherHost fails).
AnswersMatchCalls ==
    /\ kind = "handle" => Handle!AnswersMatchCalls
    /\ kind = "resolver" => Resolve!ResolvesHost

\* Who waits: the callers of each component, in two groups.
Waits(i) ==
    \/ kind = "clock" /\ Clock!SleepWaits(<<f1, f2>>[i])
    \/ kind = "operation" /\ Ops!WaitsForDeadline
    \/ kind = "copy" /\ copy_pc # "done"
    \/ kind = "buffer" /\ IF i = 1 THEN Buffer!ReadWaits(r1) ELSE Buffer!WriteWaits
    \/ kind = "fd" /\ Fd!ReadWaits
    \/ kind = "tls" /\ Tls!CallWaits(<<"reader", "writer">>[i])
    \/ kind = "handshake" /\ Handshake!Unfinished(<<"client", "server">>[i])
    \/ kind = "echo" /\ Echo!Busy(<<c1, c2>>[i])
    \/ kind = "handle" /\ IF i = 1 THEN Handle!CallWaits(c1) ELSE Handle!BlockOnWaits
    \/ kind = "resolver" /\ \E l \in <<{l1}, {l2, l3}>>[i] : Resolve!LookupWaits(l)


\* resolver.rs:214: "Resolves `host` into socket addresses that contain `port`."
NeverAnotherHost == kind = "resolver" => Resolve!NeverAnotherHost

\* async_stream.rs:26: "Repeatedly reads until the buffer is full or an error occurs".
ReadEnds == kind = "buffer" => Buffer!ReadEnds
=============================================================================
