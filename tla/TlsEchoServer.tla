--------------------------- MODULE TlsEchoServer ---------------------------
(* The TLS echo server of the examples (tls_echo_server.rs): one task that   *)
(* accepts connections and one task per client that echoes.  A TLS stream is *)
(* what TlsStream and TlsHandshake show it to be: a call gives the bytes in  *)
(* order, says that the client has closed, or fails.                         *)
EXTENDS Integers, Sequences, FiniteSetsExt, SequencesExt

CONSTANTS
    Clients,
    BufferSize,  \* of the buffer of handle_client (8192 in the code)
    MaxBytes,    \* bound: bytes a client sends, numbered 1, 2, ...
    MaxFaults    \* bound: failures of system calls and of TLS

VARIABLES
    server,   \* run_server: "context", "socket", "accept", "gone" (panic or exit)
    client_id,  \* the number of connections accepted
    client,   \* the other side: "away", "refused", "backlog", "open", "closed"
    sent,     \* history: the number of bytes the client has sent
    wire,     \* bytes sent that the handler has not read
    handler,  \* handle_client: "none", "handshake", "read", "write", "shutdown", "close", "done"
    buffer, amount,  \* of the handler; what it does not overwrite stays in the buffer
    echoed,   \* bytes sent back
    socket_open,  \* the client_socket of this side is open
    failed,   \* history: a call for this client has failed
    faults

vars == <<server, client_id, client, sent, wire, handler, buffer, amount, echoed, socket_open,
          failed, faults>>
connection == <<client, sent, wire>>
task == <<handler, buffer, amount, echoed, socket_open>>

Init ==
    /\ server = "context" /\ client_id = 0
    /\ client = [c \in Clients |-> "away"] /\ sent = [c \in Clients |-> 0]
    /\ wire = [c \in Clients |-> <<>>]
    /\ handler = [c \in Clients |-> "none"]
    /\ buffer = [c \in Clients |-> [i \in 1..BufferSize |-> 0]]
    /\ amount = [c \in Clients |-> 0] /\ echoed = [c \in Clients |-> <<>>]
    /\ socket_open = [c \in Clients |-> FALSE] /\ failed = [c \in Clients |-> FALSE]
    /\ faults = 0

\* A call fails by itself, or because the client has closed.
Fault == faults < MaxFaults /\ faults' = faults + 1
Fails(c) ==
    /\ failed' = [failed EXCEPT ![c] = TRUE]
    /\ IF client[c] = "closed" THEN UNCHANGED faults ELSE Fault
Works == UNCHANGED <<faults, failed>>

-----------------------------------------------------------------------------
(* The clients.                                                             *)

\* The kernel connects while the server listens, before the server accepts.  When an option
\* of the connected socket cannot be set, the socket is dropped and the server accepts a
\* connection that is closed.
create_client_socket(c) ==
    /\ server = "accept" /\ client[c] = "away"
    /\ \/ client' = [client EXCEPT ![c] = "backlog"] /\ Works
       \/ \E end \in {"refused", "closed"} : client' = [client EXCEPT ![c] = end] /\ Fails(c)
    /\ UNCHANGED <<server, client_id, sent, wire, task>>

ClientSends(c) ==
    /\ client[c] = "open" /\ handler[c] \notin {"none", "handshake"} /\ sent[c] < MaxBytes
    /\ sent' = [sent EXCEPT ![c] = @ + 1]
    /\ wire' = [wire EXCEPT ![c] = Append(@, sent[c] + 1)]
    /\ UNCHANGED <<server, client_id, client, task, failed, faults>>

ClientCloses(c) ==
    /\ client[c] \in {"backlog", "open"}
    /\ client' = [client EXCEPT ![c] = "closed"]
    /\ UNCHANGED <<server, client_id, sent, wire, task, failed, faults>>

-----------------------------------------------------------------------------
(* The server.                                                              *)

\* A certificate or a key that is missing or does not load: exit, or the panic of expect.
create_tls_context ==
    /\ server = "context"
    /\ \/ server' = "socket" /\ UNCHANGED faults
       \/ server' = "gone" /\ Fault
    /\ UNCHANGED <<client_id, connection, task, failed>>

create_server_socket ==
    /\ server = "socket"
    /\ \/ server' = "accept" /\ UNCHANGED faults
       \/ server' = "gone" /\ Fault
    /\ UNCHANGED <<client_id, connection, task, failed>>

\* The options of an accepted socket: TRUE when all are set.  On an error the loop goes on
\* and client_socket is dropped.
update_accept_socket(c, ok) == IF ok THEN Works ELSE Fails(c)

\* One turn of the accept loop with a connection.
run_server(c) ==
    /\ server = "accept"
    /\ handler[c] = "none" /\ client[c] \in {"backlog", "closed"}
    /\ client_id' = client_id + 1
    /\ client' = [client EXCEPT ![c] = IF @ = "backlog" THEN "open" ELSE @]
    /\ \E ok \in BOOLEAN :
          /\ update_accept_socket(c, ok)
          /\ handler' = [handler EXCEPT ![c] = IF ok THEN "handshake" ELSE "done"]
          /\ socket_open' = [socket_open EXCEPT ![c] = ok]
    /\ UNCHANGED <<server, sent, wire, buffer, amount, echoed>>

\* accept fails: the loop goes on.
AcceptFails ==
    /\ server = "accept" /\ Fault
    /\ UNCHANGED <<server, client_id, connection, task, failed>>

-----------------------------------------------------------------------------
(* The handlers.                                                            *)

Goto(c, step) == handler' = [handler EXCEPT ![c] = step]
Untouched == UNCHANGED <<server, client_id, client, sent>>

\* tls_context.server takes the socket: it is closed with the stream that fails.
Handshake(c) ==
    /\ handler[c] = "handshake"
    /\ \/ client[c] = "open" /\ Goto(c, "read") /\ Works /\ UNCHANGED socket_open
       \/ Goto(c, "done") /\ Fails(c) /\ socket_open' = [socket_open EXCEPT ![c] = FALSE]
    /\ Untouched /\ UNCHANGED <<wire, buffer, amount, echoed>>

\* try_read: some of the bytes, the end of the stream, or an error.
Read(c) ==
    /\ handler[c] = "read"
    /\ \/ \E n \in 1..Min({BufferSize, Len(wire[c])}) :
             /\ buffer' = [buffer EXCEPT ![c] = SubSeq(wire[c], 1, n)
                                                \o SubSeq(@, n + 1, BufferSize)]
             /\ amount' = [amount EXCEPT ![c] = n]
             /\ wire' = [wire EXCEPT ![c] = SubSeq(@, n + 1, Len(@))]
             /\ Goto(c, "write") /\ Works
       \/ /\ wire[c] = <<>> /\ client[c] = "closed"
          /\ Goto(c, "shutdown") /\ Works /\ UNCHANGED <<buffer, amount, wire>>
       \/ Goto(c, "shutdown") /\ Fails(c) /\ UNCHANGED <<buffer, amount, wire>>
    /\ Untouched /\ UNCHANGED <<echoed, socket_open>>

\* Mutant: the whole buffer is written, with what an earlier read has left in it.
Write_Whole(c) ==
    /\ handler[c] = "write"
    /\ echoed' = [echoed EXCEPT ![c] = @ \o buffer[c]]
    /\ Goto(c, "read") /\ Works
    /\ Untouched /\ UNCHANGED <<wire, buffer, amount, socket_open>>

\* write: all of the bytes; or an error after some of them.
Write(c) ==
    /\ handler[c] = "write"
    /\ \E n \in 0..amount[c] :
          /\ echoed' = [echoed EXCEPT ![c] = @ \o SubSeq(buffer[c], 1, n)]
          /\ \/ n = amount[c] /\ Goto(c, "read") /\ Works
             \/ n < amount[c] /\ Goto(c, "shutdown") /\ Fails(c)
    /\ Untouched /\ UNCHANGED <<wire, buffer, amount, socket_open>>

\* shutdown returns when the client closes too, or with an error, which is only printed.
Shutdown(c) ==
    /\ handler[c] = "shutdown" /\ Goto(c, "close")
    /\ (client[c] = "closed" /\ Works) \/ Fails(c)
    /\ Untouched /\ UNCHANGED <<wire, buffer, amount, echoed, socket_open>>

Close(c) ==
    /\ handler[c] = "close" /\ Goto(c, "done")
    /\ socket_open' = [socket_open EXCEPT ![c] = FALSE]
    /\ Untouched /\ Works /\ UNCHANGED <<wire, buffer, amount, echoed>>

handle_client(c) == Handshake(c) \/ Read(c) \/ Write(c) \/ Shutdown(c) \/ Close(c)

Next ==
    \/ create_tls_context \/ create_server_socket \/ AcceptFails
    \/ \E c \in Clients :
          create_client_socket(c) \/ ClientSends(c) \/ ClientCloses(c) \/ run_server(c)
            \/ handle_client(c)

Spec == Init /\ [][Next]_vars

-----------------------------------------------------------------------------
TypeOK ==
    /\ server \in {"context", "socket", "accept", "gone"} /\ client_id \in 0..Cardinality(Clients)
    /\ client \in [Clients -> {"away", "refused", "backlog", "open", "closed"}]
    /\ sent \in [Clients -> 0..MaxBytes] /\ wire \in [Clients -> Seq(1..MaxBytes)]
    /\ handler \in [Clients -> {"none", "handshake", "read", "write", "shutdown", "close", "done"}]
    /\ buffer \in [Clients -> [1..BufferSize -> 0..MaxBytes]]
    /\ amount \in [Clients -> 0..BufferSize] /\ echoed \in [Clients -> Seq(0..MaxBytes)]
    /\ socket_open \in [Clients -> BOOLEAN] /\ failed \in [Clients -> BOOLEAN]
    /\ faults \in 0..MaxFaults

Busy(c) == handler[c] \notin {"none", "done"}

\* handle_client: a client gets back what it has sent, in order and nothing else, however its
\* bytes are cut into reads, whatever happens to other clients; all of it when no call has
\* failed.  Its socket is open exactly as long as its task runs.
EchoesExactly ==
    \A c \in Clients :
        /\ \E n \in 0..sent[c] : echoed[c] = [i \in 1..n |-> i]
        /\ ~failed[c] => Len(echoed[c]) + (IF handler[c] = "write" THEN amount[c] ELSE 0)
                           + Len(wire[c]) = sent[c]
        /\ handler[c] \in {"shutdown", "close", "done"} /\ ~failed[c] => wire[c] = <<>>
        /\ socket_open[c] <=> Busy(c)
=============================================================================
