---------------------------- MODULE TlsHandshake ----------------------------
(* Two TlsStreams shake hands: TlsContext::client and ::server, the loops of    *)
(* tlsstream.rs and TlsServerInner::do_handshake of kimojio-tls.  OpenSSL sends  *)
(* and expects flights in turn, the client first; bytes are counted.           *)
EXTENDS Integers, FiniteSetsExt

CONSTANTS BioSize,     \* bufsize of both ends
          FlightSizes, \* the sizes a flight may have
          Flights      \* flights of a handshake: 3 in TLS 1.3, 4 in TLS 1.2

Ends == {"client", "server"}
Peer(e) == CHOOSE p \in Ends : p # e

VARIABLES size,        \* of every flight of this handshake
          state,       \* TlsHandleState
          pc,          \* the await of the handshake, or its result
          flight, part, \* OpenSSL: the flight at hand, how much of it is done
          error,       \* OpenSSL: what has ended its handshake, "NONE", "SSL", "ZERO_RETURN"
          inbio, outbio, wire \* bytes in the BIO pair; sent by e and not yet read

vars == <<size, state, pc, flight, part, error, inbio, outbio, wire>>
Waits == {"ssl", "kernel_read", "kernel_write"}

\* TlsContext::server, ::client, create_ssl and TlsServer::from_ssl.
Init ==
  /\ size \in FlightSizes
  /\ state = [e \in Ends |-> "HandshakeWantWrite"] /\ pc = [e \in Ends |-> "ssl"]
  /\ flight = [e \in Ends |-> 1] /\ part = [e \in Ends |-> 0]
  /\ error = [e \in Ends |-> "NONE"]
  /\ inbio = [e \in Ends |-> 0] /\ outbio = [e \in Ends |-> 0] /\ wire = [e \in Ends |-> 0]

Mine(e, f) == f <= Flights /\ (f % 2 = 1) = (e = "client")
Theirs(e, f) == f <= Flights /\ ~Mine(e, f)

\* SSL_do_handshake: take what has arrived of the peer's flight; then put as much
\* of the own one into the BIO as fits.
SslHandshake(e) ==
  LET arrived == part[e] + inbio[e]
      taken == Theirs(e, flight[e]) /\ arrived >= size
      f == IF taken THEN flight[e] + 1 ELSE flight[e]
      done == IF taken THEN 0 ELSE part[e]
      n == IF Mine(e, f) THEN Min({BioSize - outbio[e], size - done}) ELSE 0
      put == Mine(e, f) /\ done + n = size
      g == IF put THEN f + 1 ELSE f
  IN [flight |-> g, put |-> n,
      part |-> IF put THEN 0 ELSE IF Mine(e, f) THEN done + n ELSE IF taken THEN 0 ELSE arrived,
      result |-> IF g > Flights THEN "Success" ELSE IF Mine(e, g) THEN "WANT_WRITE" ELSE "WANT_READ"]

\* Mutant: the error OpenSSL reports decides alone, no flush is forced.
Response_AsReported(e, result) ==
  CASE result = "Success" -> "Success"
    [] result = "WANT_WRITE" -> "WantWrite"
    [] result = "WANT_READ" -> "WantRead"
    [] result = "SSL" -> "Fail"
    [] result = "ZERO_RETURN" -> "Eof"

\* do_handshake: every other call that is not finished asks for a flush, whatever
\* OpenSSL reports; an error is reported by the call after it (ssl_error_response).
Response(e, result) ==
  CASE result = "Success" -> "Success"
    [] result # "Success" /\ state[e] = "HandshakeWantWrite" -> "WantWrite"
    [] result = "WANT_WRITE" /\ state[e] = "Handshake" -> "WantWrite"
    [] result = "WANT_READ" /\ state[e] = "Handshake" -> "WantRead"
    [] result = "SSL" /\ state[e] = "Handshake" -> "Fail"
    [] result = "ZERO_RETURN" /\ state[e] = "Handshake" -> "Eof"

\* client_side_handshake and server_side_handshake: where the loop goes on, with n
\* bytes in the BIO.  It is left by Success, by Fail and by Eof, which is Ok for the
\* client and EPROTO for the server; what is in the BIO stays there.
Turn(e, response, n) ==
  CASE response = "Success" -> "done"
    [] response = "Fail" -> "failed"
    [] response = "Eof" -> IF e = "client" THEN "done" ELSE "failed"
    [] response = "WantRead" -> "kernel_read"
    [] response = "WantWrite" -> IF n = 0 THEN "ssl" ELSE "kernel_write"

\* One turn of the loop, up to the next await.  OpenSSL may also fail at any call, or
\* find the peer's close_notify, and reports the same from then on.  The alert it
\* would send is left out.
Handshake(e) ==
  /\ pc[e] = "ssl"
  /\ \E r \in {SslHandshake(e)}, x \in {"NONE", "SSL", "ZERO_RETURN"} :
       \E result \in {IF x = "NONE" THEN r.result ELSE x} :
       /\ error[e] \in {"NONE", x} /\ error' = [error EXCEPT ![e] = x]
       /\ IF x = "NONE"
          THEN /\ flight' = [flight EXCEPT ![e] = r.flight] /\ part' = [part EXCEPT ![e] = r.part]
               /\ inbio' = [inbio EXCEPT ![e] = 0] /\ outbio' = [outbio EXCEPT ![e] = @ + r.put]
          ELSE UNCHANGED <<flight, part, inbio, outbio>>
       /\ pc' = [pc EXCEPT ![e] = Turn(e, Response(e, result), outbio'[e])]
       /\ state' = [state EXCEPT ![e] = IF result = "Success" THEN "Started"
                                        ELSE IF @ = "Handshake" THEN "HandshakeWantWrite"
                                        ELSE "Handshake"]
  /\ UNCHANGED <<size, wire>>

\* try_read with the end's own socket: the bytes are committed to the BIO.
KernelRead(e) ==
  /\ pc[e] = "kernel_read"
  /\ \E n \in 1 .. Min({BioSize - inbio[e], wire[Peer(e)]}) :
       /\ inbio' = [inbio EXCEPT ![e] = @ + n]
       /\ wire' = [wire EXCEPT ![Peer(e)] = @ - n]
  /\ pc' = [pc EXCEPT ![e] = "ssl"]
  /\ UNCHANGED <<size, state, flight, part, error, outbio>>

\* try_write: the BIO is exhausted, by several writes if need be; also the flush
\* of the first write after the handshake.
KernelWrite(e) ==
  /\ pc[e] \in {"kernel_write", "done"}
  /\ \E n \in 1 .. outbio[e] :
       /\ outbio' = [outbio EXCEPT ![e] = @ - n]
       /\ wire' = [wire EXCEPT ![e] = @ + n]
       /\ pc' = [pc EXCEPT ![e] = IF @ = "kernel_write" /\ n = outbio[e] THEN "ssl" ELSE @]
  /\ UNCHANGED <<size, state, flight, part, error, inbio>>

\* A read or a write fails (deadline, reset), or the peer has gone: the handshake
\* returns the error and its stream is dropped.
Fails(e) ==
  /\ pc[e] \in {"kernel_read", "kernel_write"}
  /\ pc' = [pc EXCEPT ![e] = "failed"]
  /\ UNCHANGED <<size, state, flight, part, error, inbio, outbio, wire>>

\* An end whose OpenSSL has failed drops its stream, at once or at its next use.
Gone(e) == pc[e] = "failed" \/ (pc[e] = "done" /\ state[e] # "Started")
PeerGone(e) == pc[e] = "kernel_read" /\ wire[Peer(e)] = 0 /\ Gone(Peer(e)) /\ Fails(e)

Progress(e) == Handshake(e) \/ KernelRead(e) \/ KernelWrite(e) \/ PeerGone(e)
Next == \E e \in Ends : Progress(e) \/ Fails(e)

\* Both threads go on, the kernel moves bytes, and an end whose handshake is done
\* goes on to write.
Fairness == \A e \in Ends : WF_vars(Progress(e))
Spec == Init /\ [][Next]_vars /\ Fairness
-----------------------------------------------------------------------------
TypeOK ==
  /\ size \in FlightSizes /\ pc \in [Ends -> Waits \cup {"done", "failed"}]
  /\ state \in [Ends -> {"HandshakeWantWrite", "Handshake", "Started"}]
  /\ error \in [Ends -> {"NONE", "SSL", "ZERO_RETURN"}]
  /\ flight \in [Ends -> 1 .. Flights + 1] /\ part \in [Ends -> 0 .. size]
  /\ inbio \in [Ends -> 0 .. BioSize] /\ outbio \in [Ends -> 0 .. BioSize]

\* do_handshake asks for a flush at every other call: a flight that fills the BIO an
\* even number of times is finished by a call that asks for a read, with its end
\* still in the BIO, and both ends wait for each other.
Stalls == ((size + BioSize - 1) \div BioSize) % 2 = 0

Unfinished(e) == pc[e] \notin {"done", "failed"} /\ ~Stalls

\* Both handshakes end, but for flights of the sizes at which they stall: do_handshake
\* does not let an end wait for its peer while the flight the peer waits for is still
\* in the BIO, and no error is waited out.
HandshakeEnds == \A e \in Ends : []<>~Unfinished(e)
=============================================================================
