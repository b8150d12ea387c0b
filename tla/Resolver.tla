------------------------------ MODULE Resolver ------------------------------
(* Name resolution (kimojio/src/resolver.rs): lookups of one thread share a     *)
(* connection to the varlink service under a lock, and fall back for good to a  *)
(* helper thread that resolves one name after the other.  Every lookup asks for *)
(* a host of its own, so a lookup also names its host.  The service, the kernel  *)
(* and the platform's resolver are external.                                  *)
EXTENDS Integers, Sequences, FiniteSets, SequencesExt, FiniteSetsExt

CONSTANTS Lookups,
          MAX_VARLINK_REPLY_SIZE, VARLINK_READ_CHUNK, \* in pieces of a reply
          MaxWork,  \* bound: twice the lookups, and the times the service or a call fails
          None

VARIABLES owner, mode, connection, \* RESOLVER_STATE: the lock, mode, connection
          pc, retried, outcome,    \* per lookup: its await, second attempt, result
          input, read_buffer,      \* VarlinkConnection: input, read ahead by its stream
          requests, stream, up, alive, \* the service: its requests, replies, state; its end
          helper, jobs, job, slot, signal, \* BLOCKING_HELPER, its queue and its work
          faults, abandoned        \* bound; history: a dropped lookup has left a reply

service == <<requests, stream, up, alive>>
shared == <<owner, mode, connection, input, read_buffer>>
blocking == <<helper, jobs, job, slot, signal>>
vars == <<shared, pc, retried, outcome, service, blocking, faults, abandoned>>

\* A reply is the two pieces of its text and a NUL, and may be a piece too long.  The
\* bytes that a read has reserved and not filled are NULs as well.
NUL == None
Text(l) == <<<<l, 1>>, <<l, 2>>>>
Reply(l) == Append(Text(l), NUL)
TooLong(l) == <<<<l, 1>>>> \o Reply(l)
Zeros(n) == [i \in 1 .. n |-> NUL]

\* The bytes before the first NUL, all if there is none, and those after the n first.
Terminators == {i \in 1 .. Len(input) : input[i] = NUL}
Filled == SubSeq(input, 1, Min(Terminators \cup {Len(input) + 1}) - 1)
After(s, n) == SubSeq(s, n + 1, Len(s))

\* The bound: one lookup more makes two faults fewer.
Work == 2 * Cardinality({l \in Lookups : pc[l] # "new"}) + faults

Init ==
  /\ owner = None /\ mode = "Unknown" /\ connection = FALSE
  /\ input = <<>> /\ read_buffer = <<>>
  /\ pc = [l \in Lookups |-> "new"] /\ retried = [l \in Lookups |-> FALSE]
  /\ outcome = [l \in Lookups |-> None]
  /\ requests = <<>> /\ stream = <<>> /\ up \in BOOLEAN /\ alive = FALSE
  /\ helper = None /\ jobs = <<>> /\ job = None
  /\ slot = [l \in Lookups |-> None] /\ signal = [l \in Lookups |-> 0]
  /\ faults = 0 /\ abandoned = FALSE

\* The results; "Io" stands for all failures but those the code tells apart, and for the
\* end of a lookup that is dropped.
Ok(l) == [is |-> "Ok", of |-> l]
Err(e) == [is |-> e, of |-> None]
Goto(l, to) == pc' = [pc EXCEPT ![l] = to]
Return(l, r) == Goto(l, "done") /\ outcome' = [outcome EXCEPT ![l] = r]

-----------------------------------------------------------------------------
\* resolve: a literal needs nobody; otherwise wait for the lock.
resolve(l) ==
  /\ pc[l] = "new" /\ Work + 2 <= MaxWork
  /\ \/ Return(l, Ok(l))      \* parse_address_literal
     \/ Goto(l, "lock") /\ UNCHANGED outcome
  /\ UNCHANGED <<shared, retried, service, blocking, faults, abandoned>>

\* Mutant: the guard of the lock is dropped before the exchange.
Locked_Releases(l) ==
  /\ pc[l] = "lock" /\ owner = None
  /\ Goto(l, IF mode = "Blocking" THEN "blocking" ELSE IF connection THEN "write" ELSE "connect")
  /\ UNCHANGED <<shared, retried, outcome, service, blocking, faults, abandoned>>

\* The lock is ours: blocking mode leaves it at once, preferred_lookup connects
\* if there is no connection.
Locked(l) ==
  /\ pc[l] = "lock" /\ owner = None
  /\ IF mode = "Blocking" THEN Goto(l, "blocking") /\ UNCHANGED owner
     ELSE owner' = l /\ Goto(l, IF connection THEN "write" ELSE "connect")
  /\ UNCHANGED <<mode, connection, input, read_buffer, retried, outcome, service, blocking, faults,
                 abandoned>>

\* PreferredOutcome::TransportFailure: blocking from now on.
TransportFailure(l) == mode' = "Blocking" /\ owner' = None /\ Goto(l, "blocking")

\* connect_varlink: a new stream with an empty input; a refusal ends the service.
connect(l) ==
  /\ pc[l] = "connect"
  /\ IF up
     THEN /\ connection' = TRUE /\ input' = <<>> /\ requests' = <<>> /\ stream' = <<>>
          /\ read_buffer' = <<>> /\ alive' = TRUE /\ Goto(l, "write")
          /\ UNCHANGED <<owner, mode>>
     ELSE /\ TransportFailure(l)
          /\ UNCHANGED <<connection, input, read_buffer, requests, stream, alive>>
  /\ UNCHANGED <<retried, outcome, up, blocking, faults, abandoned>>

\* ExchangeError::Transport: the connection goes; the first time it is replaced.
Transport(l) ==
  /\ connection' = FALSE
  /\ IF retried[l] THEN TransportFailure(l) /\ UNCHANGED retried
     ELSE retried' = [retried EXCEPT ![l] = TRUE] /\ Goto(l, "connect") /\ UNCHANGED <<owner, mode>>
  /\ UNCHANGED outcome

\* Mutant: the connection is kept after a protocol error.
PreferredReply_Keeps(l, r) ==
  /\ mode' = "Varlink" /\ owner' = None /\ Return(l, r)
  /\ UNCHANGED <<connection, retried>>

\* PreferredOutcome::Reply: a protocol error also ends the connection.
PreferredReply(l, r) ==
  /\ mode' = "Varlink" /\ owner' = None /\ Return(l, r)
  /\ connection' = (connection /\ r # Err("Protocol")) /\ UNCHANGED retried

\* exchange_varlink, the request: it is with the service, or the stream is dead.
write(l) ==
  /\ pc[l] = "write"
  /\ \/ /\ alive /\ requests' = Append(requests, l) /\ Goto(l, "frame")
        /\ UNCHANGED <<shared, retried, outcome>>
     \/ ~alive /\ Transport(l) /\ UNCHANGED <<input, read_buffer, requests>>
  /\ UNCHANGED <<stream, up, alive, blocking, faults, abandoned>>

\* decode_varlink_reply: the addresses (CollectAddresses), HostNotFound for a
\* method error or no addresses, Protocol for anything but the text of one reply.
decode_varlink_reply(frame, l) ==
  IF \E h \in Lookups : frame = Text(h)
  THEN {Ok(frame[1][1]), Err("HostNotFound"), Err("Protocol")}
  ELSE {Err("Protocol")}

\* read_frame up to its await: a frame if there is a NUL, an error if the input
\* has grown too long, else one more read into zeroed spare capacity.
read_frame(l) ==
  /\ pc[l] = "frame"
  /\ IF Terminators # {}
     THEN IF Len(Filled) > MAX_VARLINK_REPLY_SIZE
          THEN input' = <<>> /\ PreferredReply(l, Err("Protocol"))
          ELSE /\ input' = After(input, Min(Terminators))
               /\ \E r \in decode_varlink_reply(Filled, l) : PreferredReply(l, r)
     ELSE IF Len(input) > MAX_VARLINK_REPLY_SIZE
     THEN input' = <<>> /\ PreferredReply(l, Err("Protocol"))
     ELSE /\ \E n \in {Min({MAX_VARLINK_REPLY_SIZE + 1 - Len(input), VARLINK_READ_CHUNK})} :
               input' = input \o Zeros(n)
          /\ Goto(l, "read") /\ UNCHANGED <<owner, mode, connection, retried, outcome>>
  /\ UNCHANGED <<read_buffer, service, blocking, faults, abandoned>>

\* try_read: what the stream has read ahead, or else what one read of the kernel
\* returns, a piece or more; the input keeps as much as it had reserved room for
\* (truncate).  No byte is an end of file.
read(l) ==
  /\ pc[l] = "read"
  /\ \/ \E n \in IF read_buffer # <<>> THEN {0} ELSE 1 .. Len(stream) :
          \E arrived \in {read_buffer \o SubSeq(stream, 1, n)} :
          \E m \in {Min({Len(arrived), Len(input) - Len(Filled)})} :
          /\ input' = Filled \o SubSeq(arrived, 1, m) /\ read_buffer' = After(arrived, m)
          /\ stream' = After(stream, n)
          /\ Goto(l, "frame") /\ UNCHANGED <<owner, mode, connection, retried, outcome>>
     \/ /\ read_buffer = <<>> /\ stream = <<>> /\ ~alive
        /\ input' = Filled /\ Transport(l) /\ UNCHANGED <<read_buffer, stream>>
  /\ UNCHANGED <<requests, up, alive, blocking, faults, abandoned>>

-----------------------------------------------------------------------------
\* The helper thread is started once; if that fails, it has failed for good.
blocking_helper == IF helper = None THEN {"running", "failed"} ELSE {helper}

\* resolve_blocking: start the helper if nobody has, queue a job with a slot and
\* an eventfd of its own, and read the eventfd.
resolve_blocking(l) ==
  /\ pc[l] = "blocking"
  /\ \E h \in blocking_helper :
       /\ helper' = h
       /\ IF h = "failed" THEN Return(l, Err("Io")) /\ UNCHANGED jobs
          ELSE jobs' = Append(jobs, l) /\ Goto(l, "signal") /\ UNCHANGED outcome
  /\ UNCHANGED <<shared, retried, service, job, slot, signal, faults, abandoned>>

\* Mutant: a name the platform cannot resolve ends the turn without a signal.
blocking_helper_loop_Skips ==
  /\ \/ /\ job = None /\ jobs # <<>>
        /\ job' = [of |-> Head(jobs), stored |-> FALSE] /\ jobs' = Tail(jobs)
        /\ UNCHANGED <<slot, signal>>
     \/ job # None /\ ~job.stored /\ job' = None /\ UNCHANGED <<jobs, slot, signal>>
     \/ /\ job # None /\ ~job.stored
        /\ slot' = [slot EXCEPT ![job.of] = Ok(job.of)]
        /\ signal' = [signal EXCEPT ![job.of] = @ + 1]
        /\ job' = None /\ UNCHANGED jobs
  /\ UNCHANGED <<shared, pc, retried, outcome, service, helper, faults, abandoned>>

\* blocking_helper_loop, on its own thread: take a job, store the result, signal.
blocking_helper_loop ==
  /\ \/ /\ job = None /\ jobs # <<>>
        /\ job' = [of |-> Head(jobs), stored |-> FALSE] /\ jobs' = Tail(jobs)
        /\ UNCHANGED <<slot, signal>>
     \/ /\ job # None /\ ~job.stored
        /\ \E r \in {Err("Io"), Err("HostNotFound"), Ok(job.of)} :
             slot' = [slot EXCEPT ![job.of] = r]
        /\ job' = [job EXCEPT !.stored = TRUE] /\ UNCHANGED <<jobs, signal>>
     \/ /\ job # None /\ job.stored
        /\ signal' = [signal EXCEPT ![job.of] = @ + 1]
        /\ job' = None /\ UNCHANGED <<jobs, slot>>
  /\ UNCHANGED <<shared, pc, retried, outcome, service, helper, faults, abandoned>>

\* The eventfd is readable: take the result out of the slot.
Signalled(l) ==
  /\ pc[l] = "signal" /\ signal[l] > 0
  /\ signal' = [signal EXCEPT ![l] = 0] /\ slot' = [slot EXCEPT ![l] = None]
  /\ Return(l, IF slot[l] = None THEN Err("NoResult") ELSE slot[l])
  /\ UNCHANGED <<shared, retried, service, helper, jobs, job, faults, abandoned>>

-----------------------------------------------------------------------------
\* The read of l waits for the kernel.
Reads(l) == pc[l] = "read" /\ read_buffer = <<>>

\* The caller drops a lookup at an await.  A request that is being written may be
\* sent all the same.  What a read of the kernel has moved by then is lost, and the
\* capacity reserved for it stays in the input, as NULs: they end what is in front
\* of them, be it the text of the reply.
DropLookup(l) ==
  /\ pc[l] \in {"lock", "connect", "write", "signal"} \/ Reads(l)
  /\ owner' = IF owner = l THEN None ELSE owner
  /\ \/ requests' = requests
     \/ pc[l] = "write" /\ alive /\ requests' = Append(requests, l)
  /\ \E n \in 0 .. (IF Reads(l) THEN Len(stream) ELSE 0) : stream' = After(stream, n)
  /\ abandoned' = (abandoned \/ requests' # requests \/ (Reads(l) /\ Filled = Text(l)))
  /\ Return(l, Err("Io"))
  /\ UNCHANGED <<mode, connection, input, read_buffer, retried, up, alive, blocking, faults>>

\* A lock, a system call or a request to the kernel fails or is cancelled.
Fails(l) ==
  /\ Work < MaxWork /\ faults' = faults + 1
  /\ \/ pc[l] = "lock" /\ Return(l, Err("Io")) /\ UNCHANGED <<shared, retried>>
     \/ /\ pc[l] = "connect" /\ TransportFailure(l)
        /\ UNCHANGED <<connection, input, read_buffer, retried, outcome>>
     \/ pc[l] = "write" /\ Transport(l) /\ UNCHANGED <<input, read_buffer>>
     \/ Reads(l) /\ Transport(l) /\ UNCHANGED <<input, read_buffer>>
     \/ pc[l] \in {"blocking", "signal"} /\ Return(l, Err("Io")) /\ UNCHANGED <<shared, retried>>
  /\ UNCHANGED <<service, blocking, abandoned>>

\* The service answers requests of the connection in their order; it may send a
\* reply that is too long; it comes and goes, and its connections with it.
ServiceReplies ==
  /\ alive /\ requests # <<>> /\ requests' = Tail(requests)
  /\ \E r \in {Reply(Head(requests)), TooLong(Head(requests))} : stream' = stream \o r
  /\ UNCHANGED <<shared, pc, retried, outcome, up, alive, blocking, faults, abandoned>>

ServiceStops ==
  /\ Work < MaxWork /\ faults' = faults + 1
  /\ up' = ~up /\ alive' = FALSE /\ requests' = <<>>
  /\ UNCHANGED <<shared, pc, retried, outcome, stream, blocking, abandoned>>

Progress(l) ==
  \/ resolve(l) \/ Locked(l) \/ connect(l) \/ write(l) \/ read_frame(l) \/ read(l)
  \/ resolve_blocking(l) \/ Signalled(l)

Next ==
  \/ \E l \in Lookups : Progress(l) \/ DropLookup(l) \/ Fails(l)
  \/ blocking_helper_loop \/ ServiceReplies \/ ServiceStops

\* Tasks, the helper thread and the service go on.
Fairness ==
  /\ WF_vars(blocking_helper_loop) /\ WF_vars(ServiceReplies)
  /\ \A l \in Lookups : WF_vars(Progress(l))
Spec == Init /\ [][Next]_vars /\ Fairness
-----------------------------------------------------------------------------
TypeOK ==
  /\ owner \in Lookups \cup {None} /\ mode \in {"Unknown", "Varlink", "Blocking"}
  /\ connection \in BOOLEAN /\ up \in BOOLEAN /\ alive \in BOOLEAN
  /\ Work \in 0 .. MaxWork
  /\ pc \in [Lookups -> {"new", "lock", "connect", "write", "frame", "read", "blocking",
                         "signal", "done"}]
  /\ helper \in {None, "running", "failed"} /\ signal \in [Lookups -> 0 .. 1]

Answered(l) == outcome[l] # None /\ outcome[l].is = "Ok"

\* A lookup that succeeds has the addresses of its own host, whatever lookups that
\* failed or were dropped have left in the shared connection: half a reply, bytes
\* that were lost, zeroes.  Two drops are not covered, after which NeverAnotherHost
\* fails: one while the request is written, and one with all of the reply read but
\* its NUL.  And the helper's signal never comes without its result.
ResolvesHost ==
  \A l \in Lookups : /\ Answered(l) /\ ~abandoned => outcome[l].of = l
                     /\ outcome[l] # Err("NoResult")

\* `resolve` "Resolves `host` into socket addresses": never those of another host.
NeverAnotherHost == \A l \in Lookups : Answered(l) => outcome[l].of = l

LookupWaits(l) == pc[l] \notin {"new", "done"}

\* Every lookup ends, in a thread whose lookups wait for each other and for one
\* helper: no await keeps the lock for ever, and no job is forgotten.
LookupsEnd == \A l \in Lookups : []<>~LookupWaits(l)
=============================================================================
