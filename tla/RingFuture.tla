----------------------------- MODULE RingFuture -----------------------------
(***************************************************************************)
(* The life of an I/O request: RingFuture (ring_future.rs), the reference  *)
(* counted Completion it shares with the kernel (lib.rs), the pool that    *)
(* recycles completions (task.rs), the reaping of completion queue entries *)
(* (runtime.rs) and io_scope (operations.rs).                              *)
(*                                                                         *)
(* The runtime is one thread.  It is in user code, or it is inside         *)
(* submit_and_complete_io, which enters the kernel and then reaps; a drop  *)
(* that must wait and the end of an io_scope call it again and again.  The *)
(* kernel completes requests at any time.                                  *)
(***************************************************************************)
EXTENDS Integers, Sequences, FiniteSets, Functions

CONSTANTS
    Futures,   \* RingFuture objects; one that is gone may be created again
    Slots,     \* addresses of Completion objects
    Scopes,    \* io_scope futures
    Kinds,     \* per future: the kinds of request it is created for
    MaxPool,   \* MAX_COMPLETION_POOL_ENTRIES
    MaxQueue,  \* bound: no request is created beside more queue entries
    None

\* What of a request matters here: the resources that its Completion owns, whether
\* the type of its result needs_drop, and whether it has a timeout (never that of a
\* close) or goes to the poll ring.
RequestKinds ==
    {k \in [resources : {"None", "CloseFd", "Owned"}, needs_drop : BOOLEAN,
            timespec : BOOLEAN, iopoll : BOOLEAN] :
       k.resources = "CloseFd" => ~k.timespec}

ASSUME KindsAssumption == Kinds \in [Futures -> SUBSET RequestKinds]

ASSUME PoolAssumption == MaxPool \in Nat /\ IsFiniteSet(Slots)

ASSUME NoneAssumption ==
    /\ None \notin Futures \cup Slots \cup Scopes
    /\ \A S \in SUBSET Slots : S # None
    /\ \A k \in RequestKinds : k # None

VARIABLES
    comp,       \* the Completion at each address, after its end its last one
    handle,     \* RingFuture::handle
    pool,       \* completion_pool
    captured,   \* per scope: the completions of its IoScopeCompletions, or None
    started,    \* per scope: the requests created in it (history)
    given_up,   \* per scope: those io_scope_cancel left to the kernel (history)
    sq, cq,     \* the queues of the two rings
    kernel,     \* requests the kernel works on: "no", "running", "cancelling"
    in_flight,  \* in_flight_io and in_flight_io_poll
    thread      \* where the thread is, see TypeOK

vars == <<comp, handle, pool, captured, started, given_up, sq, cq, kernel, in_flight, thread>>

Rings == {"ring", "ring_poll"}
ring_of(s) == IF comp[s].kind.iopoll THEN "ring_poll" ELSE "ring"

\* Submission queue entries: a request, with its link timeout if it has one,
\* or an AsyncCancel, which names a request by its address.
io(s) == <<"io", s>>
async_cancel(s) == <<"cancel", s>>
Cancels(q) == {i \in DOMAIN q : q[i][1] = "cancel"}
entry_count(s) == IF comp[s].kind.timespec THEN 2 ELSE 1

\* A completion queue: the entries of requests, and the number of those without
\* user data, of timeouts and cancels.  Nothing depends on their order.
EmptyCq == [io |-> {}, null |-> 0]
CqLen(q) == Cardinality(q.io) + q.null

InSq(s) == \E r \in Rings : io(s) \in Range(sq[r])
InCq(s) == \E r \in Rings : \E e \in cq[r].io : e[1] = s
Outstanding(s) == InSq(s) \/ kernel[s] # "no" \/ InCq(s)

\* Owners of the Rc<Completion> other than the pool: the future, a scope, and
\* the kernel, for which poll leaks one reference.
HeldByFuture(s) == \E f \in Futures : handle[f] = s
HeldByScope(s) == \E c \in Scopes : captured[c] # None /\ s \in captured[c]
Held(s) == HeldByFuture(s) \/ HeldByScope(s) \/ Outstanding(s)

Unused == [kind |-> None, state |-> "Terminated", canceled |-> FALSE,
           result |-> "none", fd |-> FALSE, closes |-> 1]
User == [at |-> "user", what |-> <<None, None>>, rings |-> {}, busy |-> FALSE]
InUser == thread = User

Init ==
    /\ comp = [s \in Slots |-> Unused]
    /\ handle = [f \in Futures |-> None]
    /\ pool = <<>>
    /\ captured = [c \in Scopes |-> None]
    /\ started = [c \in Scopes |-> {}]
    /\ given_up = [c \in Scopes |-> {}]
    /\ sq = [r \in Rings |-> <<>>]
    /\ cq = [r \in Rings |-> EmptyCq]
    /\ kernel = [s \in Slots |-> "no"]
    /\ in_flight = [r \in Rings |-> 0]
    /\ thread = User

-----------------------------------------------------------------------------
(* Operations on completions.                                              *)

\* Mutant: the descriptor is closed whatever the kernel did.
finish_close_Always(c, result) ==
    IF ~c.fd THEN c ELSE [c EXCEPT !.fd = FALSE, !.closes = @ + 1]

\* A close that was cancelled leaves the descriptor to its owner.
finish_close(c, result) ==
    IF ~c.fd THEN c
    ELSE [c EXCEPT !.fd = FALSE, !.closes = IF result = "canceled" THEN @ + 1 ELSE @]

\* Nobody reads a completion in the pool before new_completion overwrites it,
\* nor one that is deallocated, which closes a descriptor it still owns.
recycle(c) == [Unused EXCEPT !.fd = c.fd, !.closes = c.closes]
free(c) == [Unused EXCEPT !.closes = IF c.fd THEN c.closes + 1 ELSE c.closes]

\* Mutant: the result is fixed before the kernel has reported.
cancel_AtOnce(c) ==
    IF c.state \in {"Idle", "Submitted"}
    THEN [c EXCEPT !.state = "Completed", !.result = "canceled"] ELSE c

\* The state change of Completion::cancel, and whether it asks the kernel.
cancel(c) ==
    CASE c.state = "Idle" -> [c EXCEPT !.state = "Completed", !.result = "canceled"]
      [] c.state = "Submitted" -> [c EXCEPT !.canceled = TRUE]
      [] OTHER -> c

\* Mutant: the flag is tested the wrong way round.
should_cancel_Again(c) == c.state = "Submitted" /\ c.canceled

should_cancel(c) == c.state = "Submitted" /\ ~c.canceled

\* The counts of entries that the kernel has not answered, one per ring.
increment_in_flight(amount) == in_flight' = [r \in Rings |-> in_flight[r] + amount[r]]
decrement_in_flight(amount) == in_flight' = [r \in Rings |-> in_flight[r] - amount[r]]

\* The elements of S in some order; no property tells the orders apart.
Listed(S) == CHOOSE q \in [1..Cardinality(S) -> S] : IsInjective(q)

\* Mutant: the entries are not counted.
SubmitCancels_Uncounted(S) ==
    LET asked(r) == {s \in S : should_cancel(comp[s]) /\ ring_of(s) = r} IN
    /\ sq' = [r \in Rings |-> sq[r] \o Listed({async_cancel(s) : s \in asked(r)})]
    /\ UNCHANGED in_flight

\* The AsyncCancel entries for the completions of S are queued and counted.
SubmitCancels(S) ==
    LET asked(r) == {s \in S : should_cancel(comp[s]) /\ ring_of(s) = r} IN
    /\ sq' = [r \in Rings |-> sq[r] \o Listed({async_cancel(s) : s \in asked(r)})]
    /\ increment_in_flight([r \in Rings |-> Cardinality(asked(r))])

\* return_completion for completions that have no owner left: they go to the
\* pool while there is room, the others are freed.  c is the new state of all.

\* Mutant: the pool is not limited.
pooled_Unlimited(S) == Listed(S)

pooled(S) ==
    LET room == MaxPool - Len(pool) IN
    SubSeq(Listed(S), 1, IF Cardinality(S) < room THEN Cardinality(S) ELSE room)
return_completion(S, c) ==
    /\ pool' = pool \o pooled(S)
    /\ comp' = [s \in Slots |->
          IF s \in Range(pooled(S)) THEN recycle(c[s])
          ELSE IF s \in S THEN free(c[s]) ELSE c[s]]

is_done(c) == c.state \in {"Completed", "Terminated"}

\* Mutant: only memory is thought of.
pending_io_MemoryOnly(c) ==
    c.state = "Submitted" /\ c.kind.resources = "None"

\* The future must stay while the kernel uses memory it borrowed, may close its
\* descriptor, or may hand it one.
pending_io_with_borrowed_resources(c) ==
    /\ c.state = "Submitted"
    /\ c.kind.needs_drop \/ c.kind.resources \in {"None", "CloseFd"}

-----------------------------------------------------------------------------
(* submit_and_complete_io: enter the kernel, then reap.                    *)

\* The caller goes on with what; busy is its busy_poll argument.
Call(R, what, busy) ==
    thread' = [at |-> "enter", what |-> what, rings |-> R, busy |-> busy]

\* The poll ring is skipped if nothing is in flight on it.
entered(R) == {r \in R : r = "ring_poll" => in_flight[r] > 0}

\* io_uring_enter takes the queues of the rings of R.  A cancel finds its
\* request if the ring has it by then.
Issue(R) ==
    LET taken(r) == IF r \in R THEN sq[r] ELSE <<>>
        hit(s) == LET q == taken(ring_of(s)) IN
            \E i \in DOMAIN q :
               /\ q[i] = async_cancel(s)
               /\ kernel[s] # "no" \/ \E j \in 1..i : q[j] = io(s)
    IN  /\ sq' = [r \in Rings |-> IF r \in R THEN <<>> ELSE sq[r]]
        /\ cq' = [r \in Rings |-> [cq[r] EXCEPT !.null = @ + Cardinality(Cancels(taken(r)))]]
        /\ kernel' = [s \in Slots |->
              IF comp[s].kind = None THEN "no"
              ELSE IF hit(s) THEN "cancelling"
              ELSE IF io(s) \in Range(taken(ring_of(s))) THEN "running"
              ELSE kernel[s]]

\* The kernel takes what is queued.  The call waits for a completion only if
\* the caller does not poll busily, nothing is in flight on the poll ring and
\* no task is ready (the scheduler's business: waits is free).
Enter ==
    /\ thread.at = "enter"
    /\ Issue(entered(thread.rings))
    /\ \E waits \in BOOLEAN :
          /\ waits => /\ ~thread.busy /\ "ring" \in thread.rings
                      /\ in_flight["ring_poll"] = 0
          /\ thread' = [thread EXCEPT !.at = IF waits THEN "wait" ELSE "reap"]
    /\ UNCHANGED <<comp, handle, pool, captured, started, given_up, in_flight>>

\* EAGAIN, EBUSY or EINTR: the kernel takes nothing and the call does not wait.
Refuse ==
    /\ thread.at = "enter"
    /\ thread' = [thread EXCEPT !.at = "reap"]
    /\ UNCHANGED <<comp, handle, pool, captured, started, given_up, sq, cq, kernel, in_flight>>

\* CANCELED without a cancel is a timeout.
reported(c, res) == IF res = "canceled" /\ ~c.canceled THEN "time" ELSE res

\* process_completions on rings R.
process_completions(R) ==
    LET entries == UNION {cq[r].io : r \in R}
        S == {s \in Slots : \E e \in entries : e[1] = s}
        result(s) == reported(comp[s], (CHOOSE e \in entries : e[1] = s)[2])
        sole == {s \in S : ~HeldByFuture(s) /\ ~HeldByScope(s)}
    IN  /\ return_completion(sole, [s \in Slots |->
              IF s \notin S THEN comp[s]
              ELSE [comp[s] EXCEPT !.state = "Completed", !.result = result(s)]])
        /\ cq' = [r \in Rings |-> IF r \in R THEN EmptyCq ELSE cq[r]]
        /\ decrement_in_flight([r \in Rings |-> IF r \in R THEN CqLen(cq[r]) ELSE 0])
        /\ UNCHANGED <<handle, captured, started, given_up, sq, kernel>>

Reap ==
    /\ thread.at = "reap" \/ (thread.at = "wait" /\ cq["ring"] # EmptyCq)
    /\ process_completions(entered(thread.rings))
    /\ thread' = IF thread.what = User.what THEN User
                 ELSE [thread EXCEPT !.at = "resume"]

\* EINTR while waiting.
Interrupt ==
    /\ thread.at = "wait" /\ cq["ring"] = EmptyCq
    /\ thread' = [thread EXCEPT !.at = "resume"]
    /\ UNCHANGED <<comp, handle, pool, captured, started, given_up, sq, cq, kernel, in_flight>>

\* The same two steps of the event loop and of SubmitFuture, with nothing to
\* resume.  A full submission queue gives the first alone (Ring::submit), a
\* kernel that refuses entries the second.
LoopEnters(R) ==
    /\ InUser
    /\ Issue(entered(R))
    /\ UNCHANGED <<comp, handle, pool, captured, started, given_up, in_flight, thread>>
LoopReaps(R) ==
    /\ InUser
    /\ process_completions(entered(R))
    /\ UNCHANGED thread

\* The kernel finishes a request.  A cancelled or timed out one ends with
\* CANCELED or has finished before; only then a descriptor was closed.
KernelComplete(s, res) ==
    /\ kernel[s] # "no"
    /\ res = "canceled" => kernel[s] = "cancelling" \/ comp[s].kind.timespec
    /\ kernel' = [kernel EXCEPT ![s] = "no"]
    /\ cq' = [cq EXCEPT ![ring_of(s)] =
          [io |-> @.io \cup {<<s, res>>},
           null |-> IF comp[s].kind.timespec THEN @.null + 1 ELSE @.null]]
    /\ comp' = IF comp[s].kind.resources = "CloseFd" /\ res # "canceled"
               THEN [comp EXCEPT ![s].closes = @ + 1] ELSE comp
    /\ UNCHANGED <<handle, pool, captured, started, given_up, sq, in_flight, thread>>

-----------------------------------------------------------------------------
(* RingFuture.                                                             *)

\* new_completion: from the pool, or allocated (any free address will do).
Allocated == IF pool = <<>> THEN CHOOSE s \in Slots : ~Held(s) ELSE Head(pool)
new_completion(s) ==
    /\ pool = <<>> => ~Held(s)
    /\ pool' = IF pool = <<>> THEN pool ELSE Tail(pool)

\* The task's list is that of scope c while the scope is polled; without one, nothing.
register_io(c, s) ==
    captured' = [d \in Scopes |-> IF d = c THEN captured[d] \cup {s} ELSE captured[d]]

\* with_polled in scope c, or outside of any.
with_polled(f, k, c) == LET s == Allocated IN
    /\ InUser /\ handle[f] = None
    /\ \A r \in Rings : Len(sq[r]) + CqLen(cq[r]) <= MaxQueue
    /\ \E t \in Slots : ~Held(t)
    /\ new_completion(s)
    /\ c # None => captured[c] # None
    /\ comp' = [comp EXCEPT ![s] =
          [kind |-> k, state |-> "Idle", canceled |-> FALSE, result |-> "none",
           fd |-> k.resources = "CloseFd",
           closes |-> IF k.resources = "CloseFd" THEN 0 ELSE 1]]
    /\ handle' = [handle EXCEPT ![f] = s]
    /\ register_io(c, s)
    /\ started' = [d \in Scopes |-> IF d = c THEN started[d] \cup {s} ELSE started[d] \ {s}]
    /\ given_up' = [d \in Scopes |-> given_up[d] \ {s}]
    /\ UNCHANGED <<sq, cq, kernel, in_flight, thread>>

PollIdle(f) ==
    /\ InUser /\ handle[f] # None
    /\ LET s == handle[f] IN
       /\ comp[s].state = "Idle"
       /\ comp' = [comp EXCEPT ![s].state = "Submitted"]
       /\ sq' = [sq EXCEPT ![ring_of(s)] = Append(@, io(s))]
       /\ increment_in_flight([r \in Rings |-> IF r = ring_of(s) THEN entry_count(s) ELSE 0])
    /\ UNCHANGED <<handle, pool, captured, started, given_up, cq, kernel, thread>>

\* Mutant: the completion is recycled although a scope has a reference to it.
PollCompleted_Shared(f) ==
    /\ InUser /\ handle[f] # None
    /\ comp[handle[f]].state = "Completed"
    /\ handle' = [handle EXCEPT ![f] = None]
    /\ return_completion({handle[f]},
          [comp EXCEPT ![handle[f]] = finish_close(@, @.result)])
    /\ UNCHANGED <<captured, started, given_up, sq, cq, kernel, in_flight, thread>>

PollCompleted(f) ==
    /\ InUser /\ handle[f] # None
    /\ LET s == handle[f]
           sole == IF HeldByScope(s) THEN {} ELSE {s}
           c == [finish_close(comp[s], comp[s].result) EXCEPT !.state = "Terminated"]
       IN  /\ comp[s].state = "Completed"
           /\ handle' = [handle EXCEPT ![f] = None]
           /\ return_completion(sole, [comp EXCEPT ![s] = c])
    /\ UNCHANGED <<captured, started, given_up, sq, cq, kernel, in_flight, thread>>

\* RingFuture::cancel.
Cancel(f) ==
    /\ InUser /\ handle[f] # None
    /\ comp' = [comp EXCEPT ![handle[f]] = cancel(@)]
    /\ SubmitCancels({handle[f]})
    /\ UNCHANGED <<handle, pool, captured, started, given_up, cq, kernel, thread>>

\* The end of Drop, for completion c at s: an abandoned result is consumed, and
\* the future's Rc is dropped, not returned to the pool.
Dropped(f, c) ==
    LET s == handle[f]
        d == IF c.state # "Completed" THEN c
             ELSE [finish_close(c, c.result) EXCEPT !.state = "Terminated"]
    IN  /\ comp' = [comp EXCEPT ![s] =
              IF HeldByScope(s) \/ Outstanding(s) THEN d ELSE free(d)]
        /\ handle' = [handle EXCEPT ![f] = None]
        /\ UNCHANGED <<pool, captured, started, given_up, cq, kernel>>

\* Drop cancels the request, and blocks the thread while the kernel may use
\* what the request borrows.  The task is aborted by a panic in poll: a drop.
Drop(f) ==
    /\ InUser /\ handle[f] # None
    /\ LET s == handle[f]
           c == cancel(comp[s])
       IN  /\ SubmitCancels({s})
           /\ IF pending_io_with_borrowed_resources(c)
              THEN /\ comp' = [comp EXCEPT ![s] = c]
                   /\ Call({ring_of(s)}, <<"drop", f>>, FALSE)
                   /\ UNCHANGED <<handle, pool, captured, started, given_up, cq, kernel>>
              ELSE Dropped(f, c) /\ UNCHANGED thread

DropResume(f) ==
    /\ thread.at = "resume" /\ thread.what = <<"drop", f>>
    /\ UNCHANGED <<sq, in_flight>>
    /\ IF pending_io_with_borrowed_resources(comp[handle[f]])
       THEN /\ thread' = [thread EXCEPT !.at = "enter"]
            /\ UNCHANGED <<comp, handle, pool, captured, started, given_up, cq, kernel>>
       ELSE Dropped(f, comp[handle[f]]) /\ thread' = User

-----------------------------------------------------------------------------
(* io_scope.  A scope's list is in the task while its future is polled, and *)
(* in the future otherwise; with_polled finds it there or not.              *)

io_scope(c) ==
    /\ InUser /\ captured[c] = None
    /\ captured' = [captured EXCEPT ![c] = {}]
    /\ UNCHANGED <<comp, handle, pool, started, given_up, sq, cq, kernel, in_flight, thread>>

\* Completions of S leave the list of a scope.
ScopeReturns(S, c) ==
    LET sole == {s \in S : ~HeldByFuture(s) /\ ~Outstanding(s)} IN
    return_completion(sole, c)

\* io_scope_cancel: everything is submitted, cancelled, and no longer tracked.
io_scope_cancel(c) ==
    /\ InUser /\ captured[c] # None
    /\ Call(Rings, <<"cancel", c>>, TRUE)
    /\ UNCHANGED <<comp, handle, pool, captured, started, given_up, sq, cq, kernel, in_flight>>

cancel_io_scope_completions(c) ==
    /\ thread.at = "resume" /\ thread.what = <<"cancel", c>>
    /\ SubmitCancels(captured[c])
    /\ ScopeReturns(captured[c],
          [s \in Slots |-> IF s \in captured[c] THEN cancel(comp[s]) ELSE comp[s]])
    /\ captured' = [captured EXCEPT ![c] = {}]
    /\ given_up' = [given_up EXCEPT ![c] = @ \cup {s \in captured[c] : comp[s].state = "Submitted"}]
    /\ Call(Rings, User.what, TRUE)
    /\ UNCHANGED <<handle, started, cq, kernel>>

\* The scope's future is ready, or is dropped while it is pending.
ScopeEnd(c) ==
    /\ InUser /\ captured[c] # None
    /\ \/ /\ Call(Rings, <<"exit", c>>, TRUE)
          /\ UNCHANGED <<captured, started, given_up>>
       \/ /\ captured[c] = {}
          /\ captured' = [captured EXCEPT ![c] = None]
          /\ started' = [started EXCEPT ![c] = {}]
          /\ given_up' = [given_up EXCEPT ![c] = {}]
          /\ UNCHANGED thread
    /\ UNCHANGED <<comp, handle, pool, sq, cq, kernel, in_flight>>

\* The scope goes on waiting for left, or is over.
ScopeWaitsFor(c, left) ==
    IF left = {}
    THEN /\ captured' = [captured EXCEPT ![c] = None]
         /\ started' = [started EXCEPT ![c] = {}]
         /\ given_up' = [given_up EXCEPT ![c] = {}]
         /\ thread' = User
    ELSE /\ captured' = [captured EXCEPT ![c] = left]
         /\ Call(Rings, <<"wait", c>>, TRUE)
         /\ UNCHANGED <<started, given_up>>

\* Mutant: a request that has been cancelled is not waited for.
retain_incomplete_Uncanceled(c) ==
    {s \in captured[c] : ~is_done(comp[s]) /\ ~comp[s].canceled}

retain_incomplete(c) == {s \in captured[c] : ~is_done(comp[s])}

\* io_scope_cancel_and_wait_internal: what is left is cancelled ...
ScopeCancels(c) ==
    /\ thread.at = "resume" /\ thread.what = <<"exit", c>>
    /\ LET left == retain_incomplete(c) IN
       /\ SubmitCancels(left)
       /\ ScopeReturns(captured[c] \ left,
             [s \in Slots |-> IF s \in left THEN cancel(comp[s]) ELSE comp[s]])
       /\ ScopeWaitsFor(c, left)
    /\ UNCHANGED <<handle, cq, kernel>>

\* ... and waited for.
ScopeWaits(c) ==
    /\ thread.at = "resume" /\ thread.what = <<"wait", c>>
    /\ ScopeReturns(captured[c] \ retain_incomplete(c), comp)
    /\ ScopeWaitsFor(c, retain_incomplete(c))
    /\ UNCHANGED <<handle, sq, cq, kernel, in_flight>>

Next ==
    \/ Enter \/ Refuse \/ Reap \/ Interrupt
    \/ \E r \in Rings : LoopEnters({r}) \/ LoopReaps({r})
    \/ \E s \in Slots, res \in {"done", "canceled"} : KernelComplete(s, res)
    \/ \E f \in Futures, c \in Scopes \cup {None} : \E k \in Kinds[f] : with_polled(f, k, c)
    \/ \E f \in Futures :
          PollIdle(f) \/ PollCompleted(f) \/ Cancel(f) \/ Drop(f) \/ DropResume(f)
    \/ \E c \in Scopes :
          \/ io_scope(c) \/ io_scope_cancel(c) \/ cancel_io_scope_completions(c)
          \/ ScopeEnd(c) \/ ScopeCancels(c) \/ ScopeWaits(c)

Spec == Init /\ [][Next]_vars

\* The runtime does not stop in submit_and_complete_io or in its callers; the
\* kernel accepts entries sooner or later and ends what it was asked to cancel.
Fairness ==
    /\ WF_vars(Reap)
    /\ SF_vars(Enter)
    /\ WF_vars(\E f \in Futures : DropResume(f))
    /\ WF_vars(\E c \in Scopes :
          cancel_io_scope_completions(c) \/ ScopeCancels(c) \/ ScopeWaits(c))
    /\ \A s \in Slots :
          WF_vars(kernel[s] = "cancelling" /\ \E res \in {"done", "canceled"} : KernelComplete(s, res))

FairSpec == Spec /\ Fairness

-----------------------------------------------------------------------------
Completions ==
    [kind : {None} \cup RequestKinds,
     state : {"Idle", "Submitted", "Completed", "Terminated"}, canceled : BOOLEAN,
     result : {"none", "done", "canceled", "time"}, fd : BOOLEAN, closes : Nat]

\* The callers of submit_and_complete_io.
Callers ==
    {User.what} \cup ({"drop"} \X Futures) \cup ({"cancel", "exit", "wait"} \X Scopes)

TypeOK ==
    /\ comp \in [Slots -> Completions]
    /\ handle \in [Futures -> Slots \cup {None}]
    /\ pool \in Seq(Slots) /\ Len(pool) <= MaxPool
    /\ captured \in [Scopes -> {None} \cup SUBSET Slots]
    /\ started \in [Scopes -> SUBSET Slots]
    /\ given_up \in [Scopes -> SUBSET Slots]
    /\ sq \in [Rings -> Seq({"io", "cancel"} \X Slots)]
    /\ cq \in [Rings -> [io : SUBSET (Slots \X {"done", "canceled"}), null : Nat]]
    /\ kernel \in [Slots -> {"no", "running", "cancelling"}]
    /\ in_flight \in [Rings -> Nat]
    /\ thread \in [at : {"user", "enter", "wait", "reap", "resume"}, what : Callers,
                   rings : SUBSET Rings, busy : BOOLEAN]

\* What the kernel may still write to or report on is a Submitted completion,
\* once: a queue entry never names a completion that is Idle ("You can't get a
\* completion for an entry that is not submitted"), that has its result ("You
\* can't get a completion twice") or that is back in the pool.  And a Submitted
\* completion is known to the kernel, so waiting for it makes sense.
SubmittedIsOutstanding ==
    \A s \in Slots :
       /\ comp[s].state = "Submitted" <=> Outstanding(s)
       /\ Outstanding(s) => s \notin Range(pool)
       /\ Cardinality({r \in Rings : io(s) \in Range(sq[r])})
             + (IF kernel[s] = "no" THEN 0 ELSE 1)
             + Cardinality({e \in UNION {cq[r].io : r \in Rings} : e[1] = s}) <= 1

\* new_completion: "Pooled completion must have singular refcount".
PooledIsUnshared ==
    /\ IsInjective(pool)
    /\ \A s \in Range(pool) : ~Held(s)

\* "there is no guarantee it is still valid": the kernel never works on memory,
\* a descriptor or for a descriptor result whose future is gone.
BorrowedOutlivesRequest ==
    \A s \in Slots :
       Outstanding(s) /\ (comp[s].kind.needs_drop \/ comp[s].kind.resources # "Owned")
          => HeldByFuture(s)

\* close: "Never close its number again", and "Dropping the future closes the
\* descriptor even if the I/O was not submitted or cancellation prevented the
\* kernel from closing it".
ClosedOnce ==
    \A s \in Slots :
       /\ comp[s].closes <= 1
       /\ ~HeldByFuture(s) => comp[s].closes = 1

\* The counters that decide whether a ring is entered count what is queued, in
\* the kernel, or not reaped.
Entries(S) == Cardinality(S) + Cardinality({s \in S : comp[s].kind.timespec})
InFlightCounts ==
    \A r \in Rings :
       in_flight[r] =
          Entries({s \in Slots : io(s) \in Range(sq[r])})
          + Cardinality(Cancels(sq[r]))
          + Entries({s \in Slots : kernel[s] # "no" /\ ring_of(s) = r})
          + CqLen(cq[r])

\* No completion is lost, shared or counted twice between the futures, the queues,
\* the kernel and the pool.
CompletionsTracked == SubmittedIsOutstanding /\ PooledIsUnshared /\ InFlightCounts

\* When a scope ends, however it ends, every request created in it is finished,
\* those included that the scope itself or their owner cancelled; only what an
\* io_scope_cancel found in the kernel and gave up is not waited for.
ScopeEndsRequests ==
    [][\A c \in Scopes :
          captured[c] # None /\ captured'[c] = None =>
             \A s \in started[c] \ given_up[c] : is_done(comp'[s])]_vars

\* io_scope: "any IO operations initiated by the current task while calling f
\* are complete by the time f returns".
ScopeCompletesAll ==
    [][\A c \in Scopes :
          thread.at = "resume" /\ captured[c] # None /\ captured'[c] = None =>
             \A s \in started[c] : is_done(comp'[s])]_vars

\* A drop that blocks the thread, and the end of a scope, return.
BlockingCallsReturn ==
    thread.what \in ({"drop"} \X Futures) \cup ({"exit", "wait"} \X Scopes) ~> InUser
=============================================================================
