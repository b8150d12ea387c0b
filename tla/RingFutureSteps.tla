-------------------------- MODULE RingFutureSteps ---------------------------
(***************************************************************************)
(* The inductive invariant of RingFuture, and the proofs that the steps of *)
(* the program's own code keep it: the futures that are created, polled,   *)
(* cancelled and dropped, and the I/O scopes.                              *)
(***************************************************************************)
EXTENDS RingFuture, Counting, TLAPS

\* The kernel has answered the request at s with res, and the answer is not reaped.
Answered(s, res) == \E r \in Rings : <<s, res>> \in cq[r].io

\* A Submitted completion is in exactly one place, on the ring of its request.
Located ==
    \A s \in Slots :
       /\ comp[s].state = "Submitted" <=> Outstanding(s)
       /\ comp[s].kind = None => comp[s].state = "Terminated"
       /\ \A r \in Rings : io(s) \in Range(sq[r]) => r = ring_of(s)
       /\ \A r \in Rings, res \in {"done", "canceled"} :
             <<s, res>> \in cq[r].io => r = ring_of(s)
       /\ ~(Answered(s, "done") /\ Answered(s, "canceled"))
       /\ InSq(s) => kernel[s] = "no" /\ ~InCq(s)
       /\ InCq(s) => kernel[s] = "no"

\* No two futures and no two scopes share a completion.
Owners ==
    /\ \A f, g \in Futures : handle[f] = handle[g] /\ handle[f] # None => f = g
    /\ \A c, d \in Scopes :
          captured[c] # None /\ captured[d] # None /\ c # d
             => captured[c] \cap captured[d] = {}

\* What the owner of a descriptor knows about it at each point of a close.
ClosingAt(s) ==
    /\ ~comp[s].fd => comp[s].closes = 1
    /\ comp[s].fd =>
          /\ HeldByFuture(s)
          /\ comp[s].kind # None /\ comp[s].kind.resources = "CloseFd"
          /\ comp[s].state # "Terminated"
          /\ comp[s].state = "Completed" => comp[s].result \in {"done", "canceled"}
          /\ comp[s].closes =
                IF \/ comp[s].state = "Completed" /\ comp[s].result = "done"
                   \/ Answered(s, "done")
                THEN 1 ELSE 0
    /\ comp[s].state \in {"Idle", "Submitted"} /\ comp[s].kind.resources = "CloseFd"
          => comp[s].fd
Closing == \A s \in Slots : ClosingAt(s)

\* Only a request that was cancelled meets its AsyncCancel in the kernel: an entry
\* for an earlier request at the same address is in front of it in the queue.
Canceling ==
    \A s \in Slots :
       /\ kernel[s] = "cancelling" => comp[s].canceled
       /\ Answered(s, "canceled") => comp[s].canceled \/ comp[s].kind.timespec
       /\ \A r \in Rings : \A i \in DOMAIN sq[r] :
             /\ comp[s].state = "Submitted" /\ r = ring_of(s)
             /\ sq[r][i] = async_cancel(s)
             /\ kernel[s] # "no" \/ \E j \in 1..i : sq[r][j] = io(s)
             => comp[s].canceled

\* A request that a scope no longer tracks is over or was given up.
ScopeTracks ==
    \A c \in Scopes :
       IF captured[c] = None THEN started[c] = {}
       ELSE \A s \in started[c] \ given_up[c] : s \in captured[c] \/ is_done(comp[s])

\* A blocked call keeps what it works on.
ThreadHolds ==
    /\ \A f \in Futures : thread.what = <<"drop", f>> =>
          handle[f] # None /\ comp[handle[f]].state # "Idle"
    /\ \A c \in Scopes, w \in {"cancel", "exit", "wait"} :
          thread.what = <<w, c>> => captured[c] # None

IInv ==
    /\ TypeOK
    /\ Located
    /\ Owners
    /\ PooledIsUnshared
    /\ BorrowedOutlivesRequest
    /\ Closing
    /\ Canceling
    /\ ScopeTracks
    /\ ThreadHolds
    /\ InFlightCounts

-----------------------------------------------------------------------------
(* Sequences and completions.                                              *)

LEMMA AppendFacts ==
    ASSUME NEW S, NEW q \in Seq(S), NEW x \in S
    PROVE  /\ Append(q, x) \in Seq(S)
           /\ DOMAIN q = 1..Len(q) /\ Len(q) \in Nat
           /\ DOMAIN Append(q, x) = 1..(Len(q) + 1)
           /\ \A i \in 1..Len(q) : Append(q, x)[i] = q[i]
           /\ Append(q, x)[Len(q) + 1] = x
           /\ Range(Append(q, x)) = Range(q) \cup {x}
<1> DEFINE r == Append(q, x)
<1>1. /\ r \in Seq(S)
      /\ DOMAIN q = 1..Len(q) /\ Len(q) \in Nat
      /\ DOMAIN r = 1..(Len(q) + 1)
      /\ \A i \in 1..Len(q) : r[i] = q[i]
      /\ r[Len(q) + 1] = x
    OBVIOUS
<1> HIDE DEF r
<1>2. \A y : y \in Range(r) <=> y \in Range(q) \cup {x}
    BY <1>1 DEF Range
<1> QED
    BY <1>1, <1>2 DEF r

LEMMA ConcatFacts ==
    ASSUME NEW S, NEW q \in Seq(S), NEW t \in Seq(S)
    PROVE  /\ q \o t \in Seq(S)
           /\ DOMAIN q = 1..Len(q) /\ Len(q) \in Nat
           /\ DOMAIN t = 1..Len(t) /\ Len(t) \in Nat
           /\ DOMAIN (q \o t) = 1..(Len(q) + Len(t))
           /\ Len(q \o t) = Len(q) + Len(t)
           /\ \A i \in 1..Len(q) : (q \o t)[i] = q[i]
           /\ \A i \in 1..Len(t) : (q \o t)[Len(q) + i] = t[i]
           /\ Range(q \o t) = Range(q) \cup Range(t)
<1> DEFINE r == q \o t
<1>1. /\ r \in Seq(S)
      /\ DOMAIN q = 1..Len(q) /\ Len(q) \in Nat
      /\ DOMAIN t = 1..Len(t) /\ Len(t) \in Nat
      /\ Len(r) = Len(q) + Len(t)
      /\ DOMAIN r = 1..(Len(q) + Len(t))
      /\ \A i \in 1..Len(q) : r[i] = q[i]
    OBVIOUS
<1>2. \A i \in 1..Len(t) : r[Len(q) + i] = t[i]
    OBVIOUS
<1> HIDE DEF r
<1>3. ASSUME NEW y \in Range(r)
      PROVE  y \in Range(q) \cup Range(t)
  <2>1. PICK i \in 1..(Len(q) + Len(t)) : y = r[i]
      BY <1>1 DEF Range
  <2>2. CASE i <= Len(q)
      BY <1>1, <2>1, <2>2 DEF Range
  <2>3. CASE i > Len(q)
    <3>1. i - Len(q) \in 1..Len(t) /\ Len(q) + (i - Len(q)) = i
        BY <1>1, <2>1, <2>3
    <3>2. y = t[i - Len(q)]
        BY <1>2, <2>1, <3>1
    <3> QED
        BY Zenon, <1>1, <3>1, <3>2 DEF Range
  <2> QED
      BY <1>1, <2>1, <2>2, <2>3
<1>4. ASSUME NEW y \in Range(q)
      PROVE  y \in Range(r)
    BY <1>1 DEF Range
<1>5. ASSUME NEW y \in Range(t)
      PROVE  y \in Range(r)
  <2>1. PICK i \in 1..Len(t) : y = t[i]
      BY <1>1 DEF Range
  <2>2. Len(q) + i \in DOMAIN r /\ r[Len(q) + i] = y
      BY <1>1, <1>2, <2>1
  <2> QED
      BY <2>2 DEF Range
<1>6. Range(r) = Range(q) \cup Range(t)
    BY <1>3, <1>4, <1>5
<1> QED
    BY <1>1, <1>2, <1>6 DEF r

\* Listed lists the elements of a finite set.
LEMMA ListedFacts ==
    ASSUME Counting, NEW S, IsFiniteSet(S)
    PROVE  /\ Listed(S) \in Seq(S)
           /\ Len(Listed(S)) = Cardinality(S)
           /\ IsInjective(Listed(S))
           /\ Range(Listed(S)) \subseteq S
<1> DEFINE n == Cardinality(S)
           q == Listed(S)
<1>1. n \in Nat /\ ExistsBijection(1..n, S)
    BY DEF Counting, CountOf
<1>2. PICK f \in Bijection(1..n, S) : TRUE
    BY <1>1 DEF ExistsBijection
<1>3. f \in [1..n -> S] /\ IsInjective(f)
    BY <1>2 DEF Bijection, Injection
<1>4. q \in [1..n -> S] /\ IsInjective(q)
    BY <1>3 DEF Listed
<1> HIDE DEF n, q
<1>5. q \in Seq(S) /\ Len(q) = n
    BY <1>1, <1>4
<1>6. Range(q) \subseteq S
    BY <1>4 DEF Range
<1> QED
    BY <1>4, <1>5, <1>6 DEF n, q

\* What the operations on a completion leave alone.
LEMMA CompletionFacts ==
    ASSUME NEW c \in Completions
    PROVE  /\ recycle(c) \in Completions
           /\ recycle(c).kind = None /\ recycle(c).state = "Terminated"
           /\ recycle(c).fd = c.fd /\ recycle(c).closes = c.closes
           /\ free(c) \in Completions
           /\ free(c).kind = None /\ free(c).state = "Terminated"
           /\ free(c).fd = FALSE
           /\ free(c).closes = IF c.fd THEN c.closes + 1 ELSE c.closes
<1>1. /\ c.fd \in BOOLEAN /\ c.closes \in Nat /\ c.closes + 1 \in Nat
      /\ Unused \in Completions
    BY DEF Completions, Unused
<1>2. /\ recycle(c) \in Completions
      /\ recycle(c).kind = None /\ recycle(c).state = "Terminated"
      /\ recycle(c).fd = c.fd /\ recycle(c).closes = c.closes
    BY <1>1, Zenon DEF recycle, Completions, Unused
<1>3. /\ free(c) \in Completions
      /\ free(c).kind = None /\ free(c).state = "Terminated"
      /\ free(c).fd = FALSE
      /\ free(c).closes = IF c.fd THEN c.closes + 1 ELSE c.closes
    BY <1>1, Zenon DEF free, Completions, Unused
<1> QED
    BY <1>2, <1>3

\* Only a completion in use that is not known to the kernel is cancelled at once.
LEMMA CancelFacts ==
    ASSUME NEW c \in Completions
    PROVE  /\ cancel(c) \in Completions
           /\ cancel(c).kind = c.kind
           /\ cancel(c).fd = c.fd /\ cancel(c).closes = c.closes
           /\ c.canceled => cancel(c).canceled
           /\ cancel(c).state = IF c.state = "Idle" THEN "Completed" ELSE c.state
           /\ cancel(c).result = IF c.state = "Idle" THEN "canceled" ELSE c.result
           /\ c.state = "Submitted" => cancel(c).canceled
<1>1. CASE c.state = "Idle"
    BY <1>1, Zenon DEF cancel, Completions
<1>2. CASE c.state = "Submitted"
    BY <1>2, Zenon DEF cancel, Completions
<1>3. CASE c.state \notin {"Idle", "Submitted"}
  <2>1. cancel(c) = c
      BY <1>3 DEF cancel
  <2> QED
      BY <1>3, <2>1
<1> QED
    BY <1>1, <1>2, <1>3

LEMMA PooledFacts ==
    ASSUME Counting, TypeOK, NEW S \in SUBSET Slots
    PROVE  /\ pooled(S) \in Seq(Slots)
           /\ IsInjective(pooled(S))
           /\ Range(pooled(S)) \subseteq S
           /\ Len(pool) + Len(pooled(S)) <= MaxPool
<1> DEFINE q == Listed(S)
           room == MaxPool - Len(pool)
           n == IF Cardinality(S) < room THEN Cardinality(S) ELSE room
<1>1. IsFiniteSet(S)
    BY PoolAssumption DEF Counting, CountWithin
<1>2. q \in Seq(S) /\ Len(q) = Cardinality(S) /\ IsInjective(q) /\ Range(q) \subseteq S
    BY <1>1, ListedFacts
<1>3. n \in 0..Len(q) /\ n <= room /\ Len(pool) \in Nat
    BY <1>1, <1>2, PoolAssumption DEF TypeOK, Counting, CountOf
<1>4. pooled(S) = SubSeq(q, 1, n)
    BY DEF pooled
<1> HIDE DEF q, n
<1>5. /\ SubSeq(q, 1, n) \in Seq(S) /\ Len(SubSeq(q, 1, n)) = n
      /\ DOMAIN SubSeq(q, 1, n) = 1..n
      /\ \A i \in 1..n : SubSeq(q, 1, n)[i] = q[i] /\ i \in DOMAIN q
    BY <1>2, <1>3
<1>6. SubSeq(q, 1, n) \in Seq(Slots)
    BY <1>5
<1>7. IsInjective(SubSeq(q, 1, n)) /\ Range(SubSeq(q, 1, n)) \subseteq S
    BY <1>2, <1>5 DEF IsInjective, Range
<1> QED
    BY <1>3, <1>4, <1>5, <1>6, <1>7, PoolAssumption

\* return_completion gives up the completions of S and changes no other.
LEMMA ReturnFacts ==
    ASSUME Counting, TypeOK, IsInjective(pool), NEW S \in SUBSET Slots, S \cap Range(pool) = {},
           NEW c \in [Slots -> Completions], return_completion(S, c)
    PROVE  /\ pool' \in Seq(Slots) /\ Len(pool') <= MaxPool
           /\ IsInjective(pool') /\ Range(pool') \subseteq Range(pool) \cup S
           /\ comp' \in [Slots -> Completions]
           /\ \A s \in Slots \ S : comp'[s] = c[s]
           /\ \A s \in S :
                 /\ comp'[s].kind = None /\ comp'[s].state = "Terminated"
                 /\ ~c[s].fd => ~comp'[s].fd /\ comp'[s].closes = c[s].closes
<1> DEFINE q == pooled(S)
<1>1. /\ q \in Seq(Slots) /\ IsInjective(q) /\ Range(q) \subseteq S
      /\ Len(pool) + Len(q) <= MaxPool
    BY PooledFacts
<1>2. /\ pool' = pool \o q
      /\ comp' = [s \in Slots |-> IF s \in Range(q) THEN recycle(c[s])
                                ELSE IF s \in S THEN free(c[s]) ELSE c[s]]
    BY DEF return_completion
<1> HIDE DEF q
<1>3. pool \in Seq(Slots)
    BY DEF TypeOK
<1>4. /\ pool' \in Seq(Slots)
      /\ DOMAIN pool = 1..Len(pool) /\ Len(pool) \in Nat
      /\ DOMAIN q = 1..Len(q) /\ Len(q) \in Nat
      /\ DOMAIN pool' = 1..(Len(pool) + Len(q))
      /\ Len(pool') = Len(pool) + Len(q)
      /\ \A i \in 1..Len(pool) : pool'[i] = pool[i]
      /\ \A i \in 1..Len(q) : pool'[Len(pool) + i] = q[i]
      /\ Range(pool') = Range(pool) \cup Range(q)
    BY <1>1, <1>2, <1>3, ConcatFacts
<1>5. IsInjective(pool')
  <2> SUFFICES ASSUME NEW i \in DOMAIN pool', NEW j \in DOMAIN pool', pool'[i] = pool'[j]
               PROVE  i = j
      BY DEF IsInjective
  <2>1. \A k \in DOMAIN pool' : k > Len(pool) =>
           /\ k - Len(pool) \in DOMAIN q /\ pool'[k] = q[k - Len(pool)]
           /\ pool'[k] \in S
    <3> SUFFICES ASSUME NEW k \in DOMAIN pool', k > Len(pool)
                 PROVE  /\ k - Len(pool) \in DOMAIN q /\ pool'[k] = q[k - Len(pool)]
                        /\ pool'[k] \in S
        OBVIOUS
    <3>1. k - Len(pool) \in 1..Len(q) /\ Len(pool) + (k - Len(pool)) = k
        BY <1>4
    <3>2. pool'[k] = q[k - Len(pool)]
        BY <1>4, <3>1
    <3>3. q[k - Len(pool)] \in Range(q)
        BY <1>4, <3>1 DEF Range
    <3> QED
        BY <1>1, <1>4, <3>1, <3>2, <3>3
  <2>2. \A k \in DOMAIN pool' : k <= Len(pool) =>
           k \in DOMAIN pool /\ pool'[k] = pool[k] /\ pool'[k] \notin S
    <3>1. \A k \in DOMAIN pool : pool[k] \in Range(pool)
        BY DEF Range
    <3> QED
        BY <1>4, <3>1
  <2>3. CASE i <= Len(pool) /\ j <= Len(pool)
      BY <2>2, <2>3 DEF IsInjective
  <2>4. CASE i > Len(pool) /\ j > Len(pool)
    <3>1. i - Len(pool) = j - Len(pool)
        BY <1>1, <2>1, <2>4 DEF IsInjective
    <3> QED
        BY <1>4, <3>1
  <2>5. i \in Int /\ j \in Int
      BY <1>4
  <2> QED
      BY <1>4, <2>1, <2>2, <2>3, <2>4, <2>5
<1>6. \A s \in Slots : c[s] \in Completions
    OBVIOUS
<1>7. comp' \in [Slots -> Completions]
  <2>1. \A s \in Slots : recycle(c[s]) \in Completions /\ free(c[s]) \in Completions
      BY <1>6, CompletionFacts, Zenon
  <2> QED
      BY <1>2, <1>6, <2>1
<1>8. \A s \in Slots \ S : comp'[s] = c[s]
    BY <1>1, <1>2
<1>9. ASSUME NEW s \in S
      PROVE  /\ comp'[s].kind = None /\ comp'[s].state = "Terminated"
             /\ ~c[s].fd => ~comp'[s].fd /\ comp'[s].closes = c[s].closes
  <2>1. comp'[s] = recycle(c[s]) \/ comp'[s] = free(c[s])
      BY <1>2
  <2>2. c[s] \in Completions
      BY <1>6
  <2>3. /\ recycle(c[s]).kind = None /\ recycle(c[s]).state = "Terminated"
        /\ recycle(c[s]).fd = c[s].fd /\ recycle(c[s]).closes = c[s].closes
        /\ free(c[s]).kind = None /\ free(c[s]).state = "Terminated"
        /\ free(c[s]).fd = FALSE
        /\ free(c[s]).closes = IF c[s].fd THEN c[s].closes + 1 ELSE c[s].closes
      BY <2>2, CompletionFacts, Zenon
  <2>4. CASE comp'[s] = recycle(c[s])
      BY <2>3, <2>4, Zenon
  <2>5. CASE comp'[s] = free(c[s])
      BY <2>3, <2>5, Zenon
  <2> QED
      BY <2>1, <2>4, <2>5
<1> QED
    BY <1>1, <1>4, <1>5, <1>7, <1>8, <1>9

-----------------------------------------------------------------------------
(* The queues.                                                             *)

SqEntries == {"io", "cancel"} \X Slots

LEMMA CancelsFinite ==
    ASSUME Counting, NEW q \in Seq(SqEntries)
    PROVE  /\ IsFiniteSet(Cancels(q)) /\ Cardinality(Cancels(q)) \in Nat
           /\ Cancels(q) \in SUBSET (1..Len(q))
<1>1. Cancels(q) \in SUBSET (1..Len(q)) /\ Len(q) \in Nat
    BY DEF Cancels
<1>2. IsFiniteSet(1..Len(q))
    BY <1>1 DEF Counting, CountInterval
<1> QED
    BY <1>1, <1>2 DEF Counting, CountWithin, CountOf

\* Entries behind those of q, all of them cancels.
LEMMA CancelsAdded ==
    ASSUME Counting, NEW q \in Seq(SqEntries), NEW t \in Seq(SqEntries),
           \A i \in DOMAIN t : t[i][1] = "cancel"
    PROVE  Cardinality(Cancels(q \o t)) = Cardinality(Cancels(q)) + Len(t)
<1> DEFINE n == Len(q)
           new == (n + 1)..(n + Len(t))
<1>1. /\ q \o t \in Seq(SqEntries)
      /\ DOMAIN q = 1..n /\ n \in Nat
      /\ DOMAIN t = 1..Len(t) /\ Len(t) \in Nat
      /\ DOMAIN (q \o t) = 1..(n + Len(t))
      /\ \A i \in 1..n : (q \o t)[i] = q[i]
      /\ \A i \in 1..Len(t) : (q \o t)[n + i] = t[i]
    BY ConcatFacts
<1>2. \A i \in new : (q \o t)[i][1] = "cancel"
  <2> SUFFICES ASSUME NEW i \in new
               PROVE  (q \o t)[i][1] = "cancel"
      OBVIOUS
  <2>1. i - n \in 1..Len(t) /\ n + (i - n) = i
      BY <1>1
  <2>2. (q \o t)[i] = t[i - n]
      BY <1>1, <2>1
  <2> QED
      BY <1>1, <2>1, <2>2
<1> DEFINE u == q \o t
<1> HIDE DEF u, n
<1>3. Cancels(u) = Cancels(q) \cup new
  <2>1. \A i : i \in 1..(n + Len(t)) <=> i \in 1..n \/ i \in new
      BY <1>1
  <2>2. new \subseteq 1..(n + Len(t)) /\ 1..n \subseteq 1..(n + Len(t))
      BY <1>1
  <2>3. \A i : i \in Cancels(u) <=> i \in 1..(n + Len(t)) /\ u[i][1] = "cancel"
      BY <1>1 DEF Cancels, u
  <2>4. \A i : i \in Cancels(q) <=> i \in 1..n /\ q[i][1] = "cancel"
      BY <1>1 DEF Cancels
  <2>5. (\A i \in 1..n : u[i] = q[i]) /\ \A i \in new : u[i][1] = "cancel"
      BY <1>1, <1>2 DEF u
  <2> HIDE DEF new
  <2>6. \A i : i \in Cancels(u) <=> i \in Cancels(q) \/ i \in new
      BY <2>1, <2>2, <2>3, <2>4, <2>5
  <2> QED
      BY <2>6
<1>4. /\ IsFiniteSet(Cancels(q)) /\ Cardinality(Cancels(q)) \in Nat
      /\ Cancels(q) \in SUBSET (1..n)
    BY CancelsFinite DEF n
<1>5. IsFiniteSet(new) /\ Cardinality(new) = Len(t)
  <2>1. /\ IsFiniteSet(new)
        /\ Cardinality(new) = IF n + 1 > n + Len(t) THEN 0 ELSE (n + Len(t)) - (n + 1) + 1
    <3>1. n + 1 \in Int /\ n + Len(t) \in Int
        BY <1>1
    <3> QED
        BY <3>1, Zenon DEF Counting, CountInterval
  <2> QED
      BY <1>1, <2>1
<1>6. Cancels(q) \cap new = {}
    BY <1>1, <1>4
<1>7. Cardinality(Cancels(u)) = Cardinality(Cancels(q)) + Cardinality(new) - Cardinality({})
    BY <1>3, <1>4, <1>5, <1>6, ZenonT(30) DEF Counting, CountUnion
<1> QED
    BY <1>1, <1>4, <1>5, <1>7 DEF u, Counting, CountNone

\* Nothing but AsyncCancel entries is queued, for requests that were not cancelled
\* before, and every one is counted.
LEMMA SubmitCancelsFacts ==
    ASSUME Counting, TypeOK, NEW S \in SUBSET Slots, SubmitCancels(S)
    PROVE  /\ sq' \in [Rings -> Seq(SqEntries)]
           /\ in_flight' \in [Rings -> Nat]
           /\ \A r \in Rings :
                 /\ in_flight'[r] - in_flight[r] =
                       Cardinality(Cancels(sq'[r])) - Cardinality(Cancels(sq[r]))
                 /\ \A s \in Slots : io(s) \in Range(sq'[r]) <=> io(s) \in Range(sq[r])
                 /\ \A i \in DOMAIN sq[r] : i \in DOMAIN sq'[r] /\ sq'[r][i] = sq[r][i]
                 /\ \A s \in Slots : \A i \in DOMAIN sq'[r] :
                       sq'[r][i] = async_cancel(s) =>
                          i \in DOMAIN sq[r] \/ (s \in S /\ should_cancel(comp[s]))
<1> DEFINE asked(r) == {s \in S : should_cancel(comp[s]) /\ ring_of(s) = r}
           new(r) == {async_cancel(s) : s \in asked(r)}
<1>1. /\ sq' = [r \in Rings |-> sq[r] \o Listed(new(r))]
      /\ in_flight' = [r \in Rings |-> in_flight[r] + Cardinality(asked(r))]
    BY DEF SubmitCancels, increment_in_flight
<1>2. ASSUME NEW r \in Rings
      PROVE  /\ IsFiniteSet(new(r)) /\ Cardinality(new(r)) = Cardinality(asked(r))
             /\ Cardinality(asked(r)) \in Nat
  <2>1. IsFiniteSet(asked(r)) /\ Cardinality(asked(r)) \in Nat
      BY PoolAssumption DEF Counting, CountWithin, CountOf
  <2> DEFINE f == [s \in asked(r) |-> async_cancel(s)]
  <2> HIDE DEF asked
  <2>2. f \in Bijection(asked(r), new(r))
      BY Zenon DEF Bijection, Injection, Surjection, IsInjective, async_cancel
  <2>3. ExistsBijection(asked(r), new(r))
      BY <2>2 DEF ExistsBijection
  <2> QED
      BY <2>1, <2>3 DEF Counting, CountMatched
<1>3. ASSUME NEW r \in Rings
      PROVE  /\ Listed(new(r)) \in Seq(SqEntries)
             /\ Len(Listed(new(r))) = Cardinality(asked(r))
             /\ Range(Listed(new(r))) \subseteq new(r)
  <2>1. new(r) \subseteq SqEntries
      BY DEF SqEntries, async_cancel
  <2>2. /\ Listed(new(r)) \in Seq(new(r))
        /\ Len(Listed(new(r))) = Cardinality(new(r))
        /\ Range(Listed(new(r))) \subseteq new(r)
      BY <1>2, ListedFacts, Zenon
  <2> HIDE DEF new, asked
  <2>3. Listed(new(r)) \in Seq(SqEntries)
      BY <2>1, <2>2
  <2> QED
      BY <1>2, <2>2, <2>3
<1>4. ASSUME NEW r \in Rings
      PROVE  /\ in_flight'[r] - in_flight[r] =
                   Cardinality(Cancels(sq'[r])) - Cardinality(Cancels(sq[r]))
             /\ in_flight'[r] \in Nat
             /\ sq'[r] \in Seq(SqEntries)
             /\ \A s \in Slots : io(s) \in Range(sq'[r]) <=> io(s) \in Range(sq[r])
             /\ \A i \in DOMAIN sq[r] : i \in DOMAIN sq'[r] /\ sq'[r][i] = sq[r][i]
             /\ \A s \in Slots : \A i \in DOMAIN sq'[r] :
                   sq'[r][i] = async_cancel(s) =>
                      i \in DOMAIN sq[r] \/ (s \in S /\ should_cancel(comp[s]))
  <2> DEFINE q == sq[r]
             t == Listed(new(r))
  <2>1. /\ q \in Seq(SqEntries) /\ t \in Seq(SqEntries)
        /\ sq'[r] = q \o t /\ in_flight'[r] = in_flight[r] + Cardinality(asked(r))
        /\ in_flight[r] \in Nat
      BY <1>1, <1>3, Zenon DEF TypeOK, SqEntries
  <2>2. \A x \in Range(t) : \E s \in S : x = async_cancel(s) /\ should_cancel(comp[s])
      BY <1>3, Zenon
  <2>3. Len(t) = Cardinality(asked(r)) /\ Cardinality(asked(r)) \in Nat
      BY <1>2, <1>3
  <2> HIDE DEF t, asked, q
  <2>4. \A i \in DOMAIN t : t[i] \in Range(t) /\ t[i][1] = "cancel"
      BY <2>2 DEF Range, async_cancel
  <2>5. Cardinality(Cancels(q \o t)) = Cardinality(Cancels(q)) + Len(t)
      BY <2>1, <2>4, CancelsAdded
  <2>6. Cardinality(Cancels(q)) \in Nat
      BY <2>1, CancelsFinite
  <2>7. /\ q \o t \in Seq(SqEntries)
        /\ DOMAIN q = 1..Len(q) /\ Len(q) \in Nat
        /\ DOMAIN t = 1..Len(t) /\ Len(t) \in Nat
        /\ DOMAIN (q \o t) = 1..(Len(q) + Len(t))
        /\ \A i \in 1..Len(q) : (q \o t)[i] = q[i]
        /\ \A i \in 1..Len(t) : (q \o t)[Len(q) + i] = t[i]
        /\ Range(q \o t) = Range(q) \cup Range(t)
      BY <2>1, ConcatFacts
  <2>8. \A s \in Slots : io(s) \in Range(q \o t) <=> io(s) \in Range(q)
      BY <2>2, <2>7 DEF io, async_cancel
  <2>9. ASSUME NEW s \in Slots, NEW i \in DOMAIN (q \o t), (q \o t)[i] = async_cancel(s),
               i \notin DOMAIN q
        PROVE  s \in S /\ should_cancel(comp[s])
    <3>1. i - Len(q) \in 1..Len(t) /\ Len(q) + (i - Len(q)) = i
        BY <2>7, <2>9
    <3>2. (q \o t)[i] \in Range(t)
        BY <2>4, <2>7, <3>1
    <3> QED
        BY <2>2, <2>9, <3>2 DEF async_cancel
  <2>10. \A i \in DOMAIN q : i \in DOMAIN (q \o t) /\ (q \o t)[i] = q[i]
      BY <2>7
  <2>11. in_flight'[r] - in_flight[r] =
            Cardinality(Cancels(q \o t)) - Cardinality(Cancels(q)) /\ in_flight'[r] \in Nat
      BY <2>1, <2>3, <2>5, <2>6
  <2> QED
      BY <2>1, <2>7, <2>8, <2>9, <2>10, <2>11 DEF q
<1>5. sq' \in [Rings -> Seq(SqEntries)] /\ in_flight' \in [Rings -> Nat]
    BY <1>1, <1>4, Zenon
<1> QED
    BY <1>4, <1>5

\* The requests of ring r that are queued, and those that the kernel works on.
SqIo(r) == {s \in Slots : io(s) \in Range(sq[r])}
KernelIo(r) == {s \in Slots : kernel[s] # "no" /\ ring_of(s) = r}
Timed(S) == {s \in S : comp[s].kind.timespec}

\* The pool holds completions that nobody uses.
LEMMA PooledSlots ==
    ASSUME TypeOK, PooledIsUnshared
    PROVE  \A t \in Range(pool) : t \in Slots /\ ~Held(t)
<1>1. pool \in Seq(Slots)
    BY Zenon DEF TypeOK
<1>2. Range(pool) \subseteq Slots
    BY <1>1 DEF Range
<1> QED
    BY <1>2, Zenon DEF PooledIsUnshared

LEMMA PlaceFacts ==
    ASSUME TypeOK
    PROVE  /\ \A s \in Slots : ring_of(s) \in Rings /\ comp[s] \in Completions
           /\ \A s \in Slots : InCq(s) <=> Answered(s, "done") \/ Answered(s, "canceled")
           /\ \A s \in Slots : InSq(s) <=> \E r \in Rings : s \in SqIo(r)
<1>1. \A s \in Slots : ring_of(s) \in Rings /\ comp[s] \in Completions
    BY DEF TypeOK, ring_of, Rings
<1>2. ASSUME NEW s \in Slots
      PROVE  InCq(s) <=> Answered(s, "done") \/ Answered(s, "canceled")
  <2>1. \A r \in Rings : \A e \in cq[r].io :
           e[1] = s => e = <<s, "done">> \/ e = <<s, "canceled">>
    <3>1. \A r \in Rings : cq[r].io \subseteq Slots \X {"done", "canceled"}
        BY DEF TypeOK
    <3> QED
        BY <3>1
  <2> QED
      BY <2>1 DEF InCq, Answered
<1>3. \A s \in Slots : InSq(s) <=> \E r \in Rings : s \in SqIo(r)
    BY DEF InSq, SqIo
<1> QED
    BY <1>1, <1>2, <1>3

\* The terms of InFlightCounts are numbers.
LEMMA CountTypes ==
    ASSUME Counting, TypeOK, NEW r \in Rings
    PROVE  /\ \A S \in SUBSET Slots :
                 /\ IsFiniteSet(S) /\ IsFiniteSet(Timed(S))
                 /\ Cardinality(S) \in Nat /\ Cardinality(Timed(S)) \in Nat
                 /\ Entries(S) \in Nat
                 /\ Entries(S) = Cardinality(S) + Cardinality(Timed(S))
           /\ SqIo(r) \in SUBSET Slots /\ KernelIo(r) \in SUBSET Slots
           /\ IsFiniteSet(Cancels(sq[r])) /\ Cardinality(Cancels(sq[r])) \in Nat
           /\ IsFiniteSet(cq[r].io) /\ Cardinality(cq[r].io) \in Nat
           /\ CqLen(cq[r]) \in Nat
<1>1. ASSUME NEW S \in SUBSET Slots
      PROVE  /\ IsFiniteSet(S) /\ IsFiniteSet(Timed(S))
             /\ Cardinality(S) \in Nat /\ Cardinality(Timed(S)) \in Nat
             /\ Entries(S) \in Nat
             /\ Entries(S) = Cardinality(S) + Cardinality(Timed(S))
  <2>1. IsFiniteSet(S)
      BY PoolAssumption DEF Counting, CountWithin
  <2>2. Timed(S) \in SUBSET S
      BY DEF Timed
  <2>3. IsFiniteSet(Timed(S))
      BY <2>1, <2>2 DEF Counting, CountWithin
  <2>4. Cardinality(S) \in Nat /\ Cardinality(Timed(S)) \in Nat
      BY <2>1, <2>3 DEF Counting, CountOf
  <2>5. Entries(S) = Cardinality(S) + Cardinality(Timed(S))
      BY DEF Entries, Timed
  <2> QED
      BY <2>1, <2>3, <2>4, <2>5
<1>2. SqIo(r) \in SUBSET Slots /\ KernelIo(r) \in SUBSET Slots
    BY DEF SqIo, KernelIo
<1>3. IsFiniteSet(Cancels(sq[r])) /\ Cardinality(Cancels(sq[r])) \in Nat
    BY CancelsFinite DEF TypeOK, SqEntries
<1>4. cq[r].io \in SUBSET (Slots \X {"done", "canceled"}) /\ cq[r].null \in Nat
    BY DEF TypeOK
<1>5. IsFiniteSet(Slots \X {"done", "canceled"})
  <2>1. {"done", "canceled"} = {"done"} \cup {"canceled"}
      OBVIOUS
  <2>2. IsFiniteSet({"done"})
      BY Zenon DEF Counting, CountOne
  <2>3. IsFiniteSet({"done"} \cup {"canceled"})
      BY <2>2, Zenon DEF Counting, CountAdded
  <2> QED
      BY <2>1, <2>3, PoolAssumption DEF Counting, CountPairs
<1>6. IsFiniteSet(cq[r].io) /\ Cardinality(cq[r].io) \in Nat
    BY <1>4, <1>5 DEF Counting, CountWithin, CountOf
<1>7. CqLen(cq[r]) \in Nat
    BY <1>4, <1>6, SMTT(30) DEF CqLen
<1> QED
    BY <1>1, <1>2, <1>3, <1>6, <1>7

\* The futures and the scopes change completions, but none that the kernel knows,
\* other than to cancel it.
LEMMA QueueStep ==
    ASSUME Counting, IInv, UNCHANGED <<cq, kernel>>, NEW S \in SUBSET Slots,
           SubmitCancels(S) \/ UNCHANGED <<sq, in_flight>>,
           comp' \in [Slots -> Completions],
           \A s \in Slots :
              /\ comp[s].state = "Submitted" =>
                    /\ comp'[s].state = "Submitted" /\ comp'[s].kind = comp[s].kind
                    /\ comp[s].canceled => comp'[s].canceled
                    /\ s \in S => comp'[s].canceled
              /\ comp[s].state # "Submitted" =>
                    /\ comp'[s].state # "Submitted"
                    /\ comp'[s].kind = None => comp'[s].state = "Terminated"
    PROVE  /\ sq' \in [Rings -> Seq(SqEntries)] /\ in_flight' \in [Rings -> Nat]
           /\ Located' /\ Canceling' /\ InFlightCounts'
           /\ \A s \in Slots : Outstanding(s)' <=> Outstanding(s)
           /\ \A s \in Slots : Answered(s, "done")' <=> Answered(s, "done")
<1> USE DEF IInv
<1>1. /\ sq' \in [Rings -> Seq(SqEntries)] /\ in_flight' \in [Rings -> Nat]
      /\ \A r \in Rings :
            /\ in_flight'[r] - in_flight[r] =
                  Cardinality(Cancels(sq'[r])) - Cardinality(Cancels(sq[r]))
            /\ \A s \in Slots : io(s) \in Range(sq'[r]) <=> io(s) \in Range(sq[r])
            /\ \A i \in DOMAIN sq[r] : i \in DOMAIN sq'[r] /\ sq'[r][i] = sq[r][i]
            /\ \A s \in Slots : \A i \in DOMAIN sq'[r] :
                  sq'[r][i] = async_cancel(s) =>
                     i \in DOMAIN sq[r] \/ (s \in S /\ should_cancel(comp[s]))
  <2>1. CASE SubmitCancels(S)
      BY <2>1, SubmitCancelsFacts, Zenon
  <2>2. CASE UNCHANGED <<sq, in_flight>>
    <3>1. \A r \in Rings : Cardinality(Cancels(sq[r])) \in Nat /\ in_flight[r] \in Nat
        BY Zenon, CancelsFinite DEF TypeOK, SqEntries
    <3> QED
        BY <2>2, <3>1 DEF TypeOK, SqEntries
  <2> QED
      BY Zenon, <2>1, <2>2
<1>2. \A s \in Slots : ring_of(s) \in Rings
    BY PlaceFacts
<1>3. \A s \in Slots : comp[s].state = "Submitted" => ring_of(s)' = ring_of(s)
    BY Zenon DEF ring_of
<1>4. /\ \A s \in Slots : InSq(s)' <=> InSq(s)
      /\ \A s \in Slots : InCq(s)' <=> InCq(s)
      /\ \A s \in Slots : Answered(s, "done")' <=> Answered(s, "done")
      /\ \A s \in Slots : Answered(s, "canceled")' <=> Answered(s, "canceled")
    BY Zenon, <1>1 DEF InSq, InCq, Answered
<1>5. \A s \in Slots : Outstanding(s)' <=> Outstanding(s)
    BY <1>4 DEF Outstanding
<1>6. \A s \in Slots :
         /\ comp[s].state = "Submitted" <=> Outstanding(s)
         /\ InSq(s) => comp[s].state = "Submitted"
         /\ InCq(s) => comp[s].state = "Submitted"
         /\ kernel[s] # "no" => comp[s].state = "Submitted"
    BY Zenon DEF Located, Outstanding
<1>7. Located'
  <2> SUFFICES ASSUME NEW s \in Slots
               PROVE  /\ comp'[s].state = "Submitted" <=> Outstanding(s)'
                      /\ comp'[s].kind = None => comp'[s].state = "Terminated"
                      /\ \A r \in Rings : io(s) \in Range(sq'[r]) => r = ring_of(s)'
                      /\ \A r \in Rings, res \in {"done", "canceled"} :
                            <<s, res>> \in cq'[r].io => r = ring_of(s)'
                      /\ ~(Answered(s, "done")' /\ Answered(s, "canceled")')
                      /\ InSq(s)' => kernel'[s] = "no" /\ ~InCq(s)'
                      /\ InCq(s)' => kernel'[s] = "no"
      BY Zenon DEF Located
  <2>1. comp'[s].state = "Submitted" <=> Outstanding(s)'
      BY <1>5, <1>6
  <2>2. comp'[s].kind = None => comp'[s].state = "Terminated"
      BY Zenon DEF Located
  <2>3. ASSUME NEW r \in Rings, io(s) \in Range(sq'[r])
        PROVE  r = ring_of(s)'
    <3>1. io(s) \in Range(sq[r])
        BY Zenon, <1>1, <2>3
    <3>2. comp[s].state = "Submitted"
        BY Zenon, <1>6, <3>1 DEF InSq
    <3> QED
        BY <1>3, <3>1, <3>2, Zenon DEF Located
  <2>4. ASSUME NEW r \in Rings, NEW res \in {"done", "canceled"}, <<s, res>> \in cq'[r].io
        PROVE  r = ring_of(s)'
    <3>1. InCq(s) /\ r = ring_of(s)
        BY <2>4, ZenonT(30) DEF InCq, Located
    <3> QED
        BY <1>3, <1>6, <3>1
  <2> QED
      BY <1>4, <2>1, <2>2, <2>3, <2>4 DEF Located
<1>8. Canceling'
  <2> SUFFICES ASSUME NEW s \in Slots
               PROVE  /\ kernel'[s] = "cancelling" => comp'[s].canceled
                      /\ Answered(s, "canceled")' =>
                            comp'[s].canceled \/ comp'[s].kind.timespec
                      /\ \A r \in Rings : \A i \in DOMAIN sq'[r] :
                            /\ comp'[s].state = "Submitted" /\ r = ring_of(s)'
                            /\ sq'[r][i] = async_cancel(s)
                            /\ kernel'[s] # "no" \/ \E j \in 1..i : sq'[r][j] = io(s)
                            => comp'[s].canceled
      BY Zenon DEF Canceling
  <2>1. kernel'[s] = "cancelling" => comp'[s].canceled
      BY Zenon, <1>6 DEF Canceling
  <2>2. Answered(s, "canceled")' => comp'[s].canceled \/ comp'[s].kind.timespec
    <3>1. Answered(s, "canceled") => comp[s].state = "Submitted"
        BY <1>6, PlaceFacts
    <3> QED
        BY <1>4, <3>1, Zenon DEF Canceling
  <2>3. ASSUME NEW r \in Rings, NEW i \in DOMAIN sq'[r],
               comp'[s].state = "Submitted", r = ring_of(s)',
               sq'[r][i] = async_cancel(s),
               kernel'[s] # "no" \/ \E j \in 1..i : sq'[r][j] = io(s)
        PROVE  comp'[s].canceled
    <3>1. comp[s].state = "Submitted" /\ r = ring_of(s)
        BY <1>3, <2>3, Zenon
    <3>2. CASE i \in DOMAIN sq[r]
      <4>1. sq[r][i] = async_cancel(s)
          BY <1>1, <2>3, <3>2, Zenon
      <4>2. DOMAIN sq[r] = 1..Len(sq[r]) /\ Len(sq[r]) \in Nat
          BY DEF TypeOK
      <4>3. \A j \in 1..i : sq'[r][j] = sq[r][j]
          BY <1>1, <3>2, <4>2
      <4>4. kernel[s] # "no" \/ \E j \in 1..i : sq[r][j] = io(s)
          BY <2>3, <4>3, Zenon
      <4> QED
          BY <3>1, <3>2, <4>1, <4>4, Zenon DEF Canceling
    <3>3. CASE i \notin DOMAIN sq[r]
        BY <1>1, <2>3, <3>1, <3>3, Zenon
    <3> QED
        BY Zenon, <3>2, <3>3
  <2> QED
      BY Zenon, <2>1, <2>2, <2>3
<1>9. InFlightCounts'
  <2> SUFFICES ASSUME NEW r \in Rings
               PROVE  in_flight'[r] = Entries(SqIo(r))' + Cardinality(Cancels(sq'[r]))
                                      + Entries(KernelIo(r))' + CqLen(cq'[r])
      BY Zenon DEF InFlightCounts, SqIo, KernelIo
  <2>1. in_flight[r] = Entries(SqIo(r)) + Cardinality(Cancels(sq[r]))
                       + Entries(KernelIo(r)) + CqLen(cq[r])
      BY Zenon DEF InFlightCounts, SqIo, KernelIo
  <2>2. SqIo(r)' = SqIo(r)
      BY <1>1, Zenon DEF SqIo
  <2>3. KernelIo(r)' = KernelIo(r)
      BY Zenon, <1>3, <1>6 DEF KernelIo
  <2>4. \A s \in SqIo(r) \cup KernelIo(r) : comp'[s].kind = comp[s].kind
      BY <1>6 DEF SqIo, KernelIo, InSq
  <2>5. Entries(SqIo(r))' = Entries(SqIo(r)) /\ Entries(KernelIo(r))' = Entries(KernelIo(r))
      BY <2>2, <2>3, <2>4, Zenon DEF Entries
  <2>6. /\ Entries(SqIo(r)) \in Nat /\ Entries(KernelIo(r)) \in Nat
        /\ Cardinality(Cancels(sq[r])) \in Nat /\ CqLen(cq[r]) \in Nat
      BY Zenon, CountTypes
  <2>7. Cardinality(Cancels(sq'[r])) \in Nat
      BY <1>1, CancelsFinite, Zenon
  <2>8. /\ in_flight[r] \in Nat /\ in_flight'[r] \in Nat /\ CqLen(cq'[r]) = CqLen(cq[r])
        /\ in_flight'[r] - in_flight[r] =
              Cardinality(Cancels(sq'[r])) - Cardinality(Cancels(sq[r]))
      BY <1>1 DEF TypeOK
  <2> QED
      BY <2>1, <2>5, <2>6, <2>7, <2>8
<1> QED
    BY <1>1, <1>4, <1>5, <1>7, <1>8, <1>9, Zenon

-----------------------------------------------------------------------------
(* One lemma per action.                                                   *)

ThreadType ==
    thread \in [at : {"user", "enter", "wait", "reap", "resume"}, what : Callers,
                rings : SUBSET Rings, busy : BOOLEAN]

\* A step of the thread alone.
LEMMA ThreadStep ==
    ASSUME IInv,
           UNCHANGED <<comp, handle, pool, captured, started, given_up, sq, cq, kernel, in_flight>>,
           ThreadType', ThreadHolds'
    PROVE  IInv'
<1> USE DEF IInv, ThreadType
<1>1. TypeOK'
    BY Zenon DEF TypeOK
<1>2. (\A s : ring_of(s)' = ring_of(s)) /\ (\A s : Outstanding(s)' = Outstanding(s))
      /\ (\A s : InSq(s)' = InSq(s)) /\ (\A s : InCq(s)' = InCq(s))
      /\ (\A s : HeldByFuture(s)' = HeldByFuture(s))
      /\ (\A s : HeldByScope(s)' = HeldByScope(s))
      /\ (\A s, r : Answered(s, r)' = Answered(s, r))
    BY Zenon DEF ring_of, Outstanding, InSq, InCq, HeldByFuture, HeldByScope, Answered
<1>3. Located' /\ Owners' /\ PooledIsUnshared' /\ BorrowedOutlivesRequest'
    BY <1>2, Zenon DEF Located, Owners, PooledIsUnshared, BorrowedOutlivesRequest, Held
<1>4. Closing' /\ Canceling' /\ ScopeTracks'
    BY <1>2, Zenon DEF Closing, ClosingAt, Canceling, ScopeTracks
<1>5. InFlightCounts'
    BY <1>2, Zenon DEF InFlightCounts, Entries
<1> QED
    BY Zenon, <1>1, <1>3, <1>4, <1>5

\* A completion that is left alone.
LEMMA ClosingSame ==
    ASSUME NEW s \in Slots, ClosingAt(s), comp'[s] = comp[s],
           HeldByFuture(s) => HeldByFuture(s)',
           Answered(s, "done")' <=> Answered(s, "done")
    PROVE  ClosingAt(s)'
    BY DEF ClosingAt

\* In user code nothing is blocked.
LEMMA UserHolds ==
    ASSUME thread' = User
    PROVE  ThreadHolds'
<1>1. thread'.what = <<None, None>>
    BY DEF User
<1> QED
    BY <1>1, NoneAssumption DEF ThreadHolds

LEMMA TailFacts ==
    ASSUME NEW S, NEW q \in Seq(S), q # <<>>, IsInjective(q)
    PROVE  /\ Head(q) \in Range(q) /\ Head(q) \in S
           /\ Tail(q) \in Seq(S) /\ Len(Tail(q)) <= Len(q)
           /\ IsInjective(Tail(q))
           /\ Range(Tail(q)) \subseteq Range(q) \ {Head(q)}
<1>1. /\ Len(q) \in Nat /\ Len(q) > 0 /\ DOMAIN q = 1..Len(q)
      /\ Head(q) = q[1] /\ q[1] \in S
      /\ Tail(q) \in Seq(S) /\ Len(Tail(q)) = Len(q) - 1
      /\ DOMAIN Tail(q) = 1..(Len(q) - 1)
      /\ \A i \in 1..(Len(q) - 1) : Tail(q)[i] = q[i + 1]
    OBVIOUS
<1> DEFINE t == Tail(q)
<1> HIDE DEF t
<1>2. 1 \in DOMAIN q /\ \A i \in DOMAIN t : i + 1 \in DOMAIN q /\ i + 1 # 1 /\ t[i] = q[i + 1]
    BY <1>1 DEF t
<1>3. IsInjective(t)
  <2> SUFFICES ASSUME NEW i \in DOMAIN t, NEW j \in DOMAIN t, t[i] = t[j]
               PROVE  i = j
      BY DEF IsInjective
  <2>1. i + 1 = j + 1
      BY <1>2 DEF IsInjective
  <2> QED
      BY <1>1, <2>1 DEF t
<1>4. Range(t) \subseteq Range(q) \ {q[1]}
    BY <1>2 DEF Range, IsInjective
<1>5. q[1] \in Range(q)
    BY Zenon, <1>2 DEF Range
<1> QED
    BY <1>1, <1>3, <1>4, <1>5 DEF t

\* A new completion has no owner, whether it is allocated or recycled.
LEMMA AllocatedFacts ==
    ASSUME IInv, \E t \in Slots : ~Held(t), new_completion(Allocated)
    PROVE  /\ Allocated \in Slots /\ ~Held(Allocated)
           /\ pool' \in Seq(Slots) /\ Len(pool') <= MaxPool
           /\ IsInjective(pool') /\ Range(pool') \subseteq Range(pool) \ {Allocated}
<1> USE DEF IInv
<1>1. pool \in Seq(Slots) /\ Len(pool) \in Nat /\ Len(pool) <= MaxPool
    BY DEF TypeOK
<1>2. CASE pool = <<>>
  <2>1. Allocated = CHOOSE s \in Slots : ~Held(s)
      BY <1>2 DEF Allocated
  <2>2. Allocated \in Slots /\ ~Held(Allocated)
      BY <2>1
  <2>3. pool' = pool /\ Range(pool) = {}
      BY <1>2 DEF new_completion, Range
  <2> QED
      BY <1>1, <2>2, <2>3 DEF PooledIsUnshared
<1>3. CASE pool # <<>>
  <2>1. Allocated = Head(pool) /\ pool' = Tail(pool)
      BY <1>3 DEF Allocated, new_completion
  <2>2. /\ Head(pool) \in Range(pool) /\ Head(pool) \in Slots
        /\ Tail(pool) \in Seq(Slots) /\ Len(Tail(pool)) <= Len(pool)
        /\ IsInjective(Tail(pool))
        /\ Range(Tail(pool)) \subseteq Range(pool) \ {Head(pool)}
      BY <1>1, <1>3, TailFacts DEF PooledIsUnshared
  <2>3. Len(Tail(pool)) <= MaxPool
    <3>1. Len(Tail(pool)) \in Nat
        BY <2>2
    <3> QED
        BY <1>1, <2>2, <3>1, PoolAssumption
  <2> QED
      BY <2>1, <2>2, <2>3 DEF PooledIsUnshared
<1> QED
    BY Zenon, <1>2, <1>3

LEMMA WithPolledKeeps ==
    ASSUME Counting, IInv, NEW f \in Futures, NEW c \in Scopes \cup {None}, NEW k \in Kinds[f],
           with_polled(f, k, c)
    PROVE  IInv'
<1> USE DEF IInv
<1>0. PICK s : s = Allocated
    BY Zenon
<1> DEFINE n == [kind |-> k, state |-> "Idle", canceled |-> FALSE, result |-> "none",
                 fd |-> k.resources = "CloseFd",
                 closes |-> IF k.resources = "CloseFd" THEN 0 ELSE 1]
<1>1. /\ InUser /\ handle[f] = None /\ new_completion(s) /\ (\E t \in Slots : ~Held(t))
      /\ c # None => captured[c] # None
      /\ comp' = [comp EXCEPT ![s] = n]
      /\ handle' = [handle EXCEPT ![f] = s]
      /\ captured' = [d \in Scopes |-> IF d = c THEN captured[d] \cup {s} ELSE captured[d]]
      /\ started' = [d \in Scopes |-> IF d = c THEN started[d] \cup {s} ELSE started[d] \ {s}]
      /\ given_up' = [d \in Scopes |-> given_up[d] \ {s}]
      /\ UNCHANGED <<sq, cq, kernel, in_flight, thread>>
    BY <1>0 DEF with_polled, register_io
<1>2. /\ s \in Slots /\ ~Held(s)
      /\ pool' \in Seq(Slots) /\ Len(pool') <= MaxPool
      /\ IsInjective(pool') /\ Range(pool') \subseteq Range(pool) \ {s}
    BY <1>0, <1>1, AllocatedFacts, Zenon
<1>3. k \in RequestKinds /\ k # None /\ s # None
    BY <1>2, KindsAssumption, NoneAssumption
<1>4. n \in Completions
    BY <1>3, ZenonT(30) DEF Completions
<1> HIDE DEF n
<1>5. /\ comp \in [Slots -> Completions] /\ handle \in [Futures -> Slots \cup {None}]
      /\ comp' \in [Slots -> Completions] /\ comp'[s] = n
      /\ \A t \in Slots \ {s} : comp'[t] = comp[t]
    BY <1>1, <1>2, <1>4, Zenon DEF TypeOK
<1>6. /\ n.kind = k /\ n.state = "Idle" /\ n.canceled = FALSE
      /\ n.fd = (k.resources = "CloseFd")
      /\ n.closes = IF k.resources = "CloseFd" THEN 0 ELSE 1
    BY Zenon DEF n
<1>7. comp[s].state # "Submitted" /\ ~Outstanding(s)
    BY <1>2, Zenon DEF Held, Located
<1>8. /\ sq' \in [Rings -> Seq(SqEntries)] /\ in_flight' \in [Rings -> Nat]
      /\ Located' /\ Canceling' /\ InFlightCounts'
      /\ \A t \in Slots : Outstanding(t)' <=> Outstanding(t)
      /\ \A t \in Slots : Answered(t, "done")' <=> Answered(t, "done")
  <2>1. \A t \in Slots :
           /\ comp[t].state = "Submitted" =>
                 /\ comp'[t].state = "Submitted" /\ comp'[t].kind = comp[t].kind
                 /\ comp[t].canceled => comp'[t].canceled
                 /\ t \in {} => comp'[t].canceled
           /\ comp[t].state # "Submitted" =>
                 /\ comp'[t].state # "Submitted"
                 /\ comp'[t].kind = None => comp'[t].state = "Terminated"
      BY <1>3, <1>5, <1>6, <1>7, Zenon DEF Located
  <2>2. UNCHANGED <<cq, kernel>> /\ UNCHANGED <<sq, in_flight>> /\ {} \in SUBSET Slots
      BY <1>1, Zenon
  <2> QED
      BY <1>5, <2>1, <2>2, QueueStep, Zenon
<1>9. /\ handle' \in [Futures -> Slots \cup {None}] /\ handle'[f] = s
      /\ \A g \in Futures \ {f} : handle'[g] = handle[g] /\ handle'[g] # s
    BY <1>1, <1>2, <1>5, Zenon DEF Held, HeldByFuture
<1>10. \A t \in Slots : HeldByFuture(t)' <=> HeldByFuture(t) \/ t = s
  <2>1. \A t \in Slots : t # None
      BY NoneAssumption, Zenon
  <2> QED
      BY <1>1, <1>9, <2>1, Zenon DEF HeldByFuture
<1>11. /\ captured' \in [Scopes -> {None} \cup SUBSET Slots]
       /\ \A d \in Scopes : captured[d] # None => captured[d] \in SUBSET Slots
       /\ \A d \in Scopes : captured'[d] = None <=> captured[d] = None
       /\ \A d \in Scopes : captured[d] # None =>
             captured[d] \subseteq captured'[d] /\ s \notin captured[d]
             /\ captured'[d] = IF d = c THEN captured[d] \cup {s} ELSE captured[d]
  <2>1. \A d \in Scopes : captured[d] = None \/ captured[d] \in SUBSET Slots
      BY Zenon DEF TypeOK
  <2>2. \A d \in Scopes : captured[d] # None => s \notin captured[d]
      BY Zenon, <1>2 DEF Held, HeldByScope
  <2>3. \A d \in Scopes : captured[d] \in SUBSET Slots => captured[d] \cup {s} # None
      BY <1>2, NoneAssumption, Zenon
  <2>4. \A d \in Scopes :
           /\ captured'[d] = IF d = c THEN captured[d] \cup {s} ELSE captured[d]
           /\ captured[d] = None => d # c
      BY <1>1, NoneAssumption, Zenon
  <2>5. captured' \in [Scopes -> {None} \cup SUBSET Slots]
    <3>1. \A d \in Scopes : captured'[d] \in {None} \cup SUBSET Slots
        BY <1>2, <2>1, <2>4, Zenon
    <3> QED
        BY <1>1, <3>1
  <2> QED
      BY <2>1, <2>2, <2>3, <2>4, <2>5, Zenon
<1>12. \A t \in Slots : HeldByScope(t)' => HeldByScope(t) \/ t = s
    BY <1>11 DEF HeldByScope
<1>13. TypeOK'
  <2>1. started \in [Scopes -> SUBSET Slots] /\ given_up \in [Scopes -> SUBSET Slots]
      BY Zenon DEF TypeOK
  <2>2. /\ started' \in [Scopes -> SUBSET Slots] /\ given_up' \in [Scopes -> SUBSET Slots]
        /\ UNCHANGED <<cq, kernel, thread>>
      BY <1>1, <1>2, <2>1
  <2> QED
      BY <1>2, <1>5, <1>8, <1>9, <1>11, <2>2, Zenon DEF TypeOK, SqEntries
<1>14. Owners'
  <2>1. \A g, h \in Futures : handle'[g] = handle'[h] /\ handle'[g] # None => g = h
      BY <1>9, Zenon DEF Owners
  <2>2. \A d, e \in Scopes : captured'[d] # None /\ captured'[e] # None /\ d # e
           => captured'[d] \cap captured'[e] = {}
      BY <1>11, SMTT(30) DEF Owners
  <2> QED
      BY <2>1, <2>2, Zenon DEF Owners
<1>15. PooledIsUnshared'
  <2>1. \A t \in Range(pool) : t \in Slots /\ ~Held(t)
      BY SMTT(30) DEF PooledIsUnshared, TypeOK, Range
  <2> QED
      BY <1>2, <1>8, <1>10, <1>12, <2>1, Zenon DEF PooledIsUnshared, Held
<1>16. BorrowedOutlivesRequest'
    BY <1>5, <1>7, <1>8, <1>10, Zenon DEF BorrowedOutlivesRequest
<1>17. Closing'
  <2>1. ~Answered(s, "done")'
      BY <1>2, <1>7, <1>8, PlaceFacts, Zenon DEF Outstanding
  <2>2. ClosingAt(s)'
    <3>1. CASE k.resources = "CloseFd"
        BY <1>2, <1>3, <1>5, <1>6, <1>10, <2>1, <3>1, Zenon DEF ClosingAt
    <3>2. CASE k.resources # "CloseFd"
        BY <1>5, <1>6, <3>2, Zenon DEF ClosingAt
    <3> QED
        BY <3>1, <3>2
  <2>3. \A t \in Slots \ {s} : ClosingAt(t)'
      BY <1>5, <1>8, <1>10, ClosingSame, ZenonT(30) DEF Closing
  <2> QED
      BY <2>2, <2>3, Zenon DEF Closing
<1>18. ScopeTracks'
    BY <1>1, <1>5, <1>11, NoneAssumption, SMTT(30) DEF ScopeTracks, is_done
<1>19. ThreadHolds'
    BY <1>1, UserHolds, Zenon DEF InUser
<1> QED
    BY <1>8, <1>13, <1>14, <1>15, <1>16, <1>17, <1>18, <1>19

\* The descriptor of a close that is over: the kernel closed it, or its owner does.
LEMMA FinishFacts ==
    ASSUME NEW c \in Completions,
           ~c.fd => c.closes = 1,
           c.fd => /\ c.result \in {"done", "canceled"}
                   /\ c.closes = IF c.result = "done" THEN 1 ELSE 0
    PROVE  LET d == [finish_close(c, c.result) EXCEPT !.state = "Terminated"] IN
           /\ d \in Completions /\ d.kind = c.kind /\ d.state = "Terminated"
           /\ d.canceled = c.canceled /\ ~d.fd /\ d.closes = 1
<1> DEFINE e == finish_close(c, c.result)
<1>0. c.fd \in BOOLEAN /\ c.closes \in Nat /\ c.closes + 1 \in Nat
    BY DEF Completions
<1>1. /\ e \in Completions /\ e.kind = c.kind /\ e.canceled = c.canceled
      /\ e.fd = FALSE
      /\ e.closes = IF c.fd /\ c.result = "canceled" THEN c.closes + 1 ELSE c.closes
  <2>1. CASE ~c.fd
      BY <1>0, <2>1 DEF finish_close, Completions
  <2>2. CASE c.fd
      BY <1>0, <2>2, Zenon DEF finish_close, Completions
  <2> QED
      BY <2>1, <2>2, Zenon
<1>2. e.closes = 1
  <2>1. CASE ~c.fd
      BY Zenon, <1>1, <2>1
  <2>2. CASE c.fd
      BY <1>1, <2>2
  <2> QED
      BY Zenon, <2>1, <2>2
<1> HIDE DEF e
<1> DEFINE d == [e EXCEPT !.state = "Terminated"]
<1>3. /\ d \in Completions /\ d.kind = e.kind /\ d.state = "Terminated"
      /\ d.canceled = e.canceled /\ d.fd = e.fd /\ d.closes = e.closes
    BY <1>1 DEF Completions
<1> HIDE DEF d
<1>4. ~d.fd
    BY <1>1, <1>3, Zenon
<1>5. /\ d \in Completions /\ d.kind = c.kind /\ d.state = "Terminated"
      /\ d.canceled = c.canceled /\ ~d.fd /\ d.closes = 1
    BY <1>1, <1>2, <1>3, <1>4
<1> QED
    BY <1>5 DEF d, e

\* A future gives up its completion s.
LEMMA ReleaseStep ==
    ASSUME IInv, NEW f \in Futures, NEW s \in Slots, handle[f] = s,
           handle' = [handle EXCEPT ![f] = None],
           UNCHANGED <<captured, started, given_up, cq, kernel>>,
           thread' = User,
           pool' \in Seq(Slots), Len(pool') <= MaxPool, IsInjective(pool'),
           Range(pool') \subseteq Range(pool) \cup {s},
           s \in Range(pool') => ~HeldByScope(s) /\ ~Outstanding(s),
           sq' \in [Rings -> Seq(SqEntries)], in_flight' \in [Rings -> Nat],
           Located', Canceling', InFlightCounts',
           \A t \in Slots : Outstanding(t)' <=> Outstanding(t),
           \A t \in Slots : Answered(t, "done")' <=> Answered(t, "done"),
           comp' \in [Slots -> Completions],
           \A t \in Slots \ {s} : comp'[t] = comp[t],
           ~comp'[s].fd, comp'[s].closes = 1, comp'[s].state # "Idle",
           is_done(comp'[s]) \/ ((comp[s].canceled => comp'[s].canceled) /\ ~is_done(comp[s])),
           comp'[s].state = "Submitted" =>
              ~comp'[s].kind.needs_drop /\ comp'[s].kind.resources = "Owned"
    PROVE  IInv'
<1> USE DEF IInv
<1>1. /\ handle \in [Futures -> Slots \cup {None}]
      /\ handle' \in [Futures -> Slots \cup {None}]
      /\ handle'[f] = None /\ \A g \in Futures \ {f} : handle'[g] = handle[g]
    BY Zenon DEF TypeOK
<1>2. \A t \in Slots : HeldByFuture(t)' <=> HeldByFuture(t) /\ t # s
  <2>1. s # None /\ \A t \in Slots : t # None
      BY NoneAssumption, ZenonT(30)
  <2>2. \A g \in Futures : handle[g] = s => g = f
      BY Zenon, <2>1 DEF Owners
  <2> QED
      BY <1>1, <2>1, <2>2, ZenonT(30) DEF HeldByFuture
<1>3. \A t : HeldByScope(t)' <=> HeldByScope(t)
    BY Zenon DEF HeldByScope
<1>4. TypeOK'
  <2>1. User \in [at : {"user", "enter", "wait", "reap", "resume"}, what : Callers,
                  rings : SUBSET Rings, busy : BOOLEAN]
      BY Zenon DEF User, Callers
  <2> QED
      BY <1>1, <2>1, Zenon DEF TypeOK, SqEntries
<1>5. Owners'
    BY <1>1, Zenon DEF Owners
<1>6. PooledIsUnshared'
  <2>1. \A t \in Range(pool) : t \in Slots /\ ~Held(t)
      BY PooledSlots, Zenon
  <2> QED
      BY <1>2, <1>3, <2>1, Zenon DEF PooledIsUnshared, Held
<1>7. BorrowedOutlivesRequest'
  <2> SUFFICES ASSUME NEW t \in Slots, Outstanding(t)',
                      comp'[t].kind.needs_drop \/ comp'[t].kind.resources # "Owned"
               PROVE  HeldByFuture(t)'
      BY Zenon DEF BorrowedOutlivesRequest
  <2>1. comp'[t].state = "Submitted"
      BY Zenon DEF Located
  <2>2. t # s
      BY <2>1, ZenonT(30)
  <2> QED
      BY <1>2, <2>2, Zenon DEF BorrowedOutlivesRequest
<1>8. Closing'
  <2>1. ClosingAt(s)'
      BY Zenon DEF ClosingAt
  <2>2. \A t \in Slots \ {s} : ClosingAt(t)'
      BY <1>2, ClosingSame, Zenon DEF Closing
  <2> QED
      BY Zenon, <2>1, <2>2 DEF Closing
<1>9. ScopeTracks'
    BY ZenonT(30) DEF ScopeTracks, TypeOK, is_done
<1>10. ThreadHolds'
    BY UserHolds, Zenon
<1> QED
    BY <1>4, <1>5, <1>6, <1>7, <1>8, <1>9, <1>10, Zenon

\* The future at f and its completion.
LEMMA HandleFacts ==
    ASSUME IInv, NEW f \in Futures, handle[f] # None
    PROVE  /\ handle[f] \in Slots /\ HeldByFuture(handle[f])
           /\ handle[f] \notin Range(pool) /\ comp[handle[f]] \in Completions
           /\ ClosingAt(handle[f])
           /\ comp[handle[f]].state # "Submitted" =>
                 ~Outstanding(handle[f]) /\ ~Answered(handle[f], "done")
<1> USE DEF IInv
<1>1. handle[f] \in Slots
    BY Zenon DEF TypeOK
<1>2. HeldByFuture(handle[f])
    BY DEF HeldByFuture
<1>3. handle[f] \notin Range(pool)
    BY <1>2, Zenon DEF PooledIsUnshared, Held
<1>4. comp[handle[f]] \in Completions /\ ClosingAt(handle[f])
    BY <1>1 DEF TypeOK, Closing
<1>5. comp[handle[f]].state # "Submitted" =>
         ~Outstanding(handle[f]) /\ ~Answered(handle[f], "done")
    BY <1>1, PlaceFacts, Zenon DEF Located, Outstanding
<1> QED
    BY <1>1, <1>2, <1>3, <1>4, <1>5, Zenon

LEMMA PollCompletedKeeps ==
    ASSUME Counting, IInv, NEW f \in Futures, PollCompleted(f)
    PROVE  IInv'
<1> USE DEF IInv
<1>0. PICK s : s = handle[f]
    BY Zenon
<1> DEFINE sole == IF HeldByScope(s) THEN {} ELSE {s}
           c == [finish_close(comp[s], comp[s].result) EXCEPT !.state = "Terminated"]
           b == [comp EXCEPT ![s] = c]
<1>1. /\ InUser /\ s # None /\ comp[s].state = "Completed"
      /\ handle' = [handle EXCEPT ![f] = None] /\ return_completion(sole, b)
      /\ UNCHANGED <<captured, started, given_up, sq, cq, kernel, in_flight, thread>>
    BY Zenon, <1>0 DEF PollCompleted
<1>2. /\ s \in Slots /\ s \notin Range(pool) /\ comp[s] \in Completions
      /\ ClosingAt(s) /\ ~Outstanding(s) /\ ~Answered(s, "done")
    BY <1>0, <1>1, HandleFacts
<1>3. /\ c \in Completions /\ c.kind = comp[s].kind /\ c.state = "Terminated"
      /\ c.canceled = comp[s].canceled /\ ~c.fd /\ c.closes = 1
  <2>1. ~comp[s].fd => comp[s].closes = 1
      BY <1>2 DEF ClosingAt
  <2>2. comp[s].fd => /\ comp[s].result \in {"done", "canceled"}
                      /\ comp[s].closes = IF comp[s].result = "done" THEN 1 ELSE 0
      BY <1>1, <1>2, Zenon DEF ClosingAt
  <2> QED
      BY <1>2, <2>1, <2>2, FinishFacts, Zenon
<1> HIDE DEF c
<1>4. /\ comp \in [Slots -> Completions] /\ b \in [Slots -> Completions] /\ b[s] = c
      /\ \A t \in Slots \ {s} : b[t] = comp[t]
    BY <1>2, <1>3 DEF TypeOK
<1>5. /\ sole \in SUBSET Slots /\ sole \subseteq {s} /\ sole \cap Range(pool) = {}
      /\ s \in sole => ~HeldByScope(s)
    BY <1>2
<1> HIDE DEF b, sole
<1>6. /\ pool' \in Seq(Slots) /\ Len(pool') <= MaxPool
      /\ IsInjective(pool') /\ Range(pool') \subseteq Range(pool) \cup sole
      /\ comp' \in [Slots -> Completions]
      /\ \A t \in Slots \ sole : comp'[t] = b[t]
      /\ \A t \in sole :
            /\ comp'[t].kind = None /\ comp'[t].state = "Terminated"
            /\ ~b[t].fd => ~comp'[t].fd /\ comp'[t].closes = b[t].closes
    BY <1>1, <1>4, <1>5, ReturnFacts, Zenon DEF PooledIsUnshared
<1>7. /\ \A t \in Slots \ {s} : comp'[t] = comp[t]
      /\ comp'[s].state = "Terminated" /\ ~comp'[s].fd /\ comp'[s].closes = 1
    BY <1>2, <1>3, <1>4, <1>5, <1>6
<1>8. /\ sq' \in [Rings -> Seq(SqEntries)] /\ in_flight' \in [Rings -> Nat]
      /\ Located' /\ Canceling' /\ InFlightCounts'
      /\ \A t \in Slots : Outstanding(t)' <=> Outstanding(t)
      /\ \A t \in Slots : Answered(t, "done")' <=> Answered(t, "done")
  <2>1. \A t \in Slots :
           /\ comp[t].state = "Submitted" =>
                 /\ comp'[t].state = "Submitted" /\ comp'[t].kind = comp[t].kind
                 /\ comp[t].canceled => comp'[t].canceled
                 /\ t \in {} => comp'[t].canceled
           /\ comp[t].state # "Submitted" =>
                 /\ comp'[t].state # "Submitted"
                 /\ comp'[t].kind = None => comp'[t].state = "Terminated"
      BY <1>1, <1>2, <1>7, Zenon DEF Located
  <2>2. UNCHANGED <<cq, kernel>> /\ UNCHANGED <<sq, in_flight>> /\ {} \in SUBSET Slots
      BY <1>1, ZenonT(30)
  <2> QED
      BY <1>6, <2>1, <2>2, QueueStep, Zenon
<1>9. /\ handle[f] = s /\ handle' = [handle EXCEPT ![f] = None]
      /\ UNCHANGED <<captured, started, given_up, cq, kernel>> /\ thread' = User
    BY <1>0, <1>1, Zenon DEF InUser
<1>10. /\ Range(pool') \subseteq Range(pool) \cup {s}
       /\ s \in Range(pool') => ~HeldByScope(s) /\ ~Outstanding(s)
    BY <1>2, <1>5, <1>6, Zenon
<1>11. is_done(comp'[s]) /\ comp'[s].state # "Idle" /\ comp'[s].state # "Submitted"
    BY <1>7 DEF is_done
<1>12. /\ is_done(comp'[s]) \/ ((comp[s].canceled => comp'[s].canceled) /\ ~is_done(comp[s]))
       /\ comp'[s].state = "Submitted" =>
             ~comp'[s].kind.needs_drop /\ comp'[s].kind.resources = "Owned"
    BY <1>11, Zenon
<1> HIDE DEF IInv
<1> QED
    BY <1>2, <1>6, <1>7, <1>8, <1>9, <1>10, <1>11, <1>12, ReleaseStep, Zenon

\* The future is gone once nothing that it lends is in use: c is its completion as
\* the drop has left it.
LEMMA DroppedKeeps ==
    ASSUME Counting, IInv, NEW f \in Futures, NEW s \in Slots, handle[f] = s, NEW c,
           \/ c = comp[s] /\ comp[s].state # "Idle" /\ UNCHANGED <<sq, in_flight>>
           \/ c = cancel(comp[s]) /\ SubmitCancels({s}),
           ~pending_io_with_borrowed_resources(c), Dropped(f, c), thread' = User
    PROVE  IInv'
<1> USE DEF IInv
<1> DEFINE e == [finish_close(c, c.result) EXCEPT !.state = "Terminated"]
           d == IF c.state # "Completed" THEN c ELSE e
           n == IF HeldByScope(s) \/ Outstanding(s) THEN d ELSE free(d)
<1>1. /\ comp' = [comp EXCEPT ![s] = n] /\ handle' = [handle EXCEPT ![f] = None]
      /\ UNCHANGED <<pool, captured, started, given_up, cq, kernel>>
    BY DEF Dropped
<1>2. /\ s \notin Range(pool) /\ comp[s] \in Completions /\ ClosingAt(s)
      /\ comp[s].state # "Submitted" => ~Outstanding(s) /\ ~Answered(s, "done")
      /\ comp[s].state = "Submitted" <=> Outstanding(s)
  <2>1. s # None
      BY NoneAssumption, SMTT(30)
  <2> QED
      BY <2>1, HandleFacts, ZenonT(30) DEF Located
<1>3. /\ c \in Completions /\ c.kind = comp[s].kind
      /\ c.fd = comp[s].fd /\ c.closes = comp[s].closes
      /\ comp[s].canceled => c.canceled
      /\ c.state = IF comp[s].state = "Idle" THEN "Completed" ELSE comp[s].state
      /\ c.result = IF comp[s].state = "Idle" THEN "canceled" ELSE comp[s].result
    BY <1>2, CancelFacts, Zenon
<1>4. c.fd => /\ c.state # "Terminated" /\ c.kind.resources = "CloseFd"
              /\ c.state = "Completed" =>
                    /\ c.result \in {"done", "canceled"}
                    /\ c.closes = IF c.result = "done" THEN 1 ELSE 0
  <2>1. CASE comp[s].state = "Idle"
      BY <1>2, <1>3, <2>1, Zenon DEF ClosingAt
  <2>2. CASE comp[s].state # "Idle"
      BY <1>2, <1>3, <2>2, Zenon DEF ClosingAt
  <2> QED
      BY <2>1, <2>2
<1>5. ~c.fd => c.closes = 1
    BY <1>2, <1>3, ZenonT(30) DEF ClosingAt
<1>6. c.state \in {"Submitted", "Completed", "Terminated"}
    BY <1>2, <1>3, Zenon DEF Completions
<1>7. c.state = "Submitted" => ~c.kind.needs_drop /\ c.kind.resources = "Owned" /\ ~c.fd
  <2>1. ASSUME c.state = "Submitted"
        PROVE  ~c.kind.needs_drop /\ c.kind.resources = "Owned"
    <3>1. c.kind # None
        BY <1>3, <2>1, Zenon DEF Located
    <3>2. c.kind \in RequestKinds
        BY Zenon, <1>3, <3>1 DEF Completions
    <3>3. c.kind.resources \in {"None", "CloseFd", "Owned"}
        BY <3>2 DEF RequestKinds
    <3> QED
        BY <2>1, <3>3 DEF pending_io_with_borrowed_resources
  <2> QED
      BY <1>4, <2>1, Zenon
<1>8. c.state = "Completed" =>
         /\ e \in Completions /\ e.kind = c.kind /\ e.state = "Terminated"
         /\ e.canceled = c.canceled /\ ~e.fd /\ e.closes = 1
    BY <1>3, <1>4, <1>5, FinishFacts, Zenon
<1> HIDE DEF e
<1>9. /\ d \in Completions /\ d.kind = c.kind /\ ~d.fd /\ d.closes = 1
      /\ d.state = IF c.state = "Submitted" THEN "Submitted" ELSE "Terminated"
      /\ c.canceled => d.canceled
  <2>1. CASE c.state = "Completed"
      BY <1>8, <2>1, Zenon
  <2>2. CASE c.state = "Submitted"
      BY <1>3, <1>5, <1>7, <2>2, Zenon
  <2>3. CASE c.state = "Terminated"
      BY <1>3, <1>4, <1>5, <2>3
  <2> QED
      BY <1>6, <2>1, <2>2, <2>3, Zenon
<1> HIDE DEF d
<1>10. /\ n \in Completions /\ ~n.fd /\ n.closes = 1
       /\ n.state = IF c.state = "Submitted" THEN "Submitted" ELSE "Terminated"
       /\ c.state = "Submitted" => n = d
  <2>1. c.state = "Submitted" => Outstanding(s)
      BY <1>2, <1>3, Zenon
  <2>2. /\ free(d) \in Completions /\ free(d).state = "Terminated"
        /\ free(d).fd = FALSE /\ free(d).closes = 1
    <3>1. free(d).closes = IF d.fd THEN d.closes + 1 ELSE d.closes
        BY <1>9, CompletionFacts, Zenon
    <3>2. free(d).closes = 1
        BY <1>9, <3>1, Zenon
    <3> QED
        BY <1>9, <3>2, CompletionFacts, Zenon
  <2>3. CASE HeldByScope(s) \/ Outstanding(s)
      BY <1>9, <2>3, Zenon
  <2>4. CASE ~(HeldByScope(s) \/ Outstanding(s))
    <3>1. n = free(d)
        BY <2>4
    <3>2. ~n.fd
        BY <2>2, <3>1, Zenon
    <3> QED
        BY <2>1, <2>2, <2>4, <3>1, <3>2, Zenon
  <2> QED
      BY <2>3, <2>4, Zenon
<1> HIDE DEF n
<1>11. /\ comp' \in [Slots -> Completions] /\ comp'[s] = n
       /\ \A t \in Slots \ {s} : comp'[t] = comp[t]
    BY <1>1, <1>10, Zenon DEF TypeOK
<1>12. c.state = "Submitted" <=> comp[s].state = "Submitted"
    BY <1>3
<1>13. /\ sq' \in [Rings -> Seq(SqEntries)] /\ in_flight' \in [Rings -> Nat]
       /\ Located' /\ Canceling' /\ InFlightCounts'
       /\ \A t \in Slots : Outstanding(t)' <=> Outstanding(t)
       /\ \A t \in Slots : Answered(t, "done")' <=> Answered(t, "done")
  <2>1. \A t \in Slots :
           /\ comp[t].state = "Submitted" =>
                 /\ comp'[t].state = "Submitted" /\ comp'[t].kind = comp[t].kind
                 /\ comp[t].canceled => comp'[t].canceled
           /\ comp[t].state # "Submitted" =>
                 /\ comp'[t].state # "Submitted"
                 /\ comp'[t].kind = None => comp'[t].state = "Terminated"
    <3>1. \A t \in Slots \ {s} : comp'[t] = comp[t] /\
             (comp[t].kind = None => comp[t].state = "Terminated")
        BY <1>11, Zenon DEF Located
    <3>2. comp[s].state = "Submitted" =>
             /\ comp'[s].state = "Submitted" /\ comp'[s].kind = comp[s].kind
             /\ comp[s].canceled => comp'[s].canceled
        BY <1>3, <1>9, <1>10, <1>11, <1>12, Zenon
    <3>3. comp[s].state # "Submitted" => comp'[s].state = "Terminated"
        BY Zenon, <1>10, <1>11, <1>12
    <3> QED
        BY <3>1, <3>2, <3>3, ZenonT(30)
  <2>2. UNCHANGED <<cq, kernel>>
      BY <1>1
  <2>3. CASE UNCHANGED <<sq, in_flight>>
    <3>1. {} \in SUBSET Slots /\ \A t \in {} : comp'[t].canceled
        OBVIOUS
    <3> QED
        BY <1>11, <2>1, <2>2, <2>3, <3>1, QueueStep, Zenon
  <2>4. CASE c = cancel(comp[s]) /\ SubmitCancels({s})
    <3>1. comp[s].state = "Submitted" => comp'[s].canceled
        BY <1>2, <1>9, <1>10, <1>11, <1>12, <2>4, CancelFacts, Zenon
    <3>2. {s} \in SUBSET Slots /\
          \A t \in {s} : comp[t].state = "Submitted" => comp'[t].canceled
        BY <3>1
    <3> QED
        BY <1>11, <2>1, <2>2, <2>4, <3>2, QueueStep, Zenon
  <2> QED
      BY <2>3, <2>4, Zenon
<1>14. /\ pool' \in Seq(Slots) /\ Len(pool') <= MaxPool /\ IsInjective(pool')
       /\ Range(pool') \subseteq Range(pool) \cup {s}
       /\ s \in Range(pool') => ~HeldByScope(s) /\ ~Outstanding(s)
    BY <1>1, <1>2, Zenon DEF TypeOK, PooledIsUnshared
<1>15. /\ ~comp'[s].fd /\ comp'[s].closes = 1 /\ comp'[s].state # "Idle"
       /\ comp'[s].state = "Submitted" =>
             ~comp'[s].kind.needs_drop /\ comp'[s].kind.resources = "Owned"
    BY <1>7, <1>9, <1>10, <1>11, Zenon
<1>16. is_done(comp'[s]) \/ ((comp[s].canceled => comp'[s].canceled) /\ ~is_done(comp[s]))
    BY Zenon, <1>3, <1>9, <1>10, <1>11, <1>12 DEF is_done
<1>17. UNCHANGED <<captured, started, given_up, cq, kernel>>
    BY <1>1
<1> HIDE DEF IInv
<1> QED
    BY <1>1, <1>11, <1>13, <1>14, <1>15, <1>16, <1>17, ReleaseStep, Zenon

\* The completions of S are cancelled, which makes c of all of them, and those of X
\* are given up by the scopes, which were their last owners.
Given(S, X, c) ==
    /\ SubmitCancels(S) \/ (S = {} /\ UNCHANGED <<sq, in_flight>>)
    /\ c \in [Slots -> Completions]
    /\ \A s \in Slots : c[s] = IF s \in S THEN cancel(comp[s]) ELSE comp[s]
    /\ comp' \in [Slots -> Completions]
    /\ \A s \in Slots \ X : comp'[s] = c[s]
    /\ \A s \in X : /\ comp'[s].kind = None /\ comp'[s].state = "Terminated"
                    /\ ~c[s].fd => ~comp'[s].fd /\ comp'[s].closes = c[s].closes
                    /\ ~HeldByFuture(s) /\ ~Outstanding(s) /\ ~HeldByScope(s)'
    /\ pool' \in Seq(Slots) /\ Len(pool') <= MaxPool /\ IsInjective(pool')
    /\ Range(pool') \subseteq Range(pool) \cup X

\* The scopes track nothing new, and what they no longer track is over or given up.
ScopesShrink ==
    /\ captured' \in [Scopes -> {None} \cup SUBSET Slots]
    /\ started' \in [Scopes -> SUBSET Slots] /\ given_up' \in [Scopes -> SUBSET Slots]
    /\ \A d \in Scopes :
          IF captured'[d] = None THEN started'[d] = {}
          ELSE \/ captured'[d] = {} /\ started'[d] = {}
               \/ /\ captured[d] # None /\ captured'[d] \subseteq captured[d]
                  /\ started'[d] = started[d] /\ given_up[d] \subseteq given_up'[d]
                  /\ \A s \in captured[d] \ captured'[d] :
                        is_done(comp'[s]) \/ s \in given_up'[d]

LEMMA CancelStep ==
    ASSUME Counting, IInv, NEW S \in SUBSET Slots, NEW X \in SUBSET Slots, NEW c,
           Given(S, X, c), ScopesShrink, UNCHANGED <<handle, cq, kernel>>,
           ThreadType', ThreadHolds'
    PROVE  IInv'
<1> USE DEF IInv, Given, ScopesShrink, ThreadType
<1>1. comp \in [Slots -> Completions]
    BY Zenon DEF TypeOK
<1>2. \A s \in Slots :
         /\ c[s].kind = comp[s].kind /\ c[s].fd = comp[s].fd /\ c[s].closes = comp[s].closes
         /\ comp[s].canceled => c[s].canceled
         /\ c[s].state = comp[s].state \/ (comp[s].state = "Idle" /\ c[s].state = "Completed"
                                            /\ c[s].result = "canceled")
         /\ c[s].result = comp[s].result \/ comp[s].state = "Idle"
         /\ comp[s].state = "Submitted" /\ s \in S => c[s].canceled
  <2> SUFFICES ASSUME NEW s \in Slots
               PROVE  /\ c[s].kind = comp[s].kind /\ c[s].fd = comp[s].fd
                      /\ c[s].closes = comp[s].closes
                      /\ comp[s].canceled => c[s].canceled
                      /\ c[s].state = comp[s].state \/ (comp[s].state = "Idle"
                            /\ c[s].state = "Completed" /\ c[s].result = "canceled")
                      /\ c[s].result = comp[s].result \/ comp[s].state = "Idle"
                      /\ comp[s].state = "Submitted" /\ s \in S => c[s].canceled
      BY Zenon
  <2>1. CASE s \in S
    <3>1. comp[s] \in Completions /\ c[s] = cancel(comp[s])
        BY <1>1, <2>1, Zenon
    <3> HIDE DEF IInv, Given, ScopesShrink, ThreadType
    <3> QED
        BY <3>1, CancelFacts
  <2>2. CASE s \notin S
      BY <2>2, Zenon
  <2> QED
      BY <2>1, <2>2, Zenon
<1>3. \A s \in X : comp[s].state # "Submitted"
    BY Zenon DEF Located
<1>4. /\ sq' \in [Rings -> Seq(SqEntries)] /\ in_flight' \in [Rings -> Nat]
      /\ Located' /\ Canceling' /\ InFlightCounts'
      /\ \A t \in Slots : Outstanding(t)' <=> Outstanding(t)
      /\ \A t \in Slots : Answered(t, "done")' <=> Answered(t, "done")
  <2>1. ASSUME NEW t \in Slots
        PROVE  /\ comp[t].state = "Submitted" =>
                     /\ comp'[t].state = "Submitted" /\ comp'[t].kind = comp[t].kind
                     /\ comp[t].canceled => comp'[t].canceled
                     /\ t \in S => comp'[t].canceled
               /\ comp[t].state # "Submitted" =>
                     /\ comp'[t].state # "Submitted"
                     /\ comp'[t].kind = None => comp'[t].state = "Terminated"
    <3>1. CASE t \in X
        BY <1>3, <3>1, Zenon
    <3>2. CASE t \notin X
      <4>1. comp'[t] = c[t] /\ (comp[t].kind = None => comp[t].state = "Terminated")
          BY <3>2, Zenon DEF Located
      <4> QED
        <5> HIDE DEF IInv, Given, ScopesShrink, ThreadType
        <5> QED
            BY <1>2, <4>1
    <3> QED
        BY <3>1, <3>2, Zenon
  <2>2. SubmitCancels(S) \/ UNCHANGED <<sq, in_flight>>
      BY Zenon
  <2>3. UNCHANGED <<cq, kernel>>
      BY Zenon
  <2> QED
      BY <2>1, <2>2, <2>3, QueueStep, Zenon
<1>5. \A t : HeldByFuture(t)' <=> HeldByFuture(t)
    BY Zenon DEF HeldByFuture
<1>6. \A t \in Slots : HeldByScope(t)' => HeldByScope(t)
    BY Zenon DEF HeldByScope
<1>7. TypeOK'
    BY <1>4, Zenon DEF TypeOK, SqEntries
<1>8. Owners'
  <2>1. \A f, g \in Futures : handle'[f] = handle'[g] /\ handle'[f] # None => f = g
      BY Zenon DEF Owners
  <2>2. \A d, e \in Scopes : captured'[d] # None /\ captured'[e] # None /\ d # e
           => captured'[d] \cap captured'[e] = {}
      BY Zenon DEF Owners
  <2> QED
      BY <2>1, <2>2, Zenon DEF Owners
<1>9. PooledIsUnshared'
  <2>1. \A t \in Range(pool) : t \in Slots /\ ~Held(t)
      BY PooledSlots, Zenon
  <2> QED
      BY <1>4, <1>5, <1>6, <2>1, Zenon DEF PooledIsUnshared, Held
<1>10. BorrowedOutlivesRequest'
  <2> SUFFICES ASSUME NEW t \in Slots, Outstanding(t)',
                      comp'[t].kind.needs_drop \/ comp'[t].kind.resources # "Owned"
               PROVE  HeldByFuture(t)'
      BY Zenon DEF BorrowedOutlivesRequest
  <2>1. t \notin X
      BY <1>4, Zenon
  <2>2. comp'[t].kind = comp[t].kind /\ Outstanding(t)
    <3>1. comp'[t] = c[t] /\ c[t].kind = comp[t].kind
        BY <1>2, <2>1, Zenon
    <3> QED
        BY <1>4, <3>1, Zenon
  <2>3. HeldByFuture(t)
      BY <2>2, Zenon DEF BorrowedOutlivesRequest
  <2> QED
      BY <1>5, <2>3, Zenon
<1>11. Closing'
  <2> SUFFICES ASSUME NEW t \in Slots
               PROVE  ClosingAt(t)'
      BY Zenon DEF Closing
  <2>1. ClosingAt(t) /\ (comp[t].state # "Submitted" => ~Answered(t, "done"))
      BY PlaceFacts, Zenon DEF Closing, Located, Outstanding
  <2>2. CASE t \in X
    <3>1. ~comp[t].fd /\ comp[t].closes = 1
        BY <2>1, <2>2, Zenon DEF ClosingAt
    <3>2. ~comp'[t].fd /\ comp'[t].closes = 1
      <4>1. c[t].fd = comp[t].fd /\ c[t].closes = comp[t].closes
          BY <1>2, Zenon
      <4>2. c[t].fd <=> comp[t].fd
          BY <4>1, Zenon
      <4>3. ~c[t].fd => ~comp'[t].fd /\ comp'[t].closes = c[t].closes
          BY <2>2, Zenon
      <4> QED
          BY <3>1, <4>1, <4>2, <4>3, Zenon
    <3> QED
        BY <2>2, <3>2, Zenon DEF ClosingAt
  <2>3. CASE t \notin X
    <3>1. comp'[t] = c[t]
        BY <2>3, Zenon
    <3>2. comp'[t].kind = comp[t].kind /\ comp'[t].closes = comp[t].closes
      <4> HIDE DEF IInv, Given, ScopesShrink, ThreadType
      <4> QED
          BY <1>2, <3>1
    <3>3. comp'[t].fd <=> comp[t].fd
      <4>1. comp'[t].fd = comp[t].fd
        <5> HIDE DEF IInv, Given, ScopesShrink, ThreadType
        <5> QED
            BY <1>2, <3>1
      <4> QED
          BY <4>1, Zenon
    <3>4. CASE comp'[t].state = comp[t].state
      <4>1. comp'[t].result = comp[t].result \/ comp[t].state = "Idle"
        <5> HIDE DEF IInv, Given, ScopesShrink, ThreadType
        <5> QED
            BY <1>2, <3>1
      <4>2. /\ Answered(t, "done")' <=> Answered(t, "done")
            /\ HeldByFuture(t)' <=> HeldByFuture(t)
          BY <1>4, <1>5, Zenon
      <4> HIDE DEF IInv, Given, ScopesShrink, ThreadType
      <4> QED
          BY <2>1, <3>2, <3>3, <3>4, <4>1, <4>2, Zenon DEF ClosingAt
    <3>5. CASE comp[t].state = "Idle" /\ comp'[t].state = "Completed"
               /\ comp'[t].result = "canceled"
        BY <1>4, <1>5, <2>1, <3>2, <3>3, <3>5, Zenon DEF ClosingAt
    <3> QED
      <4> HIDE DEF IInv, Given, ScopesShrink, ThreadType
      <4> QED
          BY <1>2, <3>1, <3>4, <3>5
  <2> QED
      BY <2>2, <2>3, Zenon
<1>12. ScopeTracks'
  <2> SUFFICES ASSUME NEW d \in Scopes, captured'[d] # None,
                      NEW s \in started'[d] \ given_up'[d]
               PROVE  s \in captured'[d] \/ is_done(comp'[s])
      BY Zenon DEF ScopeTracks
  <2>1. /\ captured[d] # None /\ captured'[d] \subseteq captured[d]
        /\ s \in started[d] \ given_up[d] /\ s \in Slots
        /\ \A t \in captured[d] \ captured'[d] : is_done(comp'[t]) \/ t \in given_up'[d]
      BY Zenon
  <2>2. s \in captured[d] \/ is_done(comp[s])
      BY <2>1, Zenon DEF ScopeTracks
  <2>3. CASE s \in X
      BY <2>3, Zenon DEF is_done
  <2>4. CASE s \notin X
    <3>1. comp'[s] = c[s]
        BY <2>1, <2>4, Zenon
    <3>2. is_done(comp[s]) => is_done(comp'[s])
      <4>1. \/ c[s].state = comp[s].state
            \/ comp[s].state = "Idle" /\ c[s].state = "Completed"
          BY <1>2, <2>1, Zenon
      <4> HIDE DEF IInv, Given, ScopesShrink, ThreadType
      <4> QED
          BY <3>1, <4>1 DEF is_done
    <3> QED
        BY <1>2, <2>1, <2>2, <3>1, <3>2, Zenon
  <2> QED
      BY <2>3, <2>4, Zenon
<1> QED
    BY <1>4, <1>7, <1>8, <1>9, <1>10, <1>11, <1>12, Zenon

\* A future cancels its request and goes on, or waits for the kernel.
LEMMA FutureCancels ==
    ASSUME Counting, IInv, NEW s \in Slots, SubmitCancels({s}),
           comp' = [comp EXCEPT ![s] = cancel(comp[s])],
           UNCHANGED <<handle, pool, captured, started, given_up, cq, kernel>>,
           ThreadType', ThreadHolds'
    PROVE  IInv'
<1>1. /\ comp \in [Slots -> Completions] /\ pool \in Seq(Slots) /\ Len(pool) <= MaxPool
      /\ captured \in [Scopes -> {None} \cup SUBSET Slots]
      /\ started \in [Scopes -> SUBSET Slots] /\ given_up \in [Scopes -> SUBSET Slots]
    BY Zenon DEF IInv, TypeOK
<1>2. cancel(comp[s]) \in Completions
    BY Zenon, <1>1, CancelFacts
<1>3. /\ comp' \in [Slots -> Completions]
      /\ \A t \in Slots : comp'[t] = IF t \in {s} THEN cancel(comp[t]) ELSE comp[t]
    BY <1>1, <1>2
<1>4. Given({s}, {}, comp')
    BY <1>1, <1>3, Zenon DEF Given, IInv, PooledIsUnshared
<1>5. ScopesShrink
    BY <1>1 DEF ScopesShrink, IInv, ScopeTracks
<1>6. {s} \in SUBSET Slots /\ {} \in SUBSET Slots /\ UNCHANGED <<handle, cq, kernel>>
    OBVIOUS
<1> QED
    BY <1>4, <1>5, <1>6, CancelStep

LEMMA CancelKeeps ==
    ASSUME Counting, IInv, NEW f \in Futures, Cancel(f)
    PROVE  IInv'
<1>0. PICK s : s = handle[f]
    BY Zenon
<1>1. /\ thread' = User /\ thread = User /\ s # None /\ SubmitCancels({s})
      /\ comp' = [comp EXCEPT ![s] = cancel(comp[s])]
      /\ UNCHANGED <<handle, pool, captured, started, given_up, cq, kernel, thread>>
    BY Zenon, <1>0 DEF Cancel, InUser
<1>2. s \in Slots
    BY <1>0, <1>1, HandleFacts, Zenon
<1>3. ThreadType'
    BY Zenon, <1>1 DEF ThreadType, IInv, TypeOK
<1>4. ThreadHolds'
    BY Zenon, <1>1, UserHolds
<1> QED
    BY <1>1, <1>2, <1>3, <1>4, FutureCancels, Zenon

LEMMA DropKeeps ==
    ASSUME Counting, IInv, NEW f \in Futures, Drop(f)
    PROVE  IInv'
<1>0. PICK s : s = handle[f]
    OBVIOUS
<1>1. InUser /\ s # None /\ SubmitCancels({s})
    BY Zenon, <1>0 DEF Drop
<1>2. s \in Slots /\ comp[s] \in Completions
    BY <1>0, <1>1, HandleFacts
<1>3. CASE pending_io_with_borrowed_resources(cancel(comp[s]))
  <2>1. /\ comp' = [comp EXCEPT ![s] = cancel(comp[s])]
        /\ Call({ring_of(s)}, <<"drop", f>>, FALSE)
        /\ UNCHANGED <<handle, pool, captured, started, given_up, cq, kernel>>
      BY <1>0, <1>3, Zenon DEF Drop
  <2>2. thread' = [at |-> "enter", what |-> <<"drop", f>>, rings |-> {ring_of(s)},
                   busy |-> FALSE]
      BY Zenon, <2>1 DEF Call
  <2>3. ThreadType'
    <3>1. ring_of(s) \in Rings
        BY <1>2, PlaceFacts DEF IInv
    <3>2. <<"drop", f>> \in Callers
        BY Zenon DEF Callers
    <3> QED
        BY Zenon, <2>2, <3>1, <3>2 DEF ThreadType
  <2>4. ThreadHolds'
    <3>1. handle'[f] = s /\ comp'[s].state = cancel(comp[s]).state
        BY Zenon, <1>0, <1>2, <2>1 DEF IInv, TypeOK
    <3>2. cancel(comp[s]).state = "Submitted"
        BY Zenon, <1>3 DEF pending_io_with_borrowed_resources
    <3>3. thread'.what = <<"drop", f>>
        BY <2>2
    <3>4. \A g \in Futures : thread'.what = <<"drop", g>> => g = f
        BY <3>3
    <3>5. \A c \in Scopes, w \in {"cancel", "exit", "wait"} : thread'.what # <<w, c>>
        BY <3>3
    <3>6. handle'[f] # None /\ comp'[handle'[f]].state # "Idle"
        BY <1>1, <3>1, <3>2, Zenon
    <3> QED
        BY Zenon, <3>4, <3>5, <3>6 DEF ThreadHolds
  <2> QED
      BY <1>1, <1>2, <2>1, <2>3, <2>4, FutureCancels, Zenon
<1>4. CASE ~pending_io_with_borrowed_resources(cancel(comp[s]))
  <2>1. Dropped(f, cancel(comp[s])) /\ thread' = User
      BY <1>0, <1>1, <1>4 DEF Drop, InUser
  <2>2. PICK c : c = cancel(comp[s])
      OBVIOUS
  <2> QED
      BY <1>0, <1>1, <1>2, <1>4, <2>1, <2>2, DroppedKeeps, Zenon
<1> QED
    BY Zenon, <1>3, <1>4

LEMMA DropResumeKeeps ==
    ASSUME Counting, IInv, NEW f \in Futures, DropResume(f)
    PROVE  IInv'
<1>0. PICK s : s = handle[f]
    OBVIOUS
<1>1. /\ thread.at = "resume" /\ thread.what = <<"drop", f>>
      /\ UNCHANGED <<sq, in_flight>>
    BY Zenon DEF DropResume
<1>2. s # None /\ comp[s].state # "Idle"
    BY Zenon, <1>0, <1>1 DEF IInv, ThreadHolds
<1>3. s \in Slots /\ comp[s] \in Completions
    BY <1>0, <1>2, HandleFacts
<1>4. CASE pending_io_with_borrowed_resources(comp[s])
  <2>1. /\ thread' = [thread EXCEPT !.at = "enter"]
        /\ UNCHANGED <<comp, handle, pool, captured, started, given_up, sq, cq, kernel, in_flight>>
      BY <1>0, <1>1, <1>4 DEF DropResume
  <2>2. ThreadType' /\ thread'.what = thread.what
      BY <2>1, Zenon DEF IInv, TypeOK, ThreadType
  <2>3. ThreadHolds'
      BY <2>1, <2>2 DEF IInv, ThreadHolds
  <2> QED
      BY <2>1, <2>2, <2>3, ThreadStep
<1>5. CASE ~pending_io_with_borrowed_resources(comp[s])
  <2>1. Dropped(f, comp[s]) /\ thread' = User
      BY <1>0, <1>5 DEF DropResume
  <2>2. PICK c : c = comp[s]
      BY Zenon
  <2> QED
      BY <1>0, <1>1, <1>2, <1>3, <1>5, <2>1, <2>2, DroppedKeeps, Zenon
<1> QED
    BY <1>4, <1>5

\* Scope c cancels the requests of S, which makes b of all completions, and gives up
\* all but those of left; those of g are not waited for.
ScopeGives(c, S, left, b, g) ==
    /\ captured[c] # None /\ S \in SUBSET captured[c] /\ left \in SUBSET captured[c]
    /\ b \in [Slots -> Completions]
    /\ \A s \in Slots : b[s] = IF s \in S THEN cancel(comp[s]) ELSE comp[s]
    /\ SubmitCancels(S) \/ (S = {} /\ UNCHANGED <<sq, in_flight>>)
    /\ ScopeReturns(captured[c] \ left, b)
    /\ \A s \in captured[c] \ left :
          is_done(comp[s]) \/ s \in g \/ (s \in S /\ comp[s].state = "Idle")
    /\ g \in SUBSET Slots /\ given_up' = [given_up EXCEPT ![c] = g]
    /\ \/ /\ captured' = [captured EXCEPT ![c] = left]
          /\ given_up[c] \subseteq g /\ UNCHANGED started
       \/ /\ captured' = [captured EXCEPT ![c] = None]
          /\ started' = [started EXCEPT ![c] = {}]

LEMMA ScopeStep ==
    ASSUME Counting, IInv, NEW c \in Scopes, NEW S, NEW left, NEW b, NEW g,
           ScopeGives(c, S, left, b, g), UNCHANGED <<handle, cq, kernel>>, ThreadType', ThreadHolds'
    PROVE  IInv'
<1> USE DEF IInv, ScopeGives
<1>1. /\ comp \in [Slots -> Completions]
      /\ captured \in [Scopes -> {None} \cup SUBSET Slots]
      /\ started \in [Scopes -> SUBSET Slots] /\ given_up \in [Scopes -> SUBSET Slots]
      /\ captured[c] \in SUBSET Slots /\ S \in SUBSET Slots /\ left \in SUBSET Slots
      /\ \A T \in SUBSET Slots : T # None
    BY NoneAssumption, Zenon DEF TypeOK
<1> DEFINE X == {s \in captured[c] \ left : ~HeldByFuture(s) /\ ~Outstanding(s)}
<1>2. X \in SUBSET Slots /\ return_completion(X, b)
    BY <1>1, Zenon DEF ScopeReturns
<1>3. \A s \in X : s \in captured[c] /\ s \notin left /\ ~HeldByFuture(s) /\ ~Outstanding(s)
    BY Zenon
<1> HIDE DEF X
<1>4. X \cap Range(pool) = {}
  <2>1. \A s \in X : HeldByScope(s)
      BY <1>3, Zenon DEF HeldByScope
  <2> QED
      BY <2>1 DEF PooledIsUnshared, Held
<1>5. /\ pool' \in Seq(Slots) /\ Len(pool') <= MaxPool
      /\ IsInjective(pool') /\ Range(pool') \subseteq Range(pool) \cup X
      /\ comp' \in [Slots -> Completions]
      /\ \A s \in Slots \ X : comp'[s] = b[s]
      /\ \A s \in X :
            /\ comp'[s].kind = None /\ comp'[s].state = "Terminated"
            /\ ~b[s].fd => ~comp'[s].fd /\ comp'[s].closes = b[s].closes
  <2>1. TypeOK /\ IsInjective(pool) /\ b \in [Slots -> Completions]
      BY Zenon DEF PooledIsUnshared
  <2> HIDE DEF IInv, ScopeGives
  <2> QED
      BY <1>2, <1>4, <2>1, ReturnFacts, Zenon
<1>6. /\ \A d \in Scopes \ {c} :
            /\ captured'[d] = captured[d] /\ started'[d] = started[d]
            /\ given_up'[d] = given_up[d]
      /\ given_up'[c] = g
      /\ \/ captured'[c] = left /\ started'[c] = started[c] /\ given_up[c] \subseteq g
         \/ captured'[c] = None /\ started'[c] = {}
    BY <1>1
<1>7. \A s \in X : ~HeldByScope(s)'
  <2> SUFFICES ASSUME NEW s \in X, NEW d \in Scopes, captured'[d] # None, s \in captured'[d]
               PROVE  FALSE
      BY DEF HeldByScope
  <2>1. d # c
      BY <1>3, <1>6, Zenon
  <2> QED
      BY <1>3, <1>6, <2>1, Zenon DEF Owners
<1>8. Given(S, X, b)
    BY <1>3, <1>5, <1>7, Zenon DEF Given
<1>9. ASSUME NEW s \in captured[c] \ left, s \notin g
      PROVE  is_done(comp'[s])
  <2>1. CASE s \in X
      BY <1>5, <2>1, Zenon DEF is_done
  <2>2. CASE s \notin X
    <3>1. comp'[s] = b[s] /\ comp[s] \in Completions /\ s \in Slots
        BY <1>1, <1>5, <2>2, Zenon
    <3>2. CASE s \notin S
        BY <1>9, <3>1, <3>2, ZenonT(30)
    <3>3. CASE s \in S
      <4>1. comp'[s] = cancel(comp[s])
          BY <3>1, <3>3, Zenon
      <4>2. is_done(comp[s]) \/ comp[s].state = "Idle"
          BY <1>9, Zenon
      <4> QED
        <5> HIDE DEF IInv, ScopeGives
        <5> QED
            BY <3>1, <4>1, <4>2, CancelFacts, Zenon DEF is_done
    <3> QED
        BY <3>2, <3>3
  <2> QED
      BY <2>1, <2>2, Zenon
<1>10. ScopesShrink
  <2>1. /\ captured' \in [Scopes -> {None} \cup SUBSET Slots]
        /\ started' \in [Scopes -> SUBSET Slots] /\ given_up' \in [Scopes -> SUBSET Slots]
      BY <1>1
  <2>2. ASSUME NEW d \in Scopes \ {c}
        PROVE  IF captured'[d] = None THEN started'[d] = {}
               ELSE /\ captured[d] # None /\ captured'[d] \subseteq captured[d]
                    /\ started'[d] = started[d] /\ given_up[d] \subseteq given_up'[d]
                    /\ \A s \in captured[d] \ captured'[d] :
                          is_done(comp'[s]) \/ s \in given_up'[d]
      BY <1>6, Zenon DEF ScopeTracks
  <2>3. IF captured'[c] = None THEN started'[c] = {}
        ELSE /\ captured[c] # None /\ captured'[c] \subseteq captured[c]
             /\ started'[c] = started[c] /\ given_up[c] \subseteq given_up'[c]
             /\ \A s \in captured[c] \ captured'[c] :
                   is_done(comp'[s]) \/ s \in given_up'[c]
      BY <1>1, <1>6, <1>9, Zenon
  <2> HIDE DEF IInv
  <2> QED
      BY <2>1, <2>2, <2>3, Zenon DEF ScopesShrink
<1> HIDE DEF IInv, ScopeGives
<1> QED
    BY <1>1, <1>2, <1>8, <1>10, CancelStep

\* The thread calls submit_and_complete_io for a scope.
LEMMA ScopeCalls ==
    ASSUME NEW c \in Scopes, NEW w \in {"cancel", "exit", "wait"},
           Call(Rings, <<w, c>>, TRUE), captured'[c] # None
    PROVE  ThreadType' /\ ThreadHolds'
<1>1. thread' = [at |-> "enter", what |-> <<w, c>>, rings |-> Rings, busy |-> TRUE]
    BY Zenon DEF Call
<1>2. <<w, c>> \in Callers
    BY Zenon DEF Callers
<1>3. ThreadType'
    BY Zenon, <1>1, <1>2 DEF ThreadType
<1>4. thread'.what = <<w, c>>
    BY Zenon, <1>1
<1>5. \A f \in Futures : thread'.what # <<"drop", f>>
    BY <1>4
<1>6. \A d \in Scopes, v \in {"cancel", "exit", "wait"} : thread'.what = <<v, d>> => d = c
    BY <1>4
<1> QED
    BY Zenon, <1>3, <1>5, <1>6 DEF ThreadHolds

LEMMA UserType ==
    ASSUME thread' = User
    PROVE  ThreadType'
    BY Zenon DEF ThreadType, User, Callers

\* Nothing but the lists of the scopes changes.
LEMMA ListStep ==
    ASSUME Counting, IInv, ScopesShrink, UNCHANGED <<comp, handle, pool, sq, cq, kernel, in_flight>>,
           ThreadType', ThreadHolds'
    PROVE  IInv'
<1>1. Given({}, {}, comp)
    BY Zenon DEF Given, IInv, TypeOK, PooledIsUnshared
<1>2. {} \in SUBSET Slots /\ UNCHANGED <<handle, cq, kernel>>
    BY Zenon
<1> QED
    BY <1>1, <1>2, CancelStep

LEMMA IoScopeKeeps ==
    ASSUME Counting, IInv, NEW c \in Scopes, io_scope(c)
    PROVE  IInv'
<1>1. /\ thread' = User /\ captured[c] = None /\ captured' = [captured EXCEPT ![c] = {}]
      /\ UNCHANGED <<comp, handle, pool, started, given_up, sq, cq, kernel, in_flight>>
    BY Zenon DEF io_scope, InUser
<1>2. /\ captured \in [Scopes -> {None} \cup SUBSET Slots]
      /\ started \in [Scopes -> SUBSET Slots] /\ given_up \in [Scopes -> SUBSET Slots]
      /\ {} \in SUBSET Slots
    BY Zenon DEF IInv, TypeOK
<1>3. ScopesShrink
  <2>1. started[c] = {}
      BY <1>1, Zenon DEF IInv, ScopeTracks
  <2>2. \A d \in Scopes : captured[d] = None => started[d] = {}
      BY Zenon DEF IInv, ScopeTracks
  <2>3. /\ captured' \in [Scopes -> {None} \cup SUBSET Slots] /\ captured'[c] = {}
        /\ \A d \in Scopes \ {c} : captured'[d] = captured[d]
        /\ started' \in [Scopes -> SUBSET Slots] /\ started' = started
        /\ given_up' \in [Scopes -> SUBSET Slots] /\ given_up' = given_up
      BY Zenon, <1>1, <1>2
  <2> QED
      BY <2>1, <2>2, <2>3 DEF ScopesShrink
<1> QED
    BY <1>1, <1>3, ListStep, UserHolds, UserType, Zenon

LEMMA IoScopeCancelKeeps ==
    ASSUME IInv, NEW c \in Scopes, io_scope_cancel(c)
    PROVE  IInv'
<1>1. /\ captured[c] # None /\ Call(Rings, <<"cancel", c>>, TRUE)
      /\ UNCHANGED <<comp, handle, pool, captured, started, given_up, sq, cq, kernel, in_flight>>
    BY Zenon DEF io_scope_cancel
<1>2. ThreadType' /\ ThreadHolds'
    BY <1>1, ScopeCalls, Zenon
<1> QED
    BY <1>1, <1>2, ThreadStep

LEMMA ScopeEndKeeps ==
    ASSUME Counting, IInv, NEW c \in Scopes, ScopeEnd(c)
    PROVE  IInv'
<1>1. captured[c] # None /\ thread = User
      /\ UNCHANGED <<comp, handle, pool, sq, cq, kernel, in_flight>>
    BY Zenon DEF ScopeEnd, InUser
<1>2. CASE Call(Rings, <<"exit", c>>, TRUE) /\ UNCHANGED <<captured, started, given_up>>
  <2>1. ThreadType' /\ ThreadHolds'
      BY <1>1, <1>2, ScopeCalls, Zenon
  <2> QED
      BY <1>1, <1>2, <2>1, ThreadStep
<1>3. CASE /\ captured' = [captured EXCEPT ![c] = None]
           /\ started' = [started EXCEPT ![c] = {}]
           /\ given_up' = [given_up EXCEPT ![c] = {}] /\ UNCHANGED thread
  <2>1. /\ captured \in [Scopes -> {None} \cup SUBSET Slots]
        /\ started \in [Scopes -> SUBSET Slots] /\ given_up \in [Scopes -> SUBSET Slots]
        /\ {} \in SUBSET Slots
      BY DEF IInv, TypeOK
  <2>2. \A d \in Scopes : captured[d] = None => started[d] = {}
      BY DEF IInv, ScopeTracks
  <2>3. /\ captured' \in [Scopes -> {None} \cup SUBSET Slots] /\ captured'[c] = None
        /\ started' \in [Scopes -> SUBSET Slots] /\ started'[c] = {}
        /\ given_up' \in [Scopes -> SUBSET Slots]
        /\ \A d \in Scopes \ {c} : /\ captured'[d] = captured[d] /\ started'[d] = started[d]
                                  /\ given_up'[d] = given_up[d]
      BY <1>3, <2>1, Zenon
  <2>4. ScopesShrink
      BY Zenon, <2>2, <2>3 DEF ScopesShrink
  <2>5. thread' = User
      BY <1>1, <1>3
  <2> QED
      BY Zenon, <1>1, <2>4, <2>5, ListStep, UserHolds, UserType
<1> QED
    BY <1>2, <1>3, Zenon DEF ScopeEnd

LEMMA CancelScopeKeeps ==
    ASSUME Counting, IInv, NEW c \in Scopes, cancel_io_scope_completions(c)
    PROVE  IInv'
<1>0. PICK S : S = captured[c]
    OBVIOUS
<1> DEFINE b == [s \in Slots |-> IF s \in S THEN cancel(comp[s]) ELSE comp[s]]
           g == given_up[c] \cup {s \in S : comp[s].state = "Submitted"}
<1>1. /\ thread.what = <<"cancel", c>> /\ SubmitCancels(S) /\ ScopeReturns(S, b)
      /\ captured' = [captured EXCEPT ![c] = {}] /\ UNCHANGED started
      /\ given_up' = [given_up EXCEPT ![c] = g]
      /\ Call(Rings, User.what, TRUE) /\ UNCHANGED <<handle, cq, kernel>>
    BY <1>0, Zenon DEF cancel_io_scope_completions
<1>2. captured[c] # None
    BY <1>1, Zenon DEF IInv, ThreadHolds
<1>3. comp \in [Slots -> Completions] /\ S \in SUBSET Slots /\ given_up[c] \in SUBSET Slots
    BY <1>0, <1>2, Zenon DEF IInv, TypeOK
<1>4. b \in [Slots -> Completions]
  <2>1. \A s \in Slots : cancel(comp[s]) \in Completions
      BY Zenon, <1>3, CancelFacts
  <2> QED
      BY Zenon, <1>3, <2>1
<1>5. \A s \in Slots : b[s] = IF s \in S THEN cancel(comp[s]) ELSE comp[s]
    BY Zenon
<1> HIDE DEF b
<1>6. /\ S \in SUBSET captured[c] /\ {} \in SUBSET captured[c]
      /\ ScopeReturns(captured[c] \ {}, b)
      /\ \A s \in captured[c] \ {} :
            is_done(comp[s]) \/ s \in g \/ (s \in S /\ comp[s].state = "Idle")
  <2>1. S \ {} = S
      BY Zenon
  <2>2. \A s \in S : comp[s].state \in {"Idle", "Submitted", "Completed", "Terminated"}
      BY <1>3 DEF Completions
  <2> QED
      BY <1>0, <1>1, <2>1, <2>2, Zenon DEF is_done
<1>11. g \in SUBSET Slots /\ given_up[c] \subseteq g
    BY <1>3, Zenon
<1> HIDE DEF g
<1>7. thread' = [at |-> "enter", what |-> User.what, rings |-> Rings, busy |-> TRUE]
    BY Zenon, <1>1 DEF Call
<1>8. ThreadType'
  <2>1. User.what \in Callers
      BY Zenon DEF Callers
  <2> QED
      BY <1>7, <2>1 DEF ThreadType
<1>9. ThreadHolds'
  <2>1. thread'.what = <<None, None>>
      BY <1>7 DEF User
  <2> QED
      BY <2>1, NoneAssumption DEF ThreadHolds
<1>10. ScopeGives(c, S, {}, b, g)
    BY <1>1, <1>2, <1>4, <1>5, <1>6, <1>11, Zenon DEF ScopeGives
<1> QED
    BY <1>1, <1>8, <1>9, <1>10, ScopeStep, Zenon

\* The scope waits for what is left or is over.
LEMMA ScopeWaitsForFacts ==
    ASSUME TypeOK, NEW c \in Scopes, captured[c] # None, NEW left \in SUBSET Slots,
           ScopeWaitsFor(c, left)
    PROVE  /\ \E g \in SUBSET Slots :
                 /\ given_up' = [given_up EXCEPT ![c] = g]
                 /\ \/ /\ captured' = [captured EXCEPT ![c] = left]
                       /\ given_up[c] \subseteq g /\ UNCHANGED started
                    \/ /\ captured' = [captured EXCEPT ![c] = None]
                       /\ started' = [started EXCEPT ![c] = {}]
           /\ ThreadType' /\ ThreadHolds'
<1>1. CASE left = {}
  <2>1. {} \in SUBSET Slots
      BY Zenon
  <2> QED
      BY Zenon, <1>1, <2>1, UserHolds, UserType DEF ScopeWaitsFor
<1>2. CASE left # {}
  <2>1. /\ captured' = [captured EXCEPT ![c] = left] /\ UNCHANGED started
        /\ given_up' = given_up
        /\ Call(Rings, <<"wait", c>>, TRUE)
      BY <1>2, Zenon DEF ScopeWaitsFor
  <2>2. captured'[c] # None
      BY <2>1, NoneAssumption DEF TypeOK
  <2>3. ThreadType' /\ ThreadHolds'
      BY <2>1, <2>2, ScopeCalls, ZenonT(30)
  <2>4. /\ given_up[c] \in SUBSET Slots /\ given_up[c] \subseteq given_up[c]
        /\ given_up' = [given_up EXCEPT ![c] = given_up[c]]
      BY <2>1, Zenon DEF TypeOK
  <2> QED
      BY <2>1, <2>3, <2>4, Zenon
<1> QED
    BY <1>1, <1>2, Zenon

LEMMA ScopeCancelsKeeps ==
    ASSUME Counting, IInv, NEW c \in Scopes, ScopeCancels(c)
    PROVE  IInv'
<1>0. PICK left : left = retain_incomplete(c)
    BY SMTT(30)
<1> DEFINE b == [s \in Slots |-> IF s \in left THEN cancel(comp[s]) ELSE comp[s]]
<1>1. /\ thread.what = <<"exit", c>> /\ SubmitCancels(left)
      /\ ScopeReturns(captured[c] \ left, b) /\ ScopeWaitsFor(c, left)
      /\ UNCHANGED <<handle, cq, kernel>>
    BY Zenon, <1>0 DEF ScopeCancels
<1>2. captured[c] # None
    BY <1>1 DEF IInv, ThreadHolds
<1>3. comp \in [Slots -> Completions] /\ captured[c] \in SUBSET Slots /\ TypeOK
    BY <1>2, Zenon DEF IInv, TypeOK
<1>4. b \in [Slots -> Completions]
  <2>1. \A s \in Slots : cancel(comp[s]) \in Completions
      BY Zenon, <1>3, CancelFacts
  <2> QED
      BY Zenon, <1>3, <2>1
<1>5. \A s \in Slots : b[s] = IF s \in left THEN cancel(comp[s]) ELSE comp[s]
    OBVIOUS
<1> HIDE DEF b
<1>6. /\ left \in SUBSET captured[c] /\ left \in SUBSET Slots
      /\ \A s \in captured[c] \ left : is_done(comp[s])
    BY <1>0, <1>3 DEF retain_incomplete
<1>7. ThreadType' /\ ThreadHolds'
    BY <1>1, <1>2, <1>3, <1>6, ScopeWaitsForFacts, Zenon
<1>8. PICK g \in SUBSET Slots :
         /\ given_up' = [given_up EXCEPT ![c] = g]
         /\ \/ /\ captured' = [captured EXCEPT ![c] = left]
               /\ given_up[c] \subseteq g /\ UNCHANGED started
            \/ /\ captured' = [captured EXCEPT ![c] = None]
               /\ started' = [started EXCEPT ![c] = {}]
    BY <1>1, <1>2, <1>3, <1>6, ScopeWaitsForFacts, Zenon
<1>9. ScopeGives(c, left, left, b, g)
    BY <1>1, <1>2, <1>4, <1>5, <1>6, <1>8, Zenon DEF ScopeGives
<1> QED
    BY Zenon, <1>1, <1>7, <1>9, ScopeStep

LEMMA ScopeWaitsKeeps ==
    ASSUME Counting, IInv, NEW c \in Scopes, ScopeWaits(c)
    PROVE  IInv'
<1>0. PICK left : left = retain_incomplete(c)
    OBVIOUS
<1>1. /\ thread.what = <<"wait", c>> /\ UNCHANGED <<sq, in_flight>>
      /\ ScopeReturns(captured[c] \ left, comp) /\ ScopeWaitsFor(c, left)
      /\ UNCHANGED <<handle, cq, kernel>>
    BY <1>0, Zenon DEF ScopeWaits
<1>2. captured[c] # None
    BY <1>1 DEF IInv, ThreadHolds
<1>3. comp \in [Slots -> Completions] /\ captured[c] \in SUBSET Slots /\ TypeOK
    BY <1>2, Zenon DEF IInv, TypeOK
<1>4. PICK b \in [Slots -> Completions] : b = comp
    BY <1>3, Zenon
<1>5. \A s \in Slots : b[s] = IF s \in {} THEN cancel(comp[s]) ELSE comp[s]
    BY Zenon, <1>4
<1>6. /\ left \in SUBSET captured[c] /\ left \in SUBSET Slots /\ {} \in SUBSET captured[c]
      /\ \A s \in captured[c] \ left : is_done(comp[s])
    BY <1>0, <1>3 DEF retain_incomplete
<1>7. ThreadType' /\ ThreadHolds'
    BY <1>1, <1>2, <1>3, <1>6, ScopeWaitsForFacts, Zenon
<1>8. PICK g \in SUBSET Slots :
         /\ given_up' = [given_up EXCEPT ![c] = g]
         /\ \/ /\ captured' = [captured EXCEPT ![c] = left]
               /\ given_up[c] \subseteq g /\ UNCHANGED started
            \/ /\ captured' = [captured EXCEPT ![c] = None]
               /\ started' = [started EXCEPT ![c] = {}]
    BY <1>1, <1>2, <1>3, <1>6, ScopeWaitsForFacts, Zenon
<1>9. ScopeGives(c, {}, left, b, g)
    BY <1>1, <1>2, <1>4, <1>5, <1>6, <1>8, Zenon DEF ScopeGives
<1> QED
    BY <1>1, <1>7, <1>9, ScopeStep, Zenon
=============================================================================
