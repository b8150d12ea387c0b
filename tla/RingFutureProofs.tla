-------------------------- MODULE RingFutureProofs --------------------------
(***************************************************************************)
(* The life of an I/O request is right for any number of futures, scopes   *)
(* and completions: no completion is lost, shared or counted twice, what a *)
(* request borrows outlives it, a descriptor is closed once, and a scope   *)
(* leaves no request behind.  Here are the steps that issue requests and   *)
(* reap their answers, and the theorems.                                   *)
(***************************************************************************)
EXTENDS RingFutureSteps

\* How the number of entries for a set of requests grows.
LEMMA EntriesAdd ==
    ASSUME Counting, TypeOK, NEW S \in SUBSET Slots, NEW s \in Slots, s \notin S
    PROVE  Entries(S \cup {s}) = Entries(S) + entry_count(s)
<1>1. S \cup {s} \in SUBSET Slots
    BY SMTT(30)
<1>2. /\ IsFiniteSet(S) /\ IsFiniteSet(Timed(S))
      /\ Cardinality(S) \in Nat /\ Cardinality(Timed(S)) \in Nat
      /\ Entries(S) = Cardinality(S) + Cardinality(Timed(S))
      /\ Entries(S \cup {s}) = Cardinality(S \cup {s}) + Cardinality(Timed(S \cup {s}))
    BY <1>1, CountTypes DEF Rings
<1>3. Cardinality(S \cup {s}) = Cardinality(S) + 1
    BY <1>2, Zenon DEF Counting, CountAdded
<1>4. CASE comp[s].kind.timespec
  <2>1. Timed(S \cup {s}) = Timed(S) \cup {s} /\ s \notin Timed(S)
      BY <1>4 DEF Timed
  <2>2. Cardinality(Timed(S) \cup {s}) = Cardinality(Timed(S)) + 1
      BY <1>2, <2>1, Zenon DEF Counting, CountAdded
  <2>3. entry_count(s) = 2
      BY <1>4 DEF entry_count
  <2>4. Cardinality(Timed(S \cup {s})) = Cardinality(Timed(S)) + 1
      BY <2>1, <2>2, Zenon
  <2> QED
      BY <1>2, <1>3, <2>3, <2>4
<1>5. CASE ~comp[s].kind.timespec
  <2>1. Timed(S \cup {s}) = Timed(S)
      BY <1>5 DEF Timed
  <2>2. entry_count(s) = 1
      BY <1>5 DEF entry_count
  <2> QED
      BY <1>2, <1>3, <2>1, <2>2
<1> QED
    BY <1>4, <1>5

LEMMA EntriesSame ==
    ASSUME NEW S, \A s \in S : comp'[s].kind = comp[s].kind
    PROVE  Entries(S)' = Entries(S)
    BY Zenon DEF Entries

LEMMA PollIdleKeeps ==
    ASSUME Counting, IInv, NEW f \in Futures, PollIdle(f)
    PROVE  IInv'
<1> USE DEF IInv
<1>0. PICK s : s = handle[f]
    OBVIOUS
<1>1. /\ thread = User /\ s # None /\ comp[s].state = "Idle"
      /\ comp' = [comp EXCEPT ![s].state = "Submitted"]
      /\ sq' = [sq EXCEPT ![ring_of(s)] = Append(sq[ring_of(s)], io(s))]
      /\ in_flight' = [r \in Rings |->
            in_flight[r] + IF r = ring_of(s) THEN entry_count(s) ELSE 0]
      /\ UNCHANGED <<handle, pool, captured, started, given_up, cq, kernel, thread>>
    BY <1>0 DEF PollIdle, InUser, increment_in_flight
<1>2. /\ s \in Slots /\ HeldByFuture(s) /\ s \notin Range(pool) /\ comp[s] \in Completions
      /\ ClosingAt(s) /\ ~Outstanding(s) /\ ~Answered(s, "done")
    BY <1>0, <1>1, HandleFacts
<1>3. PICK r0 \in Rings : r0 = ring_of(s)
    BY <1>2, PlaceFacts, SMTT(30)
<1>4. PICK q \in Seq(SqEntries) : q = sq[r0]
    BY <1>3 DEF TypeOK, SqEntries
<1>5. io(s) \in SqEntries
    BY <1>2, SMTT(30) DEF io, SqEntries
<1>6. /\ Append(q, io(s)) \in Seq(SqEntries)
      /\ DOMAIN q = 1..Len(q) /\ Len(q) \in Nat
      /\ DOMAIN Append(q, io(s)) = 1..(Len(q) + 1)
      /\ \A i \in 1..Len(q) : Append(q, io(s))[i] = q[i]
      /\ Append(q, io(s))[Len(q) + 1] = io(s)
      /\ Range(Append(q, io(s))) = Range(q) \cup {io(s)}
    BY <1>5, AppendFacts
<1>7. PICK p : p = Append(q, io(s))
    BY Zenon
<1>8. /\ p \in Seq(SqEntries)
      /\ DOMAIN q = 1..Len(q) /\ Len(q) \in Nat
      /\ DOMAIN p = 1..(Len(q) + 1)
      /\ \A i \in 1..Len(q) : p[i] = q[i]
      /\ p[Len(q) + 1] = io(s)
      /\ Range(p) = Range(q) \cup {io(s)}
    BY <1>6, <1>7, SMTT(30)
<1>9. /\ comp \in [Slots -> Completions]
      /\ sq \in [Rings -> Seq(SqEntries)] /\ in_flight \in [Rings -> Nat]
    BY DEF TypeOK, SqEntries
<1>10. /\ sq' \in [Rings -> Seq(SqEntries)] /\ sq'[r0] = p /\ sq[r0] = q
       /\ \A r \in Rings \ {r0} : sq'[r] = sq[r]
    BY <1>1, <1>3, <1>4, <1>7, <1>8, <1>9, SMTT(30)
<1>11. /\ comp' \in [Slots -> Completions]
       /\ \A t \in Slots \ {s} : comp'[t] = comp[t]
       /\ comp'[s].kind = comp[s].kind /\ comp'[s].state = "Submitted"
       /\ comp'[s].canceled = comp[s].canceled
       /\ comp'[s].result = comp[s].result /\ comp'[s].closes = comp[s].closes
       /\ comp'[s].fd = comp[s].fd
  <2>1. [comp[s] EXCEPT !.state = "Submitted"] \in Completions
      BY <1>2 DEF Completions
  <2>2. comp' = [comp EXCEPT ![s] = [comp[s] EXCEPT !.state = "Submitted"]]
      BY <1>1
  <2>3. comp'[s] = [comp[s] EXCEPT !.state = "Submitted"]
      BY <1>2, <1>9, <2>2
  <2> QED
      BY <1>2, <1>9, <2>1, <2>2, <2>3, SMTT(30) DEF Completions
<1>12. \A t \in Slots : /\ comp'[t].kind = comp[t].kind /\ ring_of(t)' = ring_of(t)
                        /\ ring_of(t) \in Rings
    BY <1>11, PlaceFacts, Zenon DEF ring_of
<1>13. \A r \in Rings, t \in Slots :
          io(t) \in Range(sq'[r]) <=> io(t) \in Range(sq[r]) \/ (t = s /\ r = r0)
    BY <1>8, <1>10 DEF io
<1>14. \A t \in Slots :
          /\ InSq(t)' <=> InSq(t) \/ t = s
          /\ InCq(t)' <=> InCq(t)
          /\ Outstanding(t)' <=> Outstanding(t) \/ t = s
          /\ Answered(t, "done")' <=> Answered(t, "done")
          /\ Answered(t, "canceled")' <=> Answered(t, "canceled")
    BY <1>1, <1>13 DEF InSq, InCq, Outstanding, Answered
<1>15. \A t : (HeldByFuture(t)' <=> HeldByFuture(t)) /\ (HeldByScope(t)' <=> HeldByScope(t))
    BY Zenon, <1>1 DEF HeldByFuture, HeldByScope
<1>16. Located'
  <2> SUFFICES ASSUME NEW t \in Slots
               PROVE  /\ comp'[t].state = "Submitted" <=> Outstanding(t)'
                      /\ comp'[t].kind = None => comp'[t].state = "Terminated"
                      /\ \A r \in Rings : io(t) \in Range(sq'[r]) => r = ring_of(t)'
                      /\ \A r \in Rings, res \in {"done", "canceled"} :
                            <<t, res>> \in cq'[r].io => r = ring_of(t)'
                      /\ ~(Answered(t, "done")' /\ Answered(t, "canceled")')
                      /\ InSq(t)' => kernel'[t] = "no" /\ ~InCq(t)'
                      /\ InCq(t)' => kernel'[t] = "no"
      BY Zenon DEF Located
  <2>1. comp'[t].state = "Submitted" <=> Outstanding(t)'
      BY <1>11, <1>14, Zenon DEF Located
  <2>2. comp'[t].kind = None => comp'[t].state = "Terminated"
      BY <1>1, <1>11, Zenon DEF Located
  <2>3. ASSUME NEW r \in Rings, io(t) \in Range(sq'[r])
        PROVE  r = ring_of(t)'
    <3>1. io(t) \in Range(sq[r]) \/ (t = s /\ r = r0)
        BY <1>13, <2>3
    <3>2. io(t) \in Range(sq[r]) => r = ring_of(t)
        BY Zenon DEF Located
    <3> QED
        BY <1>3, <1>12, <3>1, <3>2, Zenon
  <2>4. \A r \in Rings, res \in {"done", "canceled"} : <<t, res>> \in cq'[r].io => r = ring_of(t)'
      BY <1>1, <1>12, Zenon DEF Located
  <2>5. t = s => kernel[t] = "no" /\ ~InCq(t)
      BY <1>2, Zenon DEF Outstanding
  <2> QED
      BY <1>1, <1>14, <2>1, <2>2, <2>3, <2>4, <2>5, SMTT(30) DEF Located
<1>17. Canceling'
  <2> SUFFICES ASSUME NEW t \in Slots
               PROVE  /\ kernel'[t] = "cancelling" => comp'[t].canceled
                      /\ Answered(t, "canceled")' =>
                            comp'[t].canceled \/ comp'[t].kind.timespec
                      /\ \A r \in Rings : \A i \in DOMAIN sq'[r] :
                            /\ comp'[t].state = "Submitted" /\ r = ring_of(t)'
                            /\ sq'[r][i] = async_cancel(t)
                            /\ kernel'[t] # "no" \/ \E j \in 1..i : sq'[r][j] = io(t)
                            => comp'[t].canceled
      BY Zenon DEF Canceling
  <2>1. t = s => kernel[t] = "no" /\ ~Answered(t, "canceled") /\ io(t) \notin Range(q)
    <3>1. t = s => kernel[t] = "no" /\ ~InCq(t) /\ ~InSq(t)
        BY <1>2 DEF Outstanding
    <3> QED
        BY <1>10, <3>1, PlaceFacts, SMTT(30) DEF InSq
  <2>2. kernel'[t] = "cancelling" => comp'[t].canceled
      BY <1>1, <1>11, <2>1 DEF Canceling
  <2>3. Answered(t, "canceled")' => comp'[t].canceled \/ comp'[t].kind.timespec
      BY <1>11, <1>14, <2>1, Zenon DEF Canceling
  <2>4. ASSUME NEW r \in Rings, NEW i \in DOMAIN sq'[r],
               comp'[t].state = "Submitted", r = ring_of(t)', sq'[r][i] = async_cancel(t),
               kernel'[t] # "no" \/ \E j \in 1..i : sq'[r][j] = io(t)
        PROVE  comp'[t].canceled
    <3>1. r = ring_of(t)
        BY <1>12, <2>4, SMTT(30)
    <3>2. i \in DOMAIN sq[r] /\ sq[r][i] = async_cancel(t) /\ \A j \in 1..i : sq'[r][j] = sq[r][j]
      <4>1. CASE r # r0
          BY <1>10, <2>4, <4>1, SMTT(30)
      <4>2. CASE r = r0
        <5>1. i # Len(q) + 1
            BY <1>8, <1>10, <2>4, <4>2, SMTT(30) DEF io, async_cancel
        <5>2. i \in 1..Len(q)
            BY <1>8, <1>10, <2>4, <4>2, <5>1, SMTT(30)
        <5> QED
            BY <1>8, <1>10, <2>4, <4>2, <5>2, SMTT(30)
      <4> QED
          BY <4>1, <4>2, SMTT(30)
    <3>3. DOMAIN sq[r] = 1..Len(sq[r]) /\ Len(sq[r]) \in Nat
        BY <1>9
    <3>4. kernel[t] # "no" \/ \E j \in 1..i : sq[r][j] = io(t)
        BY <1>1, <2>4, <3>2
    <3>5. t # s
      <4>1. ASSUME t = s
            PROVE  FALSE
        <5>1. r = r0 /\ kernel[t] = "no"
            BY <1>3, <2>1, <3>1, <4>1, SMTT(30)
        <5>2. PICK j \in 1..i : q[j] = io(t)
            BY <1>10, <3>4, <5>1, SMTT(30)
        <5>3. j \in DOMAIN q
            BY <1>10, <3>2, <3>3, <5>1, SMTT(30)
        <5> QED
            BY <2>1, <4>1, <5>2, <5>3, SMTT(30) DEF Range
      <4> QED
          BY <4>1
    <3>6. comp[t].state = "Submitted" /\ comp'[t] = comp[t]
        BY <1>11, <2>4, <3>5
    <3> QED
        BY <3>1, <3>2, <3>4, <3>6, Zenon DEF Canceling
  <2> QED
      BY <2>2, <2>3, <2>4, Zenon
<1>18. \A r \in Rings : in_flight'[r] \in Nat /\
          in_flight'[r] = in_flight[r] + IF r = r0 THEN entry_count(s) ELSE 0
  <2>1. entry_count(s) \in Nat
      BY Zenon DEF entry_count
  <2> QED
      BY <1>1, <1>3, <1>9, <2>1
<1>19. InFlightCounts'
  <2> SUFFICES ASSUME NEW r \in Rings
               PROVE  in_flight'[r] = Entries(SqIo(r))' + Cardinality(Cancels(sq'[r]))
                                      + Entries(KernelIo(r))' + CqLen(cq'[r])
      BY Zenon DEF InFlightCounts, SqIo, KernelIo
  <2>1. in_flight[r] = Entries(SqIo(r)) + Cardinality(Cancels(sq[r]))
                       + Entries(KernelIo(r)) + CqLen(cq[r])
      BY Zenon DEF InFlightCounts, SqIo, KernelIo
  <2>2. /\ Entries(SqIo(r)) \in Nat /\ Entries(KernelIo(r)) \in Nat
        /\ Cardinality(Cancels(sq[r])) \in Nat /\ CqLen(cq[r]) \in Nat
        /\ SqIo(r) \in SUBSET Slots /\ KernelIo(r) \in SUBSET Slots
      BY CountTypes, Zenon
  <2>3. Entries(KernelIo(r))' = Entries(KernelIo(r))
    <3>1. KernelIo(r)' = KernelIo(r)
        BY <1>1, <1>12 DEF KernelIo
    <3> QED
        BY <1>12, <2>2, <3>1, Zenon DEF Entries
  <2>4. Entries(SqIo(r))' = Entries(SqIo(r)) + IF r = r0 THEN entry_count(s) ELSE 0
    <3>1. CASE r # r0
      <4>1. SqIo(r)' = SqIo(r)
          BY <1>13, <3>1 DEF SqIo
      <4>2. Entries(SqIo(r))' = Entries(SqIo(r))
          BY <1>12, <2>2, <4>1, Zenon DEF Entries
      <4> QED
          BY <2>2, <3>1, <4>2, SMTT(30)
    <3>2. CASE r = r0
      <4>1. SqIo(r)' = SqIo(r) \cup {s} /\ s \notin SqIo(r)
          BY <1>2, <1>13, <3>2 DEF SqIo, Outstanding, InSq
      <4>2. Entries(SqIo(r))' = Entries(SqIo(r) \cup {s})
          BY <1>2, <1>12, <2>2, <4>1, Zenon DEF Entries
      <4>3. Entries(SqIo(r) \cup {s}) = Entries(SqIo(r)) + entry_count(s)
          BY <1>2, <2>2, <4>1, EntriesAdd, Zenon
      <4> QED
          BY <3>2, <4>2, <4>3, SMTT(30)
    <3> QED
        BY <3>1, <3>2, SMTT(30)
  <2>5. Cancels(sq'[r]) = Cancels(sq[r])
    <3>1. CASE r # r0
        BY <1>10, <3>1
    <3>2. CASE r = r0
      <4>1. \A i : i \in 1..(Len(q) + 1) <=> i \in 1..Len(q) \/ i = Len(q) + 1
          BY <1>8
      <4>2. \A i : i \in Cancels(p) <=> i \in Cancels(q)
          BY <1>8, <4>1 DEF Cancels, io
      <4>3. Cancels(p) = Cancels(q)
          BY <4>2, Zenon
      <4> QED
          BY <1>10, <3>2, <4>3
    <3> QED
        BY <3>1, <3>2
  <2>6. CqLen(cq'[r]) = CqLen(cq[r]) /\ in_flight[r] \in Nat /\ entry_count(s) \in Nat
      BY Zenon, <1>1, <1>9 DEF entry_count
  <2> QED
    <3> HIDE DEF IInv
    <3> QED
        BY <1>18, <2>1, <2>2, <2>3, <2>4, <2>5, <2>6, SMTT(30)
<1>20. TypeOK'
  <2>1. in_flight' \in [Rings -> Nat]
      BY <1>1, <1>18
  <2> QED
      BY <1>1, <1>10, <1>11, <2>1 DEF TypeOK, SqEntries
<1>21. Owners'
    BY <1>1 DEF Owners
<1>22. PooledIsUnshared'
  <2>1. \A t \in Range(pool) : t \in Slots /\ ~Held(t) /\ t # s
      BY <1>2, PooledSlots, Zenon
  <2> QED
      BY <1>1, <1>14, <1>15, <2>1 DEF PooledIsUnshared, Held
<1>23. BorrowedOutlivesRequest'
    BY <1>2, <1>12, <1>14, <1>15, Zenon DEF BorrowedOutlivesRequest
<1>24. Closing'
  <2>1. \A t \in Slots \ {s} : ClosingAt(t)'
      BY <1>11, <1>14, <1>15, ClosingSame, Zenon DEF Closing
  <2>2. comp'[s].fd <=> comp[s].fd
    <3>1. comp'[s].fd = comp[s].fd
        BY <1>11, Zenon
    <3> QED
        BY <3>1, Zenon
  <2>3. ~Answered(s, "done")' /\ HeldByFuture(s)'
      BY <1>2, <1>14, <1>15
  <2>4. ClosingAt(s)'
    <3> HIDE DEF IInv
    <3> QED
        BY <1>1, <1>2, <1>11, <2>2, <2>3 DEF ClosingAt
  <2> QED
      BY <2>1, <2>4 DEF Closing
<1>25. ScopeTracks'
  <2>1. \A d \in Scopes : \A t \in started[d] :
           t \in Slots /\ (is_done(comp[t]) => is_done(comp'[t]))
      BY <1>1, <1>11 DEF TypeOK, is_done
  <2> QED
      BY Zenon, <1>1, <2>1 DEF ScopeTracks
<1>26. ThreadHolds'
    BY <1>1, UserHolds
<1> QED
    BY <1>16, <1>17, <1>19, <1>20, <1>21, <1>22, <1>23, <1>24, <1>25, <1>26, SMTT(30)

LEMMA KernelCompleteKeeps ==
    ASSUME Counting, IInv, NEW s \in Slots, NEW res \in {"done", "canceled"}, KernelComplete(s, res)
    PROVE  IInv'
<1> USE DEF IInv
<1>1. /\ kernel[s] # "no"
      /\ res = "canceled" => kernel[s] = "cancelling" \/ comp[s].kind.timespec
      /\ kernel' = [kernel EXCEPT ![s] = "no"]
      /\ cq' = [cq EXCEPT ![ring_of(s)] =
            [io |-> cq[ring_of(s)].io \cup {<<s, res>>},
             null |-> IF comp[s].kind.timespec THEN cq[ring_of(s)].null + 1
                      ELSE cq[ring_of(s)].null]]
      /\ comp' = IF comp[s].kind.resources = "CloseFd" /\ res # "canceled"
                 THEN [comp EXCEPT ![s].closes = comp[s].closes + 1] ELSE comp
      /\ UNCHANGED <<handle, pool, captured, started, given_up, sq, in_flight, thread>>
    BY DEF KernelComplete
<1>2. /\ comp \in [Slots -> Completions] /\ comp[s] \in Completions
      /\ cq \in [Rings -> [io : SUBSET (Slots \X {"done", "canceled"}), null : Nat]]
      /\ kernel \in [Slots -> {"no", "running", "cancelling"}]
    BY Zenon DEF TypeOK
<1>3. PICK r0 \in Rings : r0 = ring_of(s)
    BY PlaceFacts
<1>4. /\ comp[s].state = "Submitted" /\ Outstanding(s) /\ ~InSq(s) /\ ~InCq(s)
      /\ ~Answered(s, "done") /\ ~Answered(s, "canceled") /\ ClosingAt(s)
    BY <1>1, PlaceFacts, Zenon DEF Located, Outstanding, Closing
<1>5. /\ cq' \in [Rings -> [io : SUBSET (Slots \X {"done", "canceled"}), null : Nat]]
      /\ cq'[r0].io = cq[r0].io \cup {<<s, res>>}
      /\ cq'[r0].null = IF comp[s].kind.timespec THEN cq[r0].null + 1 ELSE cq[r0].null
      /\ \A r \in Rings \ {r0} : cq'[r] = cq[r]
    BY <1>1, <1>2, <1>3
<1>6. /\ comp' \in [Slots -> Completions]
      /\ \A t \in Slots \ {s} : comp'[t] = comp[t]
      /\ comp'[s].kind = comp[s].kind /\ comp'[s].state = comp[s].state
      /\ comp'[s].canceled = comp[s].canceled /\ comp'[s].result = comp[s].result
      /\ comp'[s].fd = comp[s].fd
      /\ comp'[s].closes = IF comp[s].kind.resources = "CloseFd" /\ res = "done"
                           THEN comp[s].closes + 1 ELSE comp[s].closes
  <2>1. CASE comp[s].kind.resources = "CloseFd" /\ res # "canceled"
    <3>1. comp' = [comp EXCEPT ![s] = [comp[s] EXCEPT !.closes = comp[s].closes + 1]]
        BY <1>1, <2>1
    <3>2. [comp[s] EXCEPT !.closes = comp[s].closes + 1] \in Completions
        BY <1>2 DEF Completions
    <3>3. comp'[s] = [comp[s] EXCEPT !.closes = comp[s].closes + 1]
        BY <1>2, <3>1
    <3> QED
        BY <1>2, <2>1, <3>1, <3>2, <3>3 DEF Completions
  <2>2. CASE ~(comp[s].kind.resources = "CloseFd" /\ res # "canceled")
    <3>1. comp' = comp
        BY <1>1, <2>2
    <3>2. ~(comp[s].kind.resources = "CloseFd" /\ res = "done")
        BY <2>2
    <3> QED
        BY <1>2, <3>1, <3>2, Zenon
  <2> QED
      BY <2>1, <2>2, Zenon
<1>7. \A t \in Slots : /\ comp'[t].kind = comp[t].kind /\ comp'[t].state = comp[t].state
                       /\ comp'[t].canceled = comp[t].canceled
                       /\ ring_of(t)' = ring_of(t) /\ ring_of(t) \in Rings
    BY <1>6, PlaceFacts, Zenon DEF ring_of
<1>8. /\ kernel' \in [Slots -> {"no", "running", "cancelling"}] /\ kernel'[s] = "no"
      /\ \A t \in Slots \ {s} : kernel'[t] = kernel[t]
    BY <1>1, <1>2, SMTT(30)
<1>9. \A r \in Rings, t \in Slots, x \in {"done", "canceled"} :
         <<t, x>> \in cq'[r].io <=> <<t, x>> \in cq[r].io \/ (r = r0 /\ t = s /\ x = res)
    BY <1>5
<1>10. TypeOK'
    BY <1>1, <1>5, <1>6, <1>8, SMTT(30) DEF TypeOK
<1>11. \A t \in Slots, x \in {"done", "canceled"} :
          Answered(t, x)' <=> Answered(t, x) \/ (t = s /\ x = res)
    BY <1>9, Zenon DEF Answered
<1>12. \A t \in Slots : InCq(t)' <=> InCq(t) \/ t = s
  <2> SUFFICES ASSUME NEW t \in Slots
               PROVE  InCq(t)' <=> InCq(t) \/ t = s
      OBVIOUS
  <2>1. ASSUME NEW r \in Rings, NEW e \in cq'[r].io, e[1] = t
        PROVE  InCq(t) \/ t = s
    <3>1. e \in cq[r].io \/ e = <<s, res>>
        BY Zenon, <1>5
    <3> QED
        BY <2>1, <3>1, SMTT(30) DEF InCq
  <2>2. ASSUME NEW r \in Rings, NEW e \in cq[r].io, e[1] = t
        PROVE  e \in cq'[r].io
      BY <1>5, SMTT(30)
  <2>3. <<s, res>> \in cq'[r0].io
      BY <1>5
  <2> QED
      BY <2>1, <2>2, <2>3 DEF InCq
<1>13. \A t \in Slots : (InSq(t)' <=> InSq(t)) /\ (Outstanding(t)' <=> Outstanding(t))
    BY <1>1, <1>4, <1>8, <1>12 DEF InSq, Outstanding
<1>14. \A t : (HeldByFuture(t)' <=> HeldByFuture(t)) /\ (HeldByScope(t)' <=> HeldByScope(t))
    BY <1>1 DEF HeldByFuture, HeldByScope
<1>15. Located'
  <2> SUFFICES ASSUME NEW t \in Slots
               PROVE  /\ comp'[t].state = "Submitted" <=> Outstanding(t)'
                      /\ comp'[t].kind = None => comp'[t].state = "Terminated"
                      /\ \A r \in Rings : io(t) \in Range(sq'[r]) => r = ring_of(t)'
                      /\ \A r \in Rings, x \in {"done", "canceled"} :
                            <<t, x>> \in cq'[r].io => r = ring_of(t)'
                      /\ ~(Answered(t, "done")' /\ Answered(t, "canceled")')
                      /\ InSq(t)' => kernel'[t] = "no" /\ ~InCq(t)'
                      /\ InCq(t)' => kernel'[t] = "no"
      BY Zenon DEF Located
  <2>1. comp'[t].state = "Submitted" <=> Outstanding(t)'
      BY <1>7, <1>13, Zenon DEF Located
  <2>2. comp'[t].kind = None => comp'[t].state = "Terminated"
      BY <1>7, Zenon DEF Located
  <2>3. \A r \in Rings : io(t) \in Range(sq'[r]) => r = ring_of(t)'
      BY <1>1, <1>7, ZenonT(30) DEF Located
  <2>4. ASSUME NEW r \in Rings, NEW x \in {"done", "canceled"}, <<t, x>> \in cq'[r].io
        PROVE  r = ring_of(t)'
    <3>1. <<t, x>> \in cq[r].io \/ (r = r0 /\ t = s)
        BY <1>9, <2>4, Zenon
    <3>2. <<t, x>> \in cq[r].io => r = ring_of(t)
        BY Zenon DEF Located
    <3> QED
        BY <1>3, <1>7, <3>1, <3>2, Zenon
  <2>5. ~(Answered(t, "done")' /\ Answered(t, "canceled")')
      BY <1>4, <1>11, Zenon DEF Located
  <2>6. InSq(t)' => kernel'[t] = "no" /\ ~InCq(t)'
      BY <1>4, <1>8, <1>12, <1>13, Zenon DEF Located
  <2>7. InCq(t)' => kernel'[t] = "no"
      BY <1>8, <1>12, Zenon DEF Located
  <2> QED
      BY <2>1, <2>2, <2>3, <2>4, <2>5, <2>6, <2>7, Zenon
<1>16. Canceling'
  <2> SUFFICES ASSUME NEW t \in Slots
               PROVE  /\ kernel'[t] = "cancelling" => comp'[t].canceled
                      /\ Answered(t, "canceled")' =>
                            comp'[t].canceled \/ comp'[t].kind.timespec
                      /\ \A r \in Rings : \A i \in DOMAIN sq'[r] :
                            /\ comp'[t].state = "Submitted" /\ r = ring_of(t)'
                            /\ sq'[r][i] = async_cancel(t)
                            /\ kernel'[t] # "no" \/ \E j \in 1..i : sq'[r][j] = io(t)
                            => comp'[t].canceled
      BY Zenon DEF Canceling
  <2>0. comp[t].canceled => comp'[t].canceled
      BY <1>7
  <2>1. kernel'[t] = "cancelling" => comp'[t].canceled
      BY <1>8, <2>0, Zenon DEF Canceling
  <2>2. Answered(t, "canceled")' => comp'[t].canceled \/ comp'[t].kind.timespec
      BY <1>1, <1>7, <1>11, <2>0, Zenon DEF Canceling
  <2>3. ASSUME NEW r \in Rings, NEW i \in DOMAIN sq'[r],
               comp'[t].state = "Submitted", r = ring_of(t)', sq'[r][i] = async_cancel(t),
               kernel'[t] # "no" \/ \E j \in 1..i : sq'[r][j] = io(t)
        PROVE  comp'[t].canceled
    <3>1. comp[t].state = "Submitted" /\ r = ring_of(t) /\ sq[r][i] = async_cancel(t)
        BY Zenon, <1>1, <1>7, <2>3
    <3>2. kernel[t] # "no" \/ \E j \in 1..i : sq[r][j] = io(t)
        BY <1>1, <1>8, <2>3, SMTT(30)
    <3> QED
        BY <1>1, <2>0, <2>3, <3>1, <3>2, Zenon DEF Canceling
  <2> QED
      BY <2>1, <2>2, <2>3, Zenon
<1>17. InFlightCounts'
  <2> SUFFICES ASSUME NEW r \in Rings
               PROVE  in_flight'[r] = Entries(SqIo(r))' + Cardinality(Cancels(sq'[r]))
                                      + Entries(KernelIo(r))' + CqLen(cq'[r])
      BY Zenon DEF InFlightCounts, SqIo, KernelIo
  <2>1. in_flight[r] = Entries(SqIo(r)) + Cardinality(Cancels(sq[r]))
                       + Entries(KernelIo(r)) + CqLen(cq[r])
      BY Zenon DEF InFlightCounts, SqIo, KernelIo
  <2>2. /\ Entries(SqIo(r)) \in Nat /\ Entries(KernelIo(r)) \in Nat
        /\ Cardinality(Cancels(sq[r])) \in Nat /\ CqLen(cq[r]) \in Nat
        /\ SqIo(r) \in SUBSET Slots /\ KernelIo(r) \in SUBSET Slots
        /\ IsFiniteSet(cq[r].io) /\ Cardinality(cq[r].io) \in Nat /\ cq[r].null \in Nat
      BY <1>2, CountTypes
  <2>3. Entries(SqIo(r))' = Entries(SqIo(r))
    <3>1. SqIo(r)' = SqIo(r)
        BY <1>1 DEF SqIo
    <3> QED
        BY <1>7, <2>2, <3>1, Zenon DEF Entries
  <2>4. CASE r # r0
    <3>1. KernelIo(r)' = KernelIo(r)
        BY <1>3, <1>7, <1>8, <2>4, Zenon DEF KernelIo
    <3>2. Entries(KernelIo(r))' = Entries(KernelIo(r))
        BY <1>7, <2>2, <3>1, ZenonT(30) DEF Entries
    <3> QED
        BY <1>1, <1>5, <2>1, <2>3, <2>4, <3>2, Zenon
  <2>5. CASE r = r0
    <3>1. PICK K : K = KernelIo(r) \ {s}
        BY Zenon
    <3>2. /\ K \in SUBSET Slots /\ s \notin K /\ KernelIo(r) = K \cup {s}
          /\ KernelIo(r)' = K
        BY <1>1, <1>3, <1>7, <1>8, <2>2, <2>5, <3>1, SMTT(30) DEF KernelIo
    <3>3. Entries(KernelIo(r)) = Entries(K) + entry_count(s)
        BY <3>2, EntriesAdd
    <3>4. Entries(KernelIo(r))' = Entries(K) /\ Entries(K) \in Nat
      <4>1. Entries(KernelIo(r))' = Entries(K)
          BY <1>7, <3>2, Zenon DEF Entries
      <4> QED
          BY <3>2, <4>1, CountTypes, Zenon
    <3>5. Cardinality(cq'[r].io) = Cardinality(cq[r].io) + 1
      <4>1. <<s, res>> \notin cq[r].io
          BY <1>4 DEF Answered
      <4>2. Cardinality(cq[r].io \cup {<<s, res>>}) = Cardinality(cq[r].io) + 1
          BY <2>2, <4>1, Zenon DEF Counting, CountAdded
      <4> QED
          BY <1>5, <2>5, <4>2, Zenon
    <3>6. CqLen(cq'[r]) = CqLen(cq[r]) + entry_count(s)
      <4>1. CASE comp[s].kind.timespec
        <5>1. cq'[r].null = cq[r].null + 1 /\ entry_count(s) = 2
            BY <1>5, <2>5, <4>1, ZenonT(30) DEF entry_count
        <5> QED
          <6> HIDE DEF IInv
          <6> QED
              BY <2>2, <3>5, <5>1 DEF CqLen
      <4>2. CASE ~comp[s].kind.timespec
        <5>1. cq'[r].null = cq[r].null /\ entry_count(s) = 1
            BY <1>5, <2>5, <4>2 DEF entry_count
        <5> QED
          <6> HIDE DEF IInv
          <6> QED
              BY <2>2, <3>5, <5>1, SMTT(30) DEF CqLen
      <4> QED
          BY <4>1, <4>2, Zenon
    <3>7. entry_count(s) \in Nat /\ in_flight' = in_flight /\ sq' = sq
        BY <1>1 DEF entry_count
    <3> QED
      <4> HIDE DEF IInv
      <4> QED
          BY <2>1, <2>2, <2>3, <3>3, <3>4, <3>6, <3>7, SMTT(30)
  <2> QED
      BY <2>4, <2>5
<1>18. Owners'
    BY Zenon, <1>1 DEF Owners
<1>19. PooledIsUnshared'
  <2>1. \A t \in Range(pool) : t \in Slots /\ ~Held(t)
      BY PooledSlots, Zenon
  <2> QED
      BY <1>1, <1>13, <1>14, <2>1 DEF PooledIsUnshared, Held
<1>20. BorrowedOutlivesRequest'
    BY <1>7, <1>13, <1>14, Zenon DEF BorrowedOutlivesRequest
<1>21. Closing'
  <2>1. \A t \in Slots \ {s} : ClosingAt(t)'
      BY <1>6, <1>11, <1>14, ClosingSame, Zenon DEF Closing
  <2>2. comp'[s].fd <=> comp[s].fd
    <3>1. comp'[s].fd = comp[s].fd
        BY <1>6, Zenon
    <3> QED
        BY <3>1, Zenon
  <2>3. Answered(s, "done")' <=> res = "done"
      BY <1>4, <1>11
  <2>4. comp[s].fd <=> comp[s].kind.resources = "CloseFd"
      BY <1>4, Zenon DEF ClosingAt
  <2>5. ~comp[s].fd => comp[s].closes = 1
      BY <1>4, Zenon DEF ClosingAt
  <2>6. comp[s].fd => HeldByFuture(s) /\ comp[s].kind # None /\ comp[s].closes = 0
      BY <1>4, Zenon DEF ClosingAt
  <2>7. HeldByFuture(s)' <=> HeldByFuture(s)
      BY <1>14, Zenon
  <2>8. comp'[s].closes = IF comp[s].fd /\ res = "done" THEN comp[s].closes + 1
                          ELSE comp[s].closes
      BY <1>6, <2>4, Zenon
  <2>9. ClosingAt(s)'
    <3> HIDE DEF IInv
    <3> QED
      <4> HIDE DEF IInv
      <4> QED
          BY <1>4, <1>6, <2>2, <2>3, <2>4, <2>5, <2>6, <2>7, <2>8, SMTT(30) DEF ClosingAt
  <2> QED
      BY <2>1, <2>9 DEF Closing
<1>22. ScopeTracks'
  <2>1. \A d \in Scopes : \A t \in started[d] :
           t \in Slots /\ (is_done(comp[t]) => is_done(comp'[t]))
      BY <1>7, Zenon DEF TypeOK, is_done
  <2> QED
      BY <1>1, <2>1 DEF ScopeTracks
<1>23. ThreadHolds'
    BY <1>1, <1>7 DEF ThreadHolds, TypeOK
<1> QED
    BY <1>10, <1>15, <1>16, <1>17, <1>18, <1>19, <1>20, <1>21, <1>22, <1>23, SMTT(30)

LEMMA EntriesUnion ==
    ASSUME Counting, TypeOK, NEW A \in SUBSET Slots, NEW B \in SUBSET Slots, A \cap B = {}
    PROVE  Entries(A \cup B) = Entries(A) + Entries(B)
<1>1. A \cup B \in SUBSET Slots /\ "ring" \in Rings
    BY DEF Rings
<1>2. /\ IsFiniteSet(A) /\ IsFiniteSet(Timed(A)) /\ IsFiniteSet(B) /\ IsFiniteSet(Timed(B))
      /\ Cardinality(A) \in Nat /\ Cardinality(Timed(A)) \in Nat
      /\ Cardinality(B) \in Nat /\ Cardinality(Timed(B)) \in Nat
      /\ Entries(A) = Cardinality(A) + Cardinality(Timed(A))
      /\ Entries(B) = Cardinality(B) + Cardinality(Timed(B))
      /\ Entries(A \cup B) = Cardinality(A \cup B) + Cardinality(Timed(A \cup B))
    BY <1>1, CountTypes, Zenon
<1>3. Timed(A \cup B) = Timed(A) \cup Timed(B) /\ Timed(A) \cap Timed(B) = {}
    BY DEF Timed
<1>4. Cardinality(A \cup B) = Cardinality(A) + Cardinality(B) - Cardinality(A \cap B)
  <2>1. IsFiniteSet(A) /\ IsFiniteSet(B)
      BY <1>2
  <2> QED
      BY <2>1, Zenon DEF Counting, CountUnion
<1>5. Cardinality(Timed(A) \cup Timed(B))
         = Cardinality(Timed(A)) + Cardinality(Timed(B)) - Cardinality(Timed(A) \cap Timed(B))
  <2>1. IsFiniteSet(Timed(A)) /\ IsFiniteSet(Timed(B))
      BY <1>2
  <2> QED
      BY <2>1, Zenon DEF Counting, CountUnion
<1>6. /\ Cardinality({}) = 0 /\ Cardinality(A \cap B) = 0
      /\ Cardinality(Timed(A) \cap Timed(B)) = 0
    BY <1>3 DEF Counting, CountNone
<1>7. Cardinality(Timed(A \cup B)) = Cardinality(Timed(A) \cup Timed(B))
    BY <1>3
<1> QED
    BY <1>2, <1>4, <1>5, <1>6, <1>7

\* The kernel takes the queues of the rings of R.
LEMMA IssueKeeps ==
    ASSUME Counting, IInv, NEW R \in SUBSET Rings, Issue(R),
           UNCHANGED <<comp, handle, pool, captured, started, given_up, in_flight>>,
           ThreadType', ThreadHolds'
    PROVE  IInv'
<1> USE DEF IInv
<1> DEFINE taken(r) == IF r \in R THEN sq[r] ELSE <<>>
           hit(s) == \E i \in DOMAIN taken(ring_of(s)) :
                        /\ taken(ring_of(s))[i] = async_cancel(s)
                        /\ kernel[s] # "no" \/ \E j \in 1..i : taken(ring_of(s))[j] = io(s)
<1>1. /\ sq' = [r \in Rings |-> IF r \in R THEN <<>> ELSE sq[r]]
      /\ cq' = [r \in Rings |->
            [cq[r] EXCEPT !.null = cq[r].null + Cardinality(Cancels(taken(r)))]]
      /\ kernel' = [s \in Slots |->
            IF comp[s].kind = None THEN "no"
            ELSE IF hit(s) THEN "cancelling"
            ELSE IF io(s) \in Range(taken(ring_of(s))) THEN "running"
            ELSE kernel[s]]
    BY DEF Issue
<1>2. /\ comp \in [Slots -> Completions]
      /\ sq \in [Rings -> Seq(SqEntries)]
      /\ cq \in [Rings -> [io : SUBSET (Slots \X {"done", "canceled"}), null : Nat]]
      /\ kernel \in [Slots -> {"no", "running", "cancelling"}]
    BY Zenon DEF TypeOK, SqEntries
<1>3. \A r \in Rings : taken(r) \in Seq(SqEntries) /\ Cardinality(Cancels(taken(r))) \in Nat
  <2>1. \A r \in Rings : taken(r) \in Seq(SqEntries)
      BY <1>2, SMTT(30)
  <2> HIDE DEF taken
  <2> QED
      BY <2>1, CancelsFinite
<1>4. \A r \in Rings :
         /\ r \in R => taken(r) = sq[r]
         /\ r \notin R => /\ Range(taken(r)) = {} /\ DOMAIN taken(r) = {}
                          /\ Cancels(taken(r)) = {}
  <2> HIDE DEF IInv
  <2> QED
      BY DEF Range, Cancels
<1>5. \A s \in Slots : ring_of(s) \in Rings /\ ring_of(s)' = ring_of(s)
    BY PlaceFacts DEF ring_of
<1> HIDE DEF taken
<1>6. /\ cq' \in [Rings -> [io : SUBSET (Slots \X {"done", "canceled"}), null : Nat]]
      /\ \A r \in Rings : /\ cq'[r].io = cq[r].io
                          /\ cq'[r].null = cq[r].null + Cardinality(Cancels(taken(r)))
  <2>1. ASSUME NEW r \in Rings
        PROVE  /\ cq'[r] = [cq[r] EXCEPT !.null = cq[r].null + Cardinality(Cancels(taken(r)))]
               /\ cq[r] \in [io : SUBSET (Slots \X {"done", "canceled"}), null : Nat]
               /\ cq[r].null + Cardinality(Cancels(taken(r))) \in Nat
      BY <1>1, <1>2, <1>3
  <2>2. \A r \in Rings : /\ cq'[r].io = cq[r].io
                         /\ cq'[r].null = cq[r].null + Cardinality(Cancels(taken(r)))
                         /\ cq'[r] \in [io : SUBSET (Slots \X {"done", "canceled"}), null : Nat]
      BY <2>1, Zenon
  <2> QED
      BY <1>1, <2>2, Zenon
<1>7. /\ sq' \in [Rings -> Seq(SqEntries)]
      /\ \A r \in Rings : sq'[r] = IF r \in R THEN <<>> ELSE sq[r]
    BY <1>1, <1>2
<1>8. \A s \in Slots : hit(s) => /\ ring_of(s) \in R
                                 /\ kernel[s] # "no" \/ io(s) \in Range(taken(ring_of(s)))
  <2> SUFFICES ASSUME NEW s \in Slots, hit(s)
               PROVE  /\ ring_of(s) \in R
                      /\ kernel[s] # "no" \/ io(s) \in Range(taken(ring_of(s)))
      BY Zenon
  <2>1. PICK q \in Seq(SqEntries) : q = taken(ring_of(s))
      BY <1>3, <1>5
  <2>2. PICK i \in DOMAIN q :
           q[i] = async_cancel(s) /\ (kernel[s] # "no" \/ \E j \in 1..i : q[j] = io(s))
      BY <2>1
  <2>3. ring_of(s) \in R
      BY <1>4, <1>5, <2>1, <2>2, Zenon
  <2>4. DOMAIN q = 1..Len(q) /\ Len(q) \in Nat
      BY SMTT(30)
  <2>5. \A j \in 1..i : j \in DOMAIN q
      BY <2>2, <2>4
  <2> QED
      BY <2>1, <2>2, <2>3, <2>5, Zenon DEF Range
<1>9. \A s \in Slots : io(s) \in Range(taken(ring_of(s))) <=>
                          ring_of(s) \in R /\ io(s) \in Range(sq[ring_of(s)])
    BY <1>4, <1>5
<1>10. \A s \in Slots :
          /\ InSq(s) <=> io(s) \in Range(sq[ring_of(s)])
          /\ kernel[s] # "no" => comp[s].kind # None
          /\ io(s) \in Range(taken(ring_of(s))) => comp[s].kind # None /\ InSq(s)
    BY <1>5, <1>9, Zenon DEF Located, Outstanding, InSq
<1>11. \A s \in Slots : hit(s) => comp[s].canceled
  <2> SUFFICES ASSUME NEW s \in Slots, hit(s)
               PROVE  comp[s].canceled
      BY Zenon
  <2>1. ring_of(s) \in R /\ ring_of(s) \in Rings /\ taken(ring_of(s)) = sq[ring_of(s)]
      BY <1>4, <1>5, <1>8, Zenon
  <2>2. comp[s].state = "Submitted"
      BY <1>8, <1>10, Zenon DEF Located, Outstanding
  <2>3. \E i \in DOMAIN sq[ring_of(s)] :
           /\ sq[ring_of(s)][i] = async_cancel(s)
           /\ kernel[s] # "no" \/ \E j \in 1..i : sq[ring_of(s)][j] = io(s)
      BY <2>1, Zenon
  <2> QED
      BY <2>1, <2>2, <2>3, Zenon DEF Canceling
<1> HIDE DEF hit
<1>12. /\ kernel' \in [Slots -> {"no", "running", "cancelling"}]
       /\ \A s \in Slots : kernel'[s] # "no" <=>
             kernel[s] # "no" \/ (ring_of(s) \in R /\ io(s) \in Range(sq[ring_of(s)]))
       /\ \A s \in Slots : kernel'[s] = "cancelling" => comp[s].canceled
  <2>1. \A s \in Slots : kernel[s] \in {"no", "running", "cancelling"}
      BY <1>2
  <2>2. \A s \in Slots : kernel'[s] =
            IF comp[s].kind = None THEN "no"
            ELSE IF hit(s) THEN "cancelling"
            ELSE IF io(s) \in Range(taken(ring_of(s))) THEN "running"
            ELSE kernel[s]
      BY <1>1
  <2>3. kernel' \in [Slots -> {"no", "running", "cancelling"}]
      BY <1>1, <2>1
  <2>4. \A s \in Slots : kernel'[s] # "no" <=>
           kernel[s] # "no" \/ io(s) \in Range(taken(ring_of(s)))
      BY <1>8, <1>10, <2>2, Zenon
  <2>5. \A s \in Slots : kernel'[s] = "cancelling" => comp[s].canceled
      BY <1>11, <2>2, Zenon DEF Canceling
  <2> QED
      BY <1>9, <2>3, <2>4, <2>5, Zenon
<1>13. \A s \in Slots :
          /\ InSq(s)' <=> InSq(s) /\ ring_of(s) \notin R
          /\ InCq(s)' <=> InCq(s)
          /\ Answered(s, "done")' <=> Answered(s, "done")
          /\ Answered(s, "canceled")' <=> Answered(s, "canceled")
  <2>1. \A s \in Slots, r \in Rings :
           io(s) \in Range(sq'[r]) <=> io(s) \in Range(sq[r]) /\ r \notin R
      BY <1>7 DEF Range
  <2>2. \A s \in Slots, r \in Rings : io(s) \in Range(sq[r]) => r = ring_of(s)
      BY Zenon DEF Located
  <2>3. \A s \in Slots : InSq(s)' <=> InSq(s) /\ ring_of(s) \notin R
      BY <1>5, <2>1, <2>2, Zenon DEF InSq
  <2> QED
      BY <1>6, <2>3, Zenon DEF InCq, Answered
<1>14. \A s \in Slots : Outstanding(s)' <=> Outstanding(s)
    BY <1>10, <1>12, <1>13, Zenon DEF Outstanding
<1>15. Located'
  <2> SUFFICES ASSUME NEW s \in Slots
               PROVE  /\ comp'[s].state = "Submitted" <=> Outstanding(s)'
                      /\ comp'[s].kind = None => comp'[s].state = "Terminated"
                      /\ \A r \in Rings : io(s) \in Range(sq'[r]) => r = ring_of(s)'
                      /\ \A r \in Rings, res \in {"done", "canceled"} :
                            <<s, res>> \in cq'[r].io => r = ring_of(s)'
                      /\ ~(Answered(s, "done")' /\ Answered(s, "canceled")')
                      /\ InSq(s)' => kernel'[s] = "no" /\ ~InCq(s)'
                      /\ InCq(s)' => kernel'[s] = "no"
      BY Zenon DEF Located
  <2>1. ASSUME NEW r \in Rings, io(s) \in Range(sq'[r])
        PROVE  r = ring_of(s)'
    <3>1. r \notin R /\ sq'[r] = sq[r]
        BY <1>7, <2>1 DEF Range
    <3> QED
        BY <1>5, <2>1, <3>1, Zenon DEF Located
  <2>2. \A r \in Rings, res \in {"done", "canceled"} :
           <<s, res>> \in cq'[r].io => r = ring_of(s)'
      BY <1>5, <1>6, Zenon DEF Located
  <2>3. InSq(s)' => kernel'[s] = "no" /\ ~InCq(s)'
      BY <1>12, <1>13, Zenon DEF Located
  <2>4. InCq(s)' => kernel'[s] = "no"
      BY <1>10, <1>12, <1>13, Zenon DEF Located
  <2> QED
      BY <1>13, <1>14, <2>1, <2>2, <2>3, <2>4, Zenon DEF Located
<1>16. Canceling'
  <2> SUFFICES ASSUME NEW s \in Slots
               PROVE  /\ kernel'[s] = "cancelling" => comp'[s].canceled
                      /\ Answered(s, "canceled")' =>
                            comp'[s].canceled \/ comp'[s].kind.timespec
                      /\ \A r \in Rings : \A i \in DOMAIN sq'[r] :
                            /\ comp'[s].state = "Submitted" /\ r = ring_of(s)'
                            /\ sq'[r][i] = async_cancel(s)
                            /\ kernel'[s] # "no" \/ \E j \in 1..i : sq'[r][j] = io(s)
                            => comp'[s].canceled
      BY Zenon DEF Canceling
  <2>1. Answered(s, "canceled")' => comp'[s].canceled \/ comp'[s].kind.timespec
      BY <1>13, Zenon DEF Canceling
  <2>2. ASSUME NEW r \in Rings, NEW i \in DOMAIN sq'[r],
               comp'[s].state = "Submitted", r = ring_of(s)', sq'[r][i] = async_cancel(s),
               kernel'[s] # "no" \/ \E j \in 1..i : sq'[r][j] = io(s)
        PROVE  comp'[s].canceled
    <3>1. r \notin R /\ sq'[r] = sq[r] /\ r = ring_of(s)
        BY <1>5, <1>7, <2>2
    <3>2. kernel[s] # "no" \/ \E j \in 1..i : sq[r][j] = io(s)
        BY <1>12, <2>2, <3>1, Zenon
    <3> QED
        BY <2>2, <3>1, <3>2, ZenonT(30) DEF Canceling
  <2> QED
      BY <1>12, <2>1, <2>2, Zenon
<1>17. InFlightCounts'
  <2> SUFFICES ASSUME NEW r \in Rings
               PROVE  in_flight'[r] = Entries(SqIo(r))' + Cardinality(Cancels(sq'[r]))
                                      + Entries(KernelIo(r))' + CqLen(cq'[r])
      BY Zenon DEF InFlightCounts, SqIo, KernelIo
  <2>1. in_flight[r] = Entries(SqIo(r)) + Cardinality(Cancels(sq[r]))
                       + Entries(KernelIo(r)) + CqLen(cq[r])
      BY ZenonT(30) DEF InFlightCounts, SqIo, KernelIo
  <2>2. /\ Entries(SqIo(r)) \in Nat /\ Entries(KernelIo(r)) \in Nat
        /\ Cardinality(Cancels(sq[r])) \in Nat /\ CqLen(cq[r]) \in Nat
        /\ SqIo(r) \in SUBSET Slots /\ KernelIo(r) \in SUBSET Slots
        /\ Cardinality(cq[r].io) \in Nat /\ cq[r].null \in Nat
      BY <1>2, CountTypes, Zenon
  <2>3. CqLen(cq'[r]) = CqLen(cq[r]) + Cardinality(Cancels(taken(r)))
      BY <1>3, <1>6, <2>2, SMTT(30) DEF CqLen
  <2>4. CASE r \notin R
    <3>1. SqIo(r)' = SqIo(r) /\ Cancels(sq'[r]) = Cancels(sq[r])
        BY <1>7, <2>4, Zenon DEF SqIo
    <3>2. KernelIo(r)' = KernelIo(r)
        BY <1>5, <1>12, <2>4, ZenonT(30) DEF KernelIo
    <3>3. Entries(SqIo(r))' = Entries(SqIo(r)) /\ Entries(KernelIo(r))' = Entries(KernelIo(r))
        BY <3>1, <3>2, Zenon DEF Entries
    <3>4. Cardinality(Cancels(taken(r))) = 0
        BY <1>4, <2>4, Zenon DEF Counting, CountNone
    <3> QED
      <4> HIDE DEF IInv
      <4> QED
          BY <2>1, <2>2, <2>3, <3>1, <3>3, <3>4, SMTT(30)
  <2>5. CASE r \in R
    <3>1. SqIo(r)' = {} /\ Cancels(sq'[r]) = {}
      <4> HIDE DEF IInv
      <4> QED
          BY <1>7, <2>5, SMTT(30) DEF SqIo, Range, Cancels
    <3>2. KernelIo(r)' = KernelIo(r) \cup SqIo(r) /\ KernelIo(r) \cap SqIo(r) = {}
      <4>1. \A s \in Slots : s \in KernelIo(r)' <=>
               ring_of(s) = r /\ (kernel[s] # "no" \/ io(s) \in Range(sq[r]))
          BY <1>5, <1>12, <2>5, Zenon DEF KernelIo
      <4>2. \A s \in Slots : io(s) \in Range(sq[r]) => ring_of(s) = r /\ kernel[s] = "no"
          BY Zenon DEF Located, InSq
      <4>3. KernelIo(r)' \in SUBSET Slots
          BY SMTT(30) DEF KernelIo
      <4>4. \A s : s \in KernelIo(r)' <=> s \in KernelIo(r) \cup SqIo(r)
          BY Zenon, <4>1, <4>2, <4>3 DEF KernelIo, SqIo
      <4> QED
          BY <4>2, <4>4, Zenon DEF KernelIo, SqIo
    <3>3. Entries(KernelIo(r))' = Entries(KernelIo(r)) + Entries(SqIo(r))
      <4>1. Entries(KernelIo(r))' = Entries(KernelIo(r) \cup SqIo(r))
          BY <3>2 DEF Entries
      <4> QED
          BY <2>2, <3>2, <4>1, EntriesUnion, Zenon
    <3>4. Entries(SqIo(r))' = 0 /\ Cardinality(Cancels(sq'[r])) = 0
      <4>1. Entries(SqIo(r))' = Cardinality({}) + Cardinality({})
        <5>1. {s \in {} : comp[s].kind.timespec} = {}
            OBVIOUS
        <5> QED
            BY <3>1, <5>1 DEF Entries
      <4>2. Cardinality({}) = 0
          BY DEF Counting, CountNone
      <4> QED
          BY <3>1, <4>1, <4>2, SMTT(30)
    <3>5. Cardinality(Cancels(taken(r))) = Cardinality(Cancels(sq[r]))
        BY <1>4, <2>5
    <3> QED
      <4> HIDE DEF IInv
      <4> QED
          BY <2>1, <2>2, <2>3, <3>3, <3>4, <3>5, SMTT(30)
  <2> QED
      BY <2>4, <2>5, Zenon
<1>18. TypeOK'
    BY <1>6, <1>7, <1>12, Zenon DEF TypeOK, ThreadType, SqEntries
<1>19. \A t : (HeldByFuture(t)' <=> HeldByFuture(t)) /\ (HeldByScope(t)' <=> HeldByScope(t))
    BY DEF HeldByFuture, HeldByScope
<1>20. Owners' /\ ScopeTracks'
    BY Zenon DEF Owners, ScopeTracks
<1>21. PooledIsUnshared'
  <2>1. \A t \in Range(pool) : t \in Slots /\ ~Held(t)
      BY PooledSlots, Zenon
  <2> QED
      BY <1>14, <1>19, <2>1 DEF PooledIsUnshared, Held
<1>22. BorrowedOutlivesRequest'
    BY <1>14, <1>19, Zenon DEF BorrowedOutlivesRequest
<1>23. Closing'
    BY Zenon, <1>13, <1>19, ClosingSame DEF Closing
<1> QED
    BY <1>15, <1>16, <1>17, <1>18, <1>20, <1>21, <1>22, <1>23, SMTT(30)

\* process_completions reaps every answer of the rings of R.
LEMMA ReapKeeps ==
    ASSUME Counting, IInv, NEW R \in SUBSET Rings, process_completions(R), ThreadType',
           thread'.what = thread.what \/ thread' = User
    PROVE  IInv'
<1> USE DEF IInv
<1> DEFINE entries == UNION {cq[r].io : r \in R}
           answer(s) == (CHOOSE e \in entries : e[1] = s)[2]
<1>0. PICK S : S = {s \in Slots : \E e \in entries : e[1] = s}
    BY Zenon
<1> DEFINE sole == {s \in S : ~HeldByFuture(s) /\ ~HeldByScope(s)}
           b == [s \in Slots |->
                   IF s \notin S THEN comp[s]
                   ELSE [comp[s] EXCEPT !.state = "Completed",
                                        !.result = reported(comp[s], answer(s))]]
<1>1. /\ return_completion(sole, b)
      /\ cq' = [r \in Rings |-> IF r \in R THEN EmptyCq ELSE cq[r]]
      /\ in_flight' = [r \in Rings |->
            in_flight[r] - IF r \in R THEN CqLen(cq[r]) ELSE 0]
      /\ UNCHANGED <<handle, captured, started, given_up, sq, kernel>>
    BY <1>0, Zenon DEF process_completions, decrement_in_flight
<1>2. /\ comp \in [Slots -> Completions] /\ in_flight \in [Rings -> Nat]
      /\ cq \in [Rings -> [io : SUBSET (Slots \X {"done", "canceled"}), null : Nat]]
    BY Zenon DEF TypeOK
<1>3. S \in SUBSET Slots
    BY <1>0
<1>4. \A s \in S :
         /\ answer(s) \in {"done", "canceled"} /\ ring_of(s) \in R
         /\ Answered(s, answer(s)) /\ InCq(s)
  <2> SUFFICES ASSUME NEW s \in S
               PROVE  /\ answer(s) \in {"done", "canceled"} /\ ring_of(s) \in R
                      /\ Answered(s, answer(s)) /\ InCq(s)
      BY Zenon
  <2>1. PICK e : e = CHOOSE d \in entries : d[1] = s
      OBVIOUS
  <2>2. e \in entries /\ e[1] = s /\ answer(s) = e[2]
      BY <1>0, <2>1, Zenon
  <2>3. PICK r \in R : e \in cq[r].io
      BY Zenon, <2>2
  <2>4. e \in Slots \X {"done", "canceled"}
      BY Zenon, <1>2, <2>3
  <2>5. e = <<s, answer(s)>> /\ answer(s) \in {"done", "canceled"}
      BY <2>2, <2>4
  <2> HIDE DEF answer
  <2>6. r \in Rings /\ <<s, answer(s)>> \in cq[r].io
      BY <2>3, <2>5, Zenon
  <2>7. Answered(s, answer(s)) /\ InCq(s)
      BY <2>2, <2>3, <2>6 DEF Answered, InCq
  <2>8. ring_of(s) = r
      BY <1>3, <2>5, <2>6, Zenon DEF Located
  <2> QED
      BY <2>3, <2>5, <2>7, <2>8, Zenon
<1>5. ASSUME NEW r \in R, NEW e \in cq[r].io
      PROVE  e[1] \in S
  <2>1. e \in entries /\ e[1] \in Slots
      BY <1>2
  <2> QED
      BY Zenon, <1>0, <2>1
<1> HIDE DEF answer, entries
<1>6. \A s \in S :
         /\ comp[s].state = "Submitted" /\ Outstanding(s) /\ kernel[s] = "no" /\ ~InSq(s)
         /\ s \notin Range(pool)
    BY <1>3, <1>4, Zenon DEF Located, Outstanding, PooledIsUnshared, Held
<1>7. \A s \in Slots : reported(comp[s], answer(s)) \in {"time", answer(s)}
    BY DEF reported
<1>8. /\ b \in [Slots -> Completions]
      /\ \A s \in Slots \ S : b[s] = comp[s]
      /\ \A s \in S : /\ b[s].kind = comp[s].kind /\ b[s].state = "Completed"
                      /\ b[s].canceled = comp[s].canceled /\ b[s].fd = comp[s].fd
                      /\ b[s].closes = comp[s].closes
                      /\ b[s].result = reported(comp[s], answer(s))
  <2>1. ASSUME NEW s \in S
        PROVE  LET c == [comp[s] EXCEPT !.state = "Completed",
                                        !.result = reported(comp[s], answer(s))] IN
               /\ c \in Completions /\ c.kind = comp[s].kind /\ c.state = "Completed"
               /\ c.canceled = comp[s].canceled /\ c.fd = comp[s].fd
               /\ c.closes = comp[s].closes /\ c.result = reported(comp[s], answer(s))
    <3>1. comp[s] \in Completions
          /\ reported(comp[s], answer(s)) \in {"none", "done", "canceled", "time"}
        BY <1>2, <1>3, <1>4, <1>7
    <3> QED
        BY <3>1, Zenon DEF Completions
  <2>2. \A s \in S : b[s] = [comp[s] EXCEPT !.state = "Completed",
                                           !.result = reported(comp[s], answer(s))]
      BY <1>3, Zenon
  <2>3. \A s \in Slots \ S : b[s] = comp[s]
      OBVIOUS
  <2>4. \A s \in Slots : b[s] \in Completions
      BY <1>2, <2>1, <2>2, <2>3, Zenon
  <2>5. b \in [Slots -> Completions]
    <3>1. b = [s \in Slots |-> b[s]]
        OBVIOUS
    <3> HIDE DEF b
    <3> QED
        BY <2>4, <3>1
  <2> HIDE DEF b
  <2> QED
      BY <2>1, <2>2, <2>3, <2>5, ZenonT(30)
<1>9. /\ sole \in SUBSET Slots /\ sole \in SUBSET S /\ sole \cap Range(pool) = {}
      /\ \A s \in sole : ~HeldByFuture(s) /\ ~HeldByScope(s)
    BY <1>3, <1>6, Zenon
<1> HIDE DEF b, sole
<1>10. /\ pool' \in Seq(Slots) /\ Len(pool') <= MaxPool
       /\ IsInjective(pool') /\ Range(pool') \subseteq Range(pool) \cup sole
       /\ comp' \in [Slots -> Completions]
       /\ \A s \in Slots \ sole : comp'[s] = b[s]
       /\ \A s \in sole :
             /\ comp'[s].kind = None /\ comp'[s].state = "Terminated"
             /\ ~b[s].fd => ~comp'[s].fd /\ comp'[s].closes = b[s].closes
    BY <1>1, <1>8, <1>9, ReturnFacts, ZenonT(30) DEF PooledIsUnshared
<1>11. /\ \A s \in Slots \ S : comp'[s] = comp[s]
       /\ \A s \in S : is_done(comp'[s]) /\ comp'[s].state # "Submitted"
                       /\ comp'[s].state # "Idle"
  <2>1. \A s \in Slots \ S : comp'[s] = comp[s]
      BY <1>8, <1>9, <1>10, Zenon
  <2>2. \A s \in S : comp'[s].state \in {"Completed", "Terminated"}
    <3> HIDE DEF IInv
    <3> QED
        BY <1>3, <1>8, <1>10, SMTT(30)
  <2> QED
      BY <2>1, <2>2, Zenon DEF is_done
<1>12. /\ cq' \in [Rings -> [io : SUBSET (Slots \X {"done", "canceled"}), null : Nat]]
       /\ \A r \in R : cq'[r] = EmptyCq /\ cq'[r].io = {}
       /\ \A r \in Rings \ R : cq'[r] = cq[r]
  <2>1. EmptyCq \in [io : SUBSET (Slots \X {"done", "canceled"}), null : Nat]
        /\ EmptyCq.io = {}
      BY Zenon DEF EmptyCq
  <2> HIDE DEF EmptyCq
  <2> QED
      BY <1>1, <1>2, <2>1, Zenon
<1>13. \A s \in Slots, x \in {"done", "canceled"} :
          Answered(s, x)' <=> Answered(s, x) /\ s \notin S
  <2> SUFFICES ASSUME NEW s \in Slots, NEW x \in {"done", "canceled"}
               PROVE  Answered(s, x)' <=> Answered(s, x) /\ s \notin S
      BY Zenon
  <2>1. ASSUME NEW r \in Rings, <<s, x>> \in cq'[r].io
        PROVE  <<s, x>> \in cq[r].io /\ s \notin S
    <3>1. r \notin R /\ <<s, x>> \in cq[r].io
        BY <1>12, <2>1
    <3>2. r = ring_of(s)
        BY <3>1, Zenon DEF Located
    <3> QED
        BY <1>4, <3>1, <3>2, Zenon
  <2>2. ASSUME NEW r \in Rings, <<s, x>> \in cq[r].io, s \notin S
        PROVE  <<s, x>> \in cq'[r].io
    <3>1. r \notin R
        BY <1>5, <2>2
    <3> QED
        BY <1>12, <2>2, <3>1, Zenon
  <2> QED
      BY <2>1, <2>2 DEF Answered
<1>14. \A s \in Slots : InCq(s)' <=> InCq(s) /\ s \notin S
  <2>1. \A s \in Slots : InCq(s)' <=> Answered(s, "done")' \/ Answered(s, "canceled")'
    <3>1. \A r \in Rings : cq'[r].io \subseteq Slots \X {"done", "canceled"}
        BY Zenon, <1>12
    <3>2. \A s \in Slots : \A r \in Rings : \A e \in cq'[r].io :
             e[1] = s => e = <<s, "done">> \/ e = <<s, "canceled">>
        BY <3>1
    <3> QED
        BY <3>2, ZenonT(30) DEF InCq, Answered
  <2> QED
      BY <1>13, <2>1, PlaceFacts, Zenon
<1>15. \A s \in Slots : /\ InSq(s)' <=> InSq(s)
                        /\ Outstanding(s)' <=> Outstanding(s) /\ s \notin S
  <2>1. \A s \in Slots : InSq(s)' <=> InSq(s)
      BY <1>1, Zenon DEF InSq
  <2> QED
      BY <1>1, <1>6, <1>14, <2>1, Zenon DEF Outstanding
<1>16. \A s \in Slots \ S : ring_of(s)' = ring_of(s)
    BY <1>11, Zenon DEF ring_of
<1>17. \A t : (HeldByFuture(t)' <=> HeldByFuture(t)) /\ (HeldByScope(t)' <=> HeldByScope(t))
    BY <1>1 DEF HeldByFuture, HeldByScope
<1>18. Located'
  <2> SUFFICES ASSUME NEW s \in Slots
               PROVE  /\ comp'[s].state = "Submitted" <=> Outstanding(s)'
                      /\ comp'[s].kind = None => comp'[s].state = "Terminated"
                      /\ \A r \in Rings : io(s) \in Range(sq'[r]) => r = ring_of(s)'
                      /\ \A r \in Rings, res \in {"done", "canceled"} :
                            <<s, res>> \in cq'[r].io => r = ring_of(s)'
                      /\ ~(Answered(s, "done")' /\ Answered(s, "canceled")')
                      /\ InSq(s)' => kernel'[s] = "no" /\ ~InCq(s)'
                      /\ InCq(s)' => kernel'[s] = "no"
      BY Zenon DEF Located
  <2>1. comp'[s].state = "Submitted" <=> Outstanding(s)'
      BY <1>11, <1>15, ZenonT(30) DEF Located
  <2>2. comp'[s].kind = None => comp'[s].state = "Terminated"
    <3>1. CASE s \notin S
        BY <1>11, <3>1, Zenon DEF Located
    <3>2. CASE s \in sole
        BY <1>10, <3>2, Zenon
    <3>3. CASE s \in S /\ s \notin sole
      <4>1. comp[s].kind # None
          BY <1>6, <3>3, Zenon DEF Located
      <4> QED
          BY <1>8, <1>10, <3>3, <4>1, Zenon
    <3> QED
        BY <3>1, <3>2, <3>3
  <2>3. ASSUME NEW r \in Rings, io(s) \in Range(sq'[r])
        PROVE  r = ring_of(s)'
    <3>1. io(s) \in Range(sq[r]) /\ InSq(s) /\ s \notin S
        BY <1>1, <1>6, <2>3, Zenon DEF InSq
    <3> QED
        BY <1>16, <3>1, Zenon DEF Located
  <2>4. ASSUME NEW r \in Rings, NEW res \in {"done", "canceled"}, <<s, res>> \in cq'[r].io
        PROVE  r = ring_of(s)'
    <3>1. s \notin S /\ <<s, res>> \in cq[r].io
      <4>1. Answered(s, res)'
          BY <2>4, SMTT(30) DEF Answered
      <4>2. s \notin S
          BY <1>13, <4>1, Zenon
      <4>3. r \notin R
          BY <1>12, <2>4
      <4> QED
          BY <1>12, <2>4, <4>2, <4>3, Zenon
    <3> QED
        BY <1>16, <3>1, ZenonT(30) DEF Located
  <2>5. ~(Answered(s, "done")' /\ Answered(s, "canceled")')
      BY <1>13, Zenon DEF Located
  <2>6. /\ InSq(s)' => kernel'[s] = "no" /\ ~InCq(s)'
        /\ InCq(s)' => kernel'[s] = "no"
      BY <1>1, <1>14, <1>15, Zenon DEF Located
  <2> QED
      BY <2>1, <2>2, <2>3, <2>4, <2>5, <2>6, Zenon
<1>19. Canceling'
  <2> SUFFICES ASSUME NEW s \in Slots
               PROVE  /\ kernel'[s] = "cancelling" => comp'[s].canceled
                      /\ Answered(s, "canceled")' =>
                            comp'[s].canceled \/ comp'[s].kind.timespec
                      /\ \A r \in Rings : \A i \in DOMAIN sq'[r] :
                            /\ comp'[s].state = "Submitted" /\ r = ring_of(s)'
                            /\ sq'[r][i] = async_cancel(s)
                            /\ kernel'[s] # "no" \/ \E j \in 1..i : sq'[r][j] = io(s)
                            => comp'[s].canceled
      BY Zenon DEF Canceling
  <2>1. CASE s \in S
      BY <1>1, <1>6, <1>11, <1>13, <2>1, Zenon
  <2>2. CASE s \notin S
    <3>1. comp'[s] = comp[s] /\ ring_of(s)' = ring_of(s)
        BY <1>11, <1>16, <2>2, Zenon
    <3>2. kernel'[s] = "cancelling" => comp'[s].canceled
        BY <1>1, <3>1, Zenon DEF Canceling
    <3>3. Answered(s, "canceled")' => comp'[s].canceled \/ comp'[s].kind.timespec
        BY <1>13, <3>1, Zenon DEF Canceling
    <3>4. \A r \in Rings : \A i \in DOMAIN sq'[r] :
             /\ comp'[s].state = "Submitted" /\ r = ring_of(s)'
             /\ sq'[r][i] = async_cancel(s)
             /\ kernel'[s] # "no" \/ \E j \in 1..i : sq'[r][j] = io(s)
             => comp'[s].canceled
        BY <1>1, <3>1, Zenon DEF Canceling
    <3> QED
        BY <3>2, <3>3, <3>4, Zenon
  <2> QED
      BY <2>1, <2>2, Zenon
<1>20. ASSUME NEW r \in Rings
       PROVE  /\ in_flight'[r] \in Nat
              /\ in_flight'[r] = Entries(SqIo(r))' + Cardinality(Cancels(sq'[r]))
                                 + Entries(KernelIo(r))' + CqLen(cq'[r])
  <2>1. in_flight[r] = Entries(SqIo(r)) + Cardinality(Cancels(sq[r]))
                       + Entries(KernelIo(r)) + CqLen(cq[r])
      BY Zenon DEF InFlightCounts, SqIo, KernelIo
  <2>2. /\ Entries(SqIo(r)) \in Nat /\ Entries(KernelIo(r)) \in Nat
        /\ Cardinality(Cancels(sq[r])) \in Nat /\ CqLen(cq[r]) \in Nat
        /\ SqIo(r) \in SUBSET Slots /\ KernelIo(r) \in SUBSET Slots
      BY CountTypes, ZenonT(30)
  <2>3. \A s \in SqIo(r) \cup KernelIo(r) : s \in Slots /\ s \notin S
      BY <1>6 DEF SqIo, KernelIo, InSq
  <2>4. SqIo(r)' = SqIo(r)
      BY <1>1, Zenon DEF SqIo
  <2>5. KernelIo(r)' = KernelIo(r)
    <3>1. \A s \in Slots : kernel[s] # "no" => s \notin S
        BY <1>6, Zenon
    <3> QED
        BY <1>1, <1>16, <3>1, Zenon DEF KernelIo
  <2>6. Entries(SqIo(r))' = Entries(SqIo(r)) /\ Entries(KernelIo(r))' = Entries(KernelIo(r))
    <3>1. \A s \in SqIo(r) \cup KernelIo(r) : comp'[s].kind = comp[s].kind
        BY <1>11, <2>3, Zenon
    <3> HIDE DEF IInv
    <3>2. {s \in SqIo(r) : comp'[s].kind.timespec} = {s \in SqIo(r) : comp[s].kind.timespec}
        BY <3>1, SMTT(30)
    <3>3. {s \in KernelIo(r) : comp'[s].kind.timespec}
             = {s \in KernelIo(r) : comp[s].kind.timespec}
        BY <3>1
    <3>4. Entries(SqIo(r))' = Entries(SqIo(r))
        BY <2>4, <3>2, Zenon DEF Entries
    <3>5. Entries(KernelIo(r))' = Entries(KernelIo(r))
        BY <2>5, <3>3, Zenon DEF Entries
    <3> QED
        BY <3>4, <3>5, Zenon
  <2>7. CqLen(EmptyCq) = 0
    <3>1. Cardinality({}) = 0
        BY DEF Counting, CountNone
    <3> QED
        BY <3>1 DEF CqLen, EmptyCq
  <2>8. sq' = sq /\ in_flight[r] \in Nat
      BY <1>1, <1>2, ZenonT(30)
  <2>9. CASE r \in R
    <3>1. in_flight'[r] = in_flight[r] - CqLen(cq[r]) /\ CqLen(cq'[r]) = 0
        BY <1>1, <1>12, <2>7, <2>9, ZenonT(30)
    <3> QED
        BY <2>1, <2>2, <2>6, <2>8, <3>1, SMTT(30)
  <2>10. CASE r \notin R
    <3>1. in_flight'[r] = in_flight[r] - 0 /\ CqLen(cq'[r]) = CqLen(cq[r])
        BY <1>1, <1>12, <2>10
    <3> QED
        BY <2>1, <2>2, <2>6, <2>8, <3>1, SMTT(30)
  <2> QED
      BY <2>9, <2>10, Zenon
<1>21. InFlightCounts'
    BY <1>20, Zenon DEF InFlightCounts, SqIo, KernelIo
<1>22. TypeOK'
  <2>1. in_flight' \in [Rings -> Nat]
      BY <1>1, <1>20, Zenon
  <2> QED
      BY <1>1, <1>10, <1>12, <2>1, Zenon DEF TypeOK, ThreadType
<1>23. Owners'
    BY <1>1, Zenon DEF Owners
<1>24. PooledIsUnshared'
  <2>1. \A t \in Range(pool) : t \in Slots /\ ~Held(t)
      BY PooledSlots, ZenonT(30)
  <2>2. \A t \in sole : t \in Slots /\ ~HeldByFuture(t) /\ ~HeldByScope(t) /\ t \in S
      BY <1>9
  <2> QED
      BY <1>10, <1>15, <1>17, <2>1, <2>2, Zenon DEF PooledIsUnshared, Held
<1>25. BorrowedOutlivesRequest'
    BY <1>11, <1>15, <1>17, Zenon DEF BorrowedOutlivesRequest
<1>26. Closing'
  <2>1. \A t \in Slots \ S : ClosingAt(t)'
      BY <1>11, <1>13, <1>17, ClosingSame, Zenon DEF Closing
  <2>2. ASSUME NEW s \in S
        PROVE  ClosingAt(s)'
    <3>1. ClosingAt(s) /\ s \in Slots
        BY <1>3 DEF Closing
    <3>2. b[s].fd <=> comp[s].fd
      <4>1. b[s].fd = comp[s].fd
          BY <1>8
      <4> QED
          BY <4>1, Zenon
    <3>3. CASE ~comp[s].fd
      <4>1. comp[s].closes = 1
          BY <3>1, <3>3, Zenon DEF ClosingAt
      <4>2. ~comp'[s].fd /\ comp'[s].closes = 1
          BY <1>8, <1>10, <3>1, <3>2, <3>3, <4>1, Zenon
      <4> QED
          BY <1>11, <4>2, Zenon DEF ClosingAt
    <3>4. CASE comp[s].fd
      <4>1. /\ HeldByFuture(s) /\ comp[s].kind # None /\ comp[s].kind.resources = "CloseFd"
            /\ comp[s].closes = IF Answered(s, "done") THEN 1 ELSE 0
          BY <1>6, <3>1, <3>4, Zenon DEF ClosingAt
      <4>2. comp'[s] = b[s]
          BY <1>9, <1>10, <3>1, <4>1, ZenonT(30)
      <4>3. ~comp[s].kind.timespec
        <5>1. comp[s].kind \in RequestKinds
            BY <1>2, <3>1, <4>1, Zenon DEF Completions
        <5> QED
            BY <4>1, <5>1, Zenon DEF RequestKinds
      <4>4. answer(s) \in {"done", "canceled"} /\ Answered(s, answer(s))
          BY <1>4
      <4>5. answer(s) = "canceled" => comp[s].canceled /\ ~Answered(s, "done")
          BY <3>1, <4>3, <4>4, Zenon DEF Canceling, Located
      <4>6. comp'[s].result = answer(s) /\ comp'[s].state = "Completed"
          BY <1>8, <4>2, <4>4, <4>5, ZenonT(30) DEF reported
      <4>7. comp'[s].closes = comp[s].closes /\ comp'[s].kind = comp[s].kind
            /\ (comp'[s].fd <=> comp[s].fd)
          BY <1>8, <3>2, <4>2, Zenon
      <4>8. ~Answered(s, "done")'
          BY <1>13, <3>1, Zenon
      <4>9. HeldByFuture(s)'
          BY <1>17, <4>1
      <4> HIDE DEF IInv
      <4> QED
          BY <3>4, <4>1, <4>4, <4>5, <4>6, <4>7, <4>8, <4>9, Zenon DEF ClosingAt
    <3> QED
        BY <3>3, <3>4, Zenon
  <2> QED
      BY <2>1, <2>2 DEF Closing
<1>27. ScopeTracks'
  <2>1. \A d \in Scopes : \A t \in started[d] :
           t \in Slots /\ (is_done(comp'[t]) \/ comp'[t] = comp[t])
      BY <1>11, Zenon DEF TypeOK
  <2> QED
      BY <1>1, <2>1, Zenon DEF ScopeTracks
<1>28. ThreadHolds'
  <2>1. CASE thread' = User
      BY <2>1, UserHolds, ZenonT(30)
  <2>2. CASE thread'.what = thread.what
    <3>1. \A f \in Futures : handle[f] # None =>
             handle[f] \in Slots /\ (comp'[handle[f]].state = "Idle"
                                     => comp[handle[f]].state = "Idle")
        BY <1>11, Zenon DEF TypeOK
    <3> QED
        BY <1>1, <2>2, <3>1 DEF ThreadHolds
  <2> QED
      BY <2>1, <2>2, Zenon
<1> QED
    BY <1>18, <1>19, <1>21, <1>22, <1>23, <1>24, <1>25, <1>26, <1>27, <1>28, Zenon

-----------------------------------------------------------------------------
(* The invariant.                                                          *)

LEMMA InitIInv ==
    ASSUME Counting, Init
    PROVE  IInv
<1> USE DEF Init
<1>1. Unused \in Completions /\ Unused.kind = None /\ Unused.state = "Terminated"
      /\ ~Unused.fd /\ Unused.closes = 1
    BY DEF Unused, Completions
<1>2. User \in [at : {"user", "enter", "wait", "reap", "resume"}, what : Callers,
                rings : SUBSET Rings, busy : BOOLEAN] /\ User.what = <<None, None>>
    BY ZenonT(30) DEF User, Callers
<1>3. EmptyCq \in [io : SUBSET (Slots \X {"done", "canceled"}), null : Nat]
      /\ EmptyCq.io = {}
    BY DEF EmptyCq
<1>4. TypeOK
  <2>1. <<>> \in Seq(Slots) /\ Len(<<>>) <= MaxPool
      BY PoolAssumption
  <2> HIDE DEF Init
  <2>2. /\ comp \in [Slots -> Completions] /\ handle \in [Futures -> Slots \cup {None}]
        /\ pool \in Seq(Slots) /\ Len(pool) <= MaxPool
      BY Zenon, <1>1, <2>1 DEF Init
  <2>3. /\ captured \in [Scopes -> {None} \cup SUBSET Slots]
        /\ started \in [Scopes -> SUBSET Slots] /\ given_up \in [Scopes -> SUBSET Slots]
      BY Zenon DEF Init
  <2>4. /\ sq \in [Rings -> Seq({"io", "cancel"} \X Slots)]
        /\ cq \in [Rings -> [io : SUBSET (Slots \X {"done", "canceled"}), null : Nat]]
        /\ kernel \in [Slots -> {"no", "running", "cancelling"}]
        /\ in_flight \in [Rings -> Nat]
      BY <1>3 DEF Init
  <2>5. thread \in [at : {"user", "enter", "wait", "reap", "resume"}, what : Callers,
                    rings : SUBSET Rings, busy : BOOLEAN]
      BY Zenon, <1>2 DEF Init
  <2> QED
      BY <2>2, <2>3, <2>4, <2>5, Zenon DEF TypeOK
<1> HIDE DEF Unused, User, EmptyCq
<1>5. /\ \A s \in Slots : comp[s] = Unused /\ kernel[s] = "no"
      /\ \A r \in Rings : sq[r] = <<>> /\ Range(sq[r]) = {} /\ DOMAIN sq[r] = {}
      /\ \A r \in Rings : cq[r] = EmptyCq /\ cq[r].io = {}
    BY <1>3, SMTT(30) DEF Range
<1>6. \A s \in Slots : /\ ~InSq(s) /\ ~InCq(s) /\ ~Outstanding(s)
                       /\ ~Answered(s, "done") /\ ~Answered(s, "canceled")
    BY <1>5 DEF InSq, InCq, Outstanding, Answered
<1>7. Located
    BY <1>1, <1>5, <1>6, Zenon DEF Located
<1>8. Owners
    BY Zenon DEF Owners
<1>9. PooledIsUnshared
    BY DEF PooledIsUnshared, Range, IsInjective
<1>10. BorrowedOutlivesRequest
    BY <1>6, Zenon DEF BorrowedOutlivesRequest
<1>11. Closing
    BY <1>1, <1>5, Zenon DEF Closing, ClosingAt
<1>12. Canceling
    BY <1>5, <1>6, Zenon DEF Canceling
<1>13. ScopeTracks
    BY Zenon DEF ScopeTracks
<1>14. ThreadHolds
    BY <1>2, NoneAssumption, SMTT(30) DEF ThreadHolds
<1>15. InFlightCounts
  <2> SUFFICES ASSUME NEW r \in Rings
               PROVE  in_flight[r] = Entries({s \in Slots : io(s) \in Range(sq[r])})
                         + Cardinality(Cancels(sq[r]))
                         + Entries({s \in Slots : kernel[s] # "no" /\ ring_of(s) = r})
                         + CqLen(cq[r])
      BY Zenon DEF InFlightCounts
  <2>1. Cardinality({}) = 0
      BY Zenon DEF Counting, CountNone
  <2>2. Entries({}) = 0
    <3>1. {s \in {} : comp[s].kind.timespec} = {}
        BY Zenon
    <3> QED
        BY <2>1, <3>1 DEF Entries
  <2>3. /\ {s \in Slots : io(s) \in Range(sq[r])} = {}
        /\ {s \in Slots : kernel[s] # "no" /\ ring_of(s) = r} = {}
        /\ Cancels(sq[r]) = {}
    <3> HIDE DEF Init
    <3>1. {s \in Slots : io(s) \in Range(sq[r])} = {}
        BY <1>5, Zenon
    <3>2. {s \in Slots : kernel[s] # "no" /\ ring_of(s) = r} = {}
        BY Zenon, <1>5
    <3>3. Cancels(sq[r]) = {}
        BY <1>5, Zenon DEF Cancels
    <3> QED
        BY <3>1, <3>2, <3>3, Zenon
  <2>4. CqLen(cq[r]) = 0
    <3>1. CqLen(EmptyCq) = 0
        BY <2>1 DEF CqLen, EmptyCq
    <3> QED
        BY <1>5, <3>1, Zenon
  <2>5. in_flight[r] = 0
      OBVIOUS
  <2>6. Cardinality(Cancels(sq[r])) = 0
      BY <2>1, <2>3, Zenon
  <2>7. /\ Entries({s \in Slots : io(s) \in Range(sq[r])}) = 0
        /\ Entries({s \in Slots : kernel[s] # "no" /\ ring_of(s) = r}) = 0
      BY <2>2, <2>3, Zenon
  <2> HIDE DEF Init
  <2> QED
    <3> HIDE DEF Init
    <3> QED
        BY <2>4, <2>5, <2>6, <2>7, SMTT(30)
<1> QED
    BY <1>4, <1>7, <1>8, <1>9, <1>10, <1>11, <1>12, <1>13, <1>14, <1>15, Zenon DEF IInv

\* A step inside submit_and_complete_io.
LEMMA ThreadGoesOn ==
    ASSUME IInv, NEW at \in {"user", "enter", "wait", "reap", "resume"},
           thread' = [thread EXCEPT !.at = at]
    PROVE  ThreadType' /\ thread'.what = thread.what
    BY ZenonT(30) DEF IInv, TypeOK, ThreadType

LEMMA EnteredFacts ==
    ASSUME IInv
    PROVE  /\ entered(thread.rings) \in SUBSET Rings
           /\ \A r \in Rings : entered({r}) \in SUBSET Rings
    BY Zenon DEF IInv, TypeOK, entered

LEMMA CallSteps ==
    ASSUME Counting, IInv, Enter \/ Refuse \/ Reap \/ Interrupt
    PROVE  IInv'
<1>1. CASE Enter
  <2>1. PICK at \in {"wait", "reap"} : thread' = [thread EXCEPT !.at = at]
      BY <1>1 DEF Enter
  <2>2. /\ Issue(entered(thread.rings))
        /\ UNCHANGED <<comp, handle, pool, captured, started, given_up, in_flight>>
      BY <1>1 DEF Enter
  <2>3. ThreadType' /\ thread'.what = thread.what
      BY <2>1, ThreadGoesOn, Zenon
  <2>4. ThreadHolds'
      BY <2>2, <2>3 DEF IInv, ThreadHolds
  <2> QED
      BY <2>2, <2>3, <2>4, EnteredFacts, IssueKeeps
<1>2. CASE Refuse
  <2>1. /\ thread' = [thread EXCEPT !.at = "reap"]
        /\ UNCHANGED <<comp, handle, pool, captured, started, given_up, sq, cq, kernel, in_flight>>
      BY <1>2 DEF Refuse
  <2>2. ThreadType' /\ thread'.what = thread.what
      BY <2>1, ThreadGoesOn
  <2>3. ThreadHolds'
      BY <2>1, <2>2, Zenon DEF IInv, ThreadHolds
  <2> QED
      BY <2>1, <2>2, <2>3, ThreadStep
<1>3. CASE Reap
  <2>1. process_completions(entered(thread.rings))
      BY <1>3 DEF Reap
  <2>2. thread' = User \/ thread' = [thread EXCEPT !.at = "resume"]
      BY <1>3 DEF Reap
  <2>3. ThreadType' /\ (thread'.what = thread.what \/ thread' = User)
      BY <2>2, ThreadGoesOn, UserType
  <2> QED
      BY <2>1, <2>3, EnteredFacts, ReapKeeps
<1>4. CASE Interrupt
  <2>1. /\ thread' = [thread EXCEPT !.at = "resume"]
        /\ UNCHANGED <<comp, handle, pool, captured, started, given_up, sq, cq, kernel, in_flight>>
      BY <1>4 DEF Interrupt
  <2>2. ThreadType' /\ thread'.what = thread.what
      BY <2>1, ThreadGoesOn
  <2>3. ThreadHolds'
      BY <2>1, <2>2 DEF IInv, ThreadHolds
  <2> QED
      BY <2>1, <2>2, <2>3, ThreadStep
<1> QED
    BY <1>1, <1>2, <1>3, <1>4, Zenon

LEMMA LoopSteps ==
    ASSUME Counting, IInv, NEW r \in Rings, LoopEnters({r}) \/ LoopReaps({r})
    PROVE  IInv'
<1>1. entered({r}) \in SUBSET Rings
    BY EnteredFacts
<1>2. thread' = User /\ thread' = thread
    BY DEF LoopEnters, LoopReaps, InUser
<1>3. ThreadType' /\ ThreadHolds' /\ thread'.what = thread.what
    BY <1>2, UserType, UserHolds, Zenon
<1>4. CASE LoopEnters({r})
  <2>1. /\ Issue(entered({r}))
        /\ UNCHANGED <<comp, handle, pool, captured, started, given_up, in_flight>>
      BY <1>4, Zenon DEF LoopEnters
  <2> QED
      BY <1>1, <1>3, <2>1, IssueKeeps, Zenon
<1>5. CASE LoopReaps({r})
  <2>1. process_completions(entered({r}))
      BY Zenon, <1>5 DEF LoopReaps
  <2> QED
      BY <1>1, <1>3, <2>1, ReapKeeps, SMTT(30)
<1> QED
    BY <1>4, <1>5, Zenon

LEMMA Stutters ==
    ASSUME IInv, UNCHANGED vars
    PROVE  IInv'
<1>1. /\ UNCHANGED <<comp, handle, pool, captured, started, given_up, sq, cq, kernel, in_flight>>
      /\ thread' = thread
    BY DEF vars
<1>2. ThreadType' /\ ThreadHolds'
    BY <1>1, Zenon DEF IInv, TypeOK, ThreadType, ThreadHolds
<1> QED
    BY <1>1, <1>2, ThreadStep, Zenon

-----------------------------------------------------------------------------
(* What follows from the invariant.                                       *)

LEMMA AtMostOne ==
    ASSUME Counting, NEW A, NEW x, A \subseteq {x}
    PROVE  /\ Cardinality(A) \in {0, 1}
           /\ A = {} => Cardinality(A) = 0
<1>1. Cardinality({}) = 0 /\ Cardinality({x}) = 1
    BY DEF Counting, CountNone, CountOne
<1>2. A = {} \/ A = {x}
    OBVIOUS
<1> QED
    BY Zenon, <1>1, <1>2

LEMMA TrackedFromIInv ==
    ASSUME Counting, IInv
    PROVE  CompletionsTracked
<1> USE DEF IInv
<1> SUFFICES ASSUME NEW s \in Slots
             PROVE  /\ comp[s].state = "Submitted" <=> Outstanding(s)
                    /\ Outstanding(s) => s \notin Range(pool)
                    /\ Cardinality({r \in Rings : io(s) \in Range(sq[r])})
                       + (IF kernel[s] = "no" THEN 0 ELSE 1)
                       + Cardinality({e \in UNION {cq[r].io : r \in Rings} : e[1] = s}) <= 1
    BY Zenon DEF CompletionsTracked, SubmittedIsOutstanding
<1>1. PICK A : A = {r \in Rings : io(s) \in Range(sq[r])}
    BY Zenon
<1>2. PICK B : B = {e \in UNION {cq[r].io : r \in Rings} : e[1] = s}
    BY Zenon
<1>3. comp[s].state = "Submitted" <=> Outstanding(s)
    BY Zenon DEF Located
<1>4. Outstanding(s) => s \notin Range(pool)
    BY DEF PooledIsUnshared, Held
<1>5. A \subseteq {ring_of(s)} /\ (A = {} <=> ~InSq(s))
    BY <1>1, Zenon DEF Located, InSq
<1>6. PICK x : x = <<s, IF Answered(s, "done") THEN "done" ELSE "canceled">>
    BY Zenon
<1>7. B \subseteq {x} /\ (B = {} <=> ~InCq(s))
  <2>1. ASSUME NEW e \in B
        PROVE  e = x
    <3>1. PICK r \in Rings : e \in cq[r].io
        BY <1>2, SMTT(30)
    <3>2. e[1] = s /\ e \in Slots \X {"done", "canceled"}
        BY <1>2, <3>1, Zenon DEF TypeOK
    <3>3. CASE e = <<s, "done">>
      <4>1. Answered(s, "done")
          BY <3>1, <3>3, Zenon DEF Answered
      <4> QED
          BY <1>6, <3>3, <4>1
    <3>4. CASE e = <<s, "canceled">>
      <4>1. Answered(s, "canceled")
          BY <3>1, <3>4, Zenon DEF Answered
      <4>2. ~Answered(s, "done")
          BY <4>1, ZenonT(30) DEF Located
      <4> QED
          BY <1>6, <3>4, <4>2
    <3> QED
        BY <3>2, <3>3, <3>4, SMTT(30)
  <2>2. B = {} <=> ~InCq(s)
      BY <1>2, Zenon DEF InCq
  <2> QED
      BY <2>1, <2>2, Zenon
<1>8. /\ Cardinality(A) \in {0, 1} /\ (~InSq(s) => Cardinality(A) = 0)
      /\ Cardinality(B) \in {0, 1} /\ (~InCq(s) => Cardinality(B) = 0)
    BY <1>5, <1>7, AtMostOne
<1>9. /\ InSq(s) => kernel[s] = "no" /\ ~InCq(s)
      /\ InCq(s) => kernel[s] = "no"
    BY Zenon DEF Located
<1>10. Cardinality(A) + (IF kernel[s] = "no" THEN 0 ELSE 1) + Cardinality(B) <= 1
  <2>1. CASE kernel[s] = "no"
      BY <1>8, <1>9, <2>1, SMTT(30)
  <2>2. CASE kernel[s] # "no"
      BY <1>8, <1>9, <2>2
  <2> QED
      BY <2>1, <2>2, Zenon
<1> QED
    BY <1>1, <1>2, <1>3, <1>4, <1>10, Zenon

\* A scope ends by io_scope_cancel_and_wait, or had nothing left.
LEMMA ScopeOver ==
    ASSUME Counting, IInv, NEW c \in Scopes, NEW d \in Scopes, captured[c] # None, captured'[c] = None,
           ScopeEnd(d) \/ ScopeCancels(d) \/ ScopeWaits(d)
    PROVE  \A s \in started[c] \ given_up[c] : is_done(comp'[s])
<1> USE DEF IInv
<1>1. /\ captured \in [Scopes -> {None} \cup SUBSET Slots]
      /\ started \in [Scopes -> SUBSET Slots] /\ comp \in [Slots -> Completions]
      /\ \A T \in SUBSET Slots : T # None
    BY NoneAssumption, Zenon DEF TypeOK
<1>2. \A s \in started[c] \ given_up[c] : s \in captured[c] \/ is_done(comp[s])
    BY ZenonT(30) DEF ScopeTracks
<1>3. CASE ScopeEnd(d)
  <2>1. captured' = captured \/ (captured[d] = {} /\ captured' = [captured EXCEPT ![d] = None])
      BY <1>3, Zenon DEF ScopeEnd
  <2>2. d = c /\ captured[c] = {} /\ comp' = comp
      BY <1>1, <1>3, <2>1, Zenon DEF ScopeEnd
  <2> QED
      BY <1>2, <2>2
<1>4. CASE ScopeCancels(d) \/ ScopeWaits(d)
  <2>0. PICK left : left = retain_incomplete(d)
      BY Zenon
  <2>1. ScopeWaitsFor(d, left)
      BY <1>4, <2>0, Zenon DEF ScopeCancels, ScopeWaits
  <2>2. d = c /\ left = {}
    <3>1. captured[d] # None
        BY <1>4, ZenonT(30) DEF ThreadHolds, ScopeCancels, ScopeWaits
    <3>2. left \in SUBSET Slots
        BY <1>1, <2>0, <3>1 DEF retain_incomplete
    <3> QED
        BY <1>1, <2>1, <3>2, Zenon DEF ScopeWaitsFor, Call
  <2>3. \A s \in captured[c] : is_done(comp[s])
      BY <2>0, <2>2, Zenon DEF retain_incomplete
  <2>4. PICK X : X = {s \in captured[c] : ~HeldByFuture(s) /\ ~Outstanding(s)}
      BY ZenonT(30)
  <2>5. return_completion(X, comp)
    <3>1. captured[c] \ left = captured[c]
        BY <2>2
    <3>2. CASE ScopeWaits(d)
        BY <2>0, <2>2, <2>4, <3>1, <3>2, Zenon DEF ScopeWaits, ScopeReturns
    <3>3. CASE ScopeCancels(d)
      <4>1. [s \in Slots |-> IF s \in left THEN cancel(comp[s]) ELSE comp[s]] = comp
          BY <1>1, <2>2, Zenon
      <4>2. ScopeReturns(captured[c] \ left, comp)
          BY <2>0, <2>2, <3>3, <4>1, Zenon DEF ScopeCancels
      <4> QED
          BY <2>4, <3>1, <4>2, Zenon DEF ScopeReturns
    <3> QED
        BY <1>4, <3>2, <3>3, ZenonT(30)
  <2>6. X \in SUBSET Slots /\ X \cap Range(pool) = {}
    <3>1. \A s \in X : HeldByScope(s)
        BY <2>4 DEF HeldByScope
    <3> QED
        BY <1>1, <2>4, <3>1, Zenon DEF PooledIsUnshared, Held
  <2>7. /\ \A s \in Slots \ X : comp'[s] = comp[s]
        /\ \A s \in X : comp'[s].state = "Terminated"
      BY <1>1, <2>5, <2>6, ReturnFacts, Zenon DEF PooledIsUnshared
  <2> QED
      BY <1>1, <1>2, <2>3, <2>7, Zenon DEF is_done
<1> QED
    BY <1>3, <1>4, Zenon

\* Only these steps end a scope.
LEMMA ScopeGoesOn ==
    ASSUME IInv, NEW c \in Scopes, captured[c] # None, captured'[c] = None, [Next]_vars
    PROVE  \E d \in Scopes : ScopeEnd(d) \/ ScopeCancels(d) \/ ScopeWaits(d)
<1> USE DEF IInv
<1>1. /\ captured \in [Scopes -> {None} \cup SUBSET Slots] /\ captured[c] \in SUBSET Slots
      /\ \A T \in SUBSET Slots : T # None
    BY NoneAssumption, Zenon DEF TypeOK
<1>2. captured' # captured
    OBVIOUS
<1>3. CASE Enter \/ Refuse \/ Reap \/ Interrupt
    BY <1>2, <1>3, Zenon DEF Enter, Refuse, Reap, Interrupt, process_completions
<1>4. CASE \E r \in Rings : LoopEnters({r}) \/ LoopReaps({r})
    BY <1>2, <1>4, Zenon DEF LoopEnters, LoopReaps, process_completions
<1>5. CASE \E s \in Slots, res \in {"done", "canceled"} : KernelComplete(s, res)
    BY <1>2, <1>5, Zenon DEF KernelComplete
<1>6. ASSUME NEW f \in Futures, NEW e \in Scopes \cup {None}, NEW k \in Kinds[f],
             with_polled(f, k, e)
      PROVE  FALSE
  <2>0. PICK s : s = Allocated
      OBVIOUS
  <2>1. /\ (\E t \in Slots : ~Held(t)) /\ new_completion(Allocated)
        /\ captured' = [d \in Scopes |-> IF d = e THEN captured[d] \cup {s} ELSE captured[d]]
      BY <1>6, <2>0, Zenon DEF with_polled, register_io
  <2>2. s \in Slots
      BY <2>0, <2>1, AllocatedFacts, Zenon
  <2>3. captured'[c] \in SUBSET Slots
      BY <1>1, <2>1, <2>2
  <2> QED
      BY <1>1, <2>3, Zenon
<1>7. ASSUME NEW f \in Futures,
             PollIdle(f) \/ PollCompleted(f) \/ Cancel(f) \/ Drop(f) \/ DropResume(f)
      PROVE  FALSE
    BY <1>2, <1>7, Zenon DEF PollIdle, PollCompleted, Cancel, Drop, DropResume, Dropped
<1>8. ASSUME NEW d \in Scopes,
             io_scope(d) \/ io_scope_cancel(d) \/ cancel_io_scope_completions(d)
      PROVE  FALSE
  <2>1. captured' = captured \/ captured' = [captured EXCEPT ![d] = {}]
      BY <1>8, Zenon DEF io_scope, io_scope_cancel, cancel_io_scope_completions
  <2>2. {} \in SUBSET Slots
      BY Zenon
  <2> QED
      BY <1>1, <1>2, <2>1, <2>2
<1>9. CASE UNCHANGED vars
    BY Zenon, <1>2, <1>9 DEF vars
<1> QED
    BY <1>3, <1>4, <1>5, <1>6, <1>7, <1>8, <1>9, Zenon DEF Next

-----------------------------------------------------------------------------
(* The theorems.                                                           *)

INSTANCE FiniteSetTheorems

LEMMA FiniteSetsCount == Counting
<1>1. CountOf /\ CountMatched /\ CountInjected
    BY FS_CardinalityType, FS_Bijection, FS_Injection DEF CountOf, CountMatched, CountInjected
<1>2. CountNone /\ CountOne
    BY FS_EmptySet, FS_Singleton DEF CountNone, CountOne
<1>3. CountAdded /\ CountRemoved
    BY FS_AddElement, FS_RemoveElement, Zenon DEF CountAdded, CountRemoved
<1>4. CountWithin
    BY FS_Subset DEF CountWithin
<1>5. CountInterval
    BY FS_Interval, Zenon DEF CountInterval
<1>6. CountUnion /\ CountPairs
    BY FS_Union, FS_Product, Zenon DEF CountUnion, CountPairs
<1> QED
    BY <1>1, <1>2, <1>3, <1>4, <1>5, <1>6 DEF Counting

\* The invariant holds in every reachable state.
THEOREM Invariance == Spec => []IInv
<1> USE FiniteSetsCount
<1>1. Init => IInv
    BY InitIInv
<1>2. IInv /\ [Next]_vars => IInv'
  <2> SUFFICES ASSUME IInv, [Next]_vars
               PROVE  IInv'
      BY Zenon
  <2>1. CASE Enter \/ Refuse \/ Reap \/ Interrupt
      BY Zenon, <2>1, CallSteps
  <2>2. CASE \E r \in Rings : LoopEnters({r}) \/ LoopReaps({r})
      BY Zenon, <2>2, LoopSteps
  <2>3. CASE \E s \in Slots, res \in {"done", "canceled"} : KernelComplete(s, res)
      BY <2>3, KernelCompleteKeeps, Zenon
  <2>4. CASE \E f \in Futures, c \in Scopes \cup {None} : \E k \in Kinds[f] : with_polled(f, k, c)
      BY <2>4, WithPolledKeeps, Zenon
  <2>5. ASSUME NEW f \in Futures,
               PollIdle(f) \/ PollCompleted(f) \/ Cancel(f) \/ Drop(f) \/ DropResume(f)
        PROVE  IInv'
      BY <2>5, PollIdleKeeps, PollCompletedKeeps, CancelKeeps, DropKeeps, DropResumeKeeps, SMTT(30)
  <2>6. ASSUME NEW c \in Scopes,
               \/ io_scope(c) \/ io_scope_cancel(c) \/ cancel_io_scope_completions(c)
               \/ ScopeEnd(c) \/ ScopeCancels(c) \/ ScopeWaits(c)
        PROVE  IInv'
      BY SMTT(30), <2>6, IoScopeKeeps, IoScopeCancelKeeps, CancelScopeKeeps, ScopeEndKeeps,
         ScopeCancelsKeeps, ScopeWaitsKeeps
  <2>7. CASE UNCHANGED vars
      BY <2>7, Stutters
  <2> QED
      BY <2>1, <2>2, <2>3, <2>4, <2>5, <2>6, <2>7, Zenon DEF Next
<1> QED
    BY <1>1, <1>2, PTL DEF Spec

\* TypeOK: among others, no counter of entries in flight (increment_in_flight,
\* decrement_in_flight) ever falls below zero, and the pool stays within its limit.
THEOREM TypeCorrect == Spec => []TypeOK
<1>1. IInv => TypeOK
    BY DEF IInv
<1> QED
    BY <1>1, Invariance, PTL

\* No completion is lost, shared or counted twice between the futures, the scopes,
\* the queues, the kernel and the pool: complete and new_completion never meet the
\* states that they rule out.
THEOREM Tracked == Spec => []CompletionsTracked
<1> USE FiniteSetsCount
<1>1. IInv => CompletionsTracked
    BY Zenon, TrackedFromIInv
<1> QED
    BY <1>1, Invariance, PTL

\* Drop does not return while the kernel works on memory that the request borrows or
\* on a descriptor.
THEOREM Borrowed == Spec => []BorrowedOutlivesRequest
<1>1. IInv => BorrowedOutlivesRequest
    BY Zenon DEF IInv
<1> QED
    BY <1>1, Invariance, PTL

\* finish_close: a descriptor is closed once, by the kernel or by the future that
\* owned it, whatever races with the close.
THEOREM Closes == Spec => []ClosedOnce
<1>1. IInv => ClosedOnce
  <2> SUFFICES ASSUME IInv, NEW s \in Slots
               PROVE  comp[s].closes <= 1 /\ (~HeldByFuture(s) => comp[s].closes = 1)
      BY Zenon DEF ClosedOnce
  <2>1. ClosingAt(s)
      BY Zenon DEF IInv, Closing
  <2>2. CASE ~comp[s].fd
    <3>1. comp[s].closes = 1
        BY <2>1, <2>2, Zenon DEF ClosingAt
    <3> QED
        BY <3>1, SMTT(30)
  <2>3. CASE comp[s].fd
    <3>1. HeldByFuture(s) /\ comp[s].closes \in {0, 1}
        BY <2>1, <2>3 DEF ClosingAt
    <3> QED
        BY <3>1, SMTT(30)
  <2> QED
      BY Zenon, <2>2, <2>3
<1> QED
    BY <1>1, Invariance, PTL

\* io_scope: when a scope ends, every request created in it is over, whoever has
\* cancelled it, but for those that an io_scope_cancel of the scope found in the
\* kernel: it asks for their cancellation and does not wait.
THEOREM ScopesEnd == Spec => ScopeEndsRequests
<1> USE FiniteSetsCount
<1>1. ASSUME IInv, [Next]_vars, NEW c \in Scopes, captured[c] # None, captured'[c] = None,
             NEW s \in started[c] \ given_up[c]
      PROVE  is_done(comp'[s])
    BY <1>1, ScopeGoesOn, ScopeOver, Zenon
<1>2. IInv /\ [Next]_vars =>
         [\A c \in Scopes :
             captured[c] # None /\ captured'[c] = None =>
                \A s \in started[c] \ given_up[c] : is_done(comp'[s])]_vars
    BY <1>1, Zenon
<1> QED
    BY <1>2, Invariance, PTL DEF Spec, ScopeEndsRequests
=============================================================================
