-------------------------- MODULE AsyncEventProofs --------------------------
(***************************************************************************)
(* AsyncEvent is right for every number of waiters: no suspended wait is   *)
(* forgotten, the intrusive list stays sound, and a wait that is given up  *)
(* passes its notification on.                                             *)
(***************************************************************************)
EXTENDS AsyncEvent, ListLemmas

Types ==
    /\ event \in Events(Waiters)
    /\ pending \subseteq Waiters
    /\ woken \subseteq Waiters

\* While the event is not set, every entry of the list belongs to a wait for the
\* set state that goes on: reset has discarded all others.
UnsetEntries ==
    ~event.state => \A x \in Linked(event) : x[2] /\ x[1] \notin ForReset

\* Without set_wake_n nobody stays in the list whose condition holds.
LinkedIsIncomplete ==
    Counts = {} => \A w \in Waiters : is_linked(event, w) => ~is_complete(w)

IInv ==
    /\ Types
    /\ NobodyForgotten
    /\ LinkedOnce
    /\ UnsetEntries
    /\ LinkedIsIncomplete

-----------------------------------------------------------------------------
\* A step that empties the list and wakes its waiters, as set and reset do.
LEMMA WakesAll ==
    ASSUME IInv,
           event' \in Events(Waiters), Linked(event') = {}, Once(event'),
           NEW gone \in SUBSET Waiters,
           pending' = pending \ gone,
           woken' = (woken \cup (NotifiedAll(event) \cap pending)) \ gone
    PROVE  IInv'
<1> USE DEF IInv
<1>1. /\ NotifiedAll(event) \subseteq Waiters
      /\ \A w : is_linked(event, w) => w \in NotifiedAll(event)
    BY NotifiedAllFacts DEF Types
<1>2. Types'
    BY <1>1 DEF Types
<1>3. NobodyForgotten'
    BY <1>1 DEF NobodyForgotten
<1>4. \A w : ~is_linked(event', w)
    BY DEF is_linked, Linked
<1>5. LinkedOnce' /\ UnsetEntries' /\ LinkedIsIncomplete'
    BY <1>4 DEF LinkedOnce, Once, UnsetEntries, LinkedIsIncomplete
<1> QED
    BY <1>2, <1>3, <1>5

\* A wait that is cancelled or dropped.
LEMMA GivesUp ==
    ASSUME IInv, NEW w \in pending,
           event' = unregister_canceled_wait(event, w, expected_state(w)),
           woken' = (woken \cup (NotifiedByCancel(event, w, expected_state(w))
                                 \cap pending)) \ {w},
           pending' = pending \ {w}
    PROVE  /\ IInv'
           /\ event.state = expected_state(w) => pending' \subseteq woken'
<1> USE DEF IInv
<1> DEFINE b == expected_state(w)
<1>0. w \in Waiters /\ b \in BOOLEAN /\ Once(event)
    BY DEF Types, expected_state, LinkedOnce, Once
<1> HIDE DEF b
<1>1. /\ event' \in Events(Waiters) /\ event'.state = event.state
      /\ Linked(event') \subseteq Linked(event) \ {live(w)}
      /\ Once(event')
      /\ NotifiedByCancel(event, w, b) \subseteq Waiters
      /\ \A v : is_linked(event, v) /\ v # w =>
            \/ v \in NotifiedByCancel(event, w, b)
            \/ event.state # b /\ is_linked(event', v)
    BY <1>0, CancelFacts DEF Types, b
<1>2. Types'
    BY <1>1 DEF Types, b
<1>3. NobodyForgotten'
    BY <1>1 DEF NobodyForgotten, b
<1>4. \A v : is_linked(event', v) => is_linked(event, v) /\ v # w
    BY <1>1 DEF is_linked, Linked
<1>5. LinkedOnce'
    BY <1>1, <1>4 DEF LinkedOnce, Once
<1>6. UnsetEntries'
    BY <1>1 DEF UnsetEntries
<1>7. LinkedIsIncomplete'
    BY <1>1, <1>4 DEF LinkedIsIncomplete, is_complete, expected_state
<1>8. ASSUME event.state = b, NEW v \in pending'
      PROVE  v \in woken'
    BY <1>1, <1>8 DEF NobodyForgotten, b
<1> QED
    BY <1>2, <1>3, <1>5, <1>6, <1>7, <1>8 DEF b

LEMMA SetWakeNKeeps ==
    ASSUME IInv, Counts \subseteq Nat, NEW n \in Counts, SetWakeN(n)
    PROVE  IInv'
<1> USE DEF IInv
<1>0. /\ event' = set_wake_n(event, n)
      /\ woken' = woken \cup (Notified(event, n) \cap pending)
      /\ pending' = pending
    BY DEF SetWakeN
<1>1. /\ event' \in Events(Waiters) /\ event'.state = TRUE
      /\ Linked(event') \subseteq Linked(event)
      /\ \A w : is_linked(event, w) => w \in Notified(event, n) \/ is_linked(event', w)
      /\ Notified(event, n) \subseteq Waiters
      /\ Once(event) => Once(event')
    BY <1>0, WakeNFacts, Zenon DEF Types
<1>2. Types'
    BY <1>0, <1>1 DEF Types
<1>3. NobodyForgotten'
    BY <1>0, <1>1 DEF NobodyForgotten
<1>4. \A v : is_linked(event', v) => is_linked(event, v)
    BY <1>1 DEF is_linked, Linked
<1>5. LinkedOnce'
    BY <1>0, <1>1, <1>4 DEF LinkedOnce, Once
<1>6. UnsetEntries' /\ LinkedIsIncomplete'
    BY <1>1 DEF UnsetEntries, LinkedIsIncomplete
<1> QED
    BY <1>2, <1>3, <1>5, <1>6

LEMMA PollReadyKeeps ==
    ASSUME IInv, NEW w \in Waiters, PollReady(w)
    PROVE  IInv'
<1> USE DEF IInv
<1>0. /\ event' = returned(event, w) /\ is_complete(w)
      /\ woken' = woken \ {w} /\ pending' = pending \ {w}
    BY DEF PollReady
<1>1. /\ event' \in Events(Waiters) /\ event'.state = event.state
      /\ Linked(event') \subseteq (Linked(event) \ {live(w)}) \cup {stale(w)}
      /\ Linked(event) \ {live(w)} \subseteq Linked(event')
      /\ live(w) \notin Linked(event) => event' = event
      /\ Once(event) => Once(event')
    BY <1>0, ReturnedFacts DEF Types
<1>2. Types'
    BY <1>0, <1>1 DEF Types
<1>3. \A v : v # w => live(v) # live(w)
    BY DEF live
<1>4. \A v : v # w /\ is_linked(event, v) => is_linked(event', v)
    BY <1>1, <1>3 DEF is_linked, Linked
<1>5. NobodyForgotten'
    BY <1>0, <1>4 DEF NobodyForgotten
<1>6. \A v : live(v) # stale(w)
    BY DEF live, stale
<1>7. \A v : is_linked(event', v) => is_linked(event, v) /\ v # w
    BY <1>1, <1>6 DEF is_linked, Linked
<1>8. LinkedOnce'
    BY <1>0, <1>1, <1>7 DEF LinkedOnce, Once
<1>9. LinkedIsIncomplete'
    BY <1>1, <1>7 DEF LinkedIsIncomplete, is_complete, expected_state
<1>10. UnsetEntries'
  <2>1. CASE live(w) \notin Linked(event)
      BY <1>1, <2>1 DEF UnsetEntries
  <2>2. CASE live(w) \in Linked(event)
    <3>1. live(w)[1] = w
        BY DEF live
    <3>2. CASE event.state
        BY <1>1, <3>2 DEF UnsetEntries
    <3>3. CASE ~event.state
      <4>1. w \in ForReset
        <5>1. event.state = expected_state(w)
            BY <1>0 DEF is_complete
        <5> QED
            BY <3>3, <5>1, Zenon DEF expected_state
      <4>2. w \notin ForReset
          BY <2>2, <3>1, <3>3 DEF UnsetEntries
      <4> QED
          BY <4>1, <4>2
    <3> QED
        BY <3>2, <3>3
  <2> QED
      BY <2>1, <2>2
<1> QED
    BY <1>2, <1>5, <1>8, <1>9, <1>10

LEMMA PollPendingKeeps ==
    ASSUME IInv, NEW w \in Waiters, PollPending(w)
    PROVE  IInv'
<1> USE DEF IInv
<1>0. /\ event' = register(event, w) /\ ~is_complete(w)
      /\ woken' = woken \ {w} /\ pending' = pending \cup {w}
    BY DEF PollPending
<1>1. /\ event' \in Events(Waiters) /\ event'.state = event.state
      /\ Linked(event') = Linked(event) \cup {live(w)}
      /\ Once(event) => Once(event')
    BY <1>0, RegisterFacts DEF Types
<1>2. Types'
    BY <1>0, <1>1 DEF Types
<1>3. is_linked(event', w) /\ \A v : is_linked(event, v) => is_linked(event', v)
    BY <1>1 DEF is_linked, Linked
<1>4. NobodyForgotten'
    BY <1>0, <1>3 DEF NobodyForgotten
<1>5. \A v : is_linked(event', v) => v = w \/ is_linked(event, v)
    BY <1>1 DEF is_linked, Linked, live
<1>6. LinkedOnce'
    BY <1>0, <1>1, <1>5 DEF LinkedOnce, Once
<1>7. LinkedIsIncomplete'
    BY <1>0, <1>1, <1>5 DEF LinkedIsIncomplete, is_complete, expected_state
<1>8. UnsetEntries'
  <2> SUFFICES ASSUME ~event.state, NEW x \in Linked(event) \cup {live(w)}
               PROVE  x[2] /\ x[1] \notin ForReset
      BY <1>1 DEF UnsetEntries
  <2>1. live(w)[1] = w /\ live(w)[2] = TRUE
      BY DEF live
  <2>2. w \notin ForReset
      BY <1>0 DEF is_complete, expected_state, Types, Events
  <2> QED
      BY <2>1, <2>2 DEF UnsetEntries
<1> QED
    BY <1>2, <1>4, <1>6, <1>7, <1>8

LEMMA CancelWaitKeeps ==
    ASSUME IInv, NEW w \in Waiters, CancelWait(w)
    PROVE  IInv'
<1>1. event' = event /\ pending' = pending /\ woken' = woken \cup {w}
    BY DEF CancelWait
<1> QED
    BY <1>1 DEF IInv, Types, NobodyForgotten, LinkedOnce, UnsetEntries, LinkedIsIncomplete,
                is_complete, expected_state

LEMMA InitIInv == Init => IInv
<1> SUFFICES ASSUME Init
             PROVE  IInv
    OBVIOUS
<1>1. PICK b \in BOOLEAN : event = [state |-> b, waiting_tasks |-> <<>>]
    BY DEF Init, with_state
<1>2. event \in Events(Waiters) /\ Linked(event) = {} /\ Once(event)
    BY <1>1, EmptyList
<1>3. \A w : ~is_linked(event, w)
    BY <1>2 DEF is_linked, Linked
<1>4. Types /\ NobodyForgotten
    BY <1>2 DEF Init, Types, NobodyForgotten
<1>5. LinkedOnce /\ UnsetEntries /\ LinkedIsIncomplete
    BY <1>2, <1>3 DEF LinkedOnce, Once, UnsetEntries, LinkedIsIncomplete
<1> QED
    BY <1>4, <1>5 DEF IInv

-----------------------------------------------------------------------------
\* The waits that end without success are those of GivesUp and PollAborted.
LEMMA StepKeeps ==
    ASSUME IInv, Counts \subseteq Nat, [Next]_vars
    PROVE  IInv'
<1>0. event \in Events(Waiters)
    BY DEF IInv, Types
<1>1. CASE Set
  <2>1. /\ event' \in Events(Waiters) /\ Linked(event') = {} /\ Once(event')
        /\ pending' = pending \ {}
        /\ woken' = (woken \cup (NotifiedAll(event) \cap pending)) \ {}
      BY <1>0, <1>1, ClearFacts, Zenon DEF Set
  <2> QED
      BY <2>1, WakesAll
<1>2. CASE Reset
  <2>1. /\ event' \in Events(Waiters) /\ Linked(event') = {} /\ Once(event')
        /\ pending' = pending \ {}
        /\ woken' = (woken \cup (NotifiedAll(event) \cap pending)) \ {}
      BY <1>0, <1>2, ClearFacts, Zenon DEF Reset
  <2> QED
      BY <2>1, WakesAll
<1>3. ASSUME NEW n \in Counts, SetWakeN(n)
      PROVE  IInv'
    BY <1>3, SetWakeNKeeps
<1>4. ASSUME NEW w \in Waiters, PollCanceled(w) \/ Drop(w)
      PROVE  IInv'
    BY <1>4, GivesUp DEF PollCanceled, Drop
<1>5. ASSUME NEW w \in Waiters, PollAborted(w)
      PROVE  IInv'
  <2>1. /\ event' \in Events(Waiters) /\ Linked(event') = {} /\ Once(event')
        /\ {w} \in SUBSET Waiters
        /\ pending' = pending \ {w}
        /\ woken' = (woken \cup (NotifiedAll(event) \cap pending)) \ {w}
      BY <1>0, <1>5, ClearFacts, Zenon DEF PollAborted
  <2> QED
      BY <2>1, WakesAll, Zenon
<1>6. ASSUME NEW w \in Waiters, PollReady(w)
      PROVE  IInv'
    BY <1>6, PollReadyKeeps
<1>7. ASSUME NEW w \in Waiters, PollPending(w)
      PROVE  IInv'
    BY <1>7, PollPendingKeeps
<1>8. ASSUME NEW w \in Waiters, CancelWait(w)
      PROVE  IInv'
    BY <1>8, CancelWaitKeeps
<1>9. CASE UNCHANGED vars
    BY <1>9 DEF vars, IInv, Types, NobodyForgotten, LinkedOnce, UnsetEntries,
                LinkedIsIncomplete, is_complete, expected_state
<1>10. \A w : Deadline(w) => Drop(w)
    BY DEF Deadline
<1> QED
    BY <1>1, <1>2, <1>3, <1>4, <1>5, <1>6, <1>7, <1>8, <1>9, <1>10 DEF Next

LEMMA Invariance ==
    ASSUME Counts \subseteq Nat
    PROVE  Spec => []IInv
<1>1. IInv /\ [Next]_vars => IInv'
    BY StepKeeps
<1> QED
    BY <1>1, InitIInv, PTL DEF Spec

\* WaitFuture and WaitList: a suspended wait is linked, where the next set or reset
\* finds it, or its task has been woken, however the waiters come and go.
THEOREM NobodyIsForgotten ==
    ASSUME Counts \subseteq Nat
    PROVE  Spec => []NobodyForgotten
<1>1. IInv => NobodyForgotten
    BY DEF IInv
<1> QED
    BY <1>1, Invariance, PTL

\* The SAFETY comment of WaitList::unregister: a WaitData is in the list at most
\* once, and only while its future waits.
THEOREM LinkedAtMostOnce ==
    ASSUME Counts \subseteq Nat
    PROVE  Spec => []LinkedOnce
<1>1. IInv => LinkedOnce
    BY DEF IInv
<1> QED
    BY <1>1, Invariance, PTL

\* reset leaves no entry of a wait that is over: set_wake_one after it is not
\* spent on a finished wait.
THEOREM NoStaleEntryWhenUnset ==
    ASSUME Counts \subseteq Nat
    PROVE  Spec => []StaleOnlyWhileSet
<1>1. IInv => StaleOnlyWhileSet
    BY EventFacts, Zenon DEF IInv, Types, UnsetEntries, StaleOnlyWhileSet
<1> QED
    BY <1>1, Invariance, PTL

\* With set and reset alone, a wait whose condition holds has been woken.
THEOREM NoSignalMissed ==
    ASSUME Counts \subseteq Nat
    PROVE  Spec => []NoMissedSignal
<1>1. IInv => NoMissedSignal
    BY DEF IInv, Types, NobodyForgotten, LinkedIsIncomplete, NoMissedSignal
<1> QED
    BY <1>1, Invariance, PTL

\* wait: "A canceled waiter passes an available notification to other waiters":
\* dropped, cancelled, timed out or aborted.
THEOREM NotificationPassed ==
    ASSUME Counts \subseteq Nat
    PROVE  Spec => PassesNotification
<1> DEFINE Passes ==
       \A w \in pending \ pending' :
          event.state /\ expected_state(w) /\ ~PollReady(w) =>
             \A v \in pending' : expected_state(v) => v \in woken'
<1>1. IInv /\ [Next]_vars => [Passes]_vars
  <2> SUFFICES ASSUME IInv, Next
               PROVE  Passes
      OBVIOUS
  <2> SUFFICES ASSUME NEW w \in pending \ pending',
                      event.state, expected_state(w), ~PollReady(w),
                      NEW v \in pending'
               PROVE  v \in woken'
      OBVIOUS
  <2>0. w \in Waiters
      BY DEF IInv, Types
  <2>1. ASSUME NEW u \in Waiters, PollCanceled(u) \/ Drop(u)
        PROVE  v \in woken'
    <3>1. u = w
        BY <2>1 DEF PollCanceled, Drop
    <3>2. event.state = expected_state(w)
        BY Zenon DEF IInv, Types, Events, expected_state
    <3> QED
        BY <2>1, <3>1, <3>2, GivesUp, Zenon DEF PollCanceled, Drop
  <2>2. ASSUME NEW u \in Waiters, PollAborted(u)
        PROVE  v \in woken'
    <3>1. /\ woken' = (woken \cup (NotifiedAll(event) \cap pending)) \ {u}
          /\ pending' = pending \ {u}
        BY <2>2 DEF PollAborted
    <3>2. \A x : is_linked(event, x) => x \in NotifiedAll(event)
        BY NotifiedAllFacts DEF IInv, Types
    <3> QED
        BY <3>1, <3>2 DEF IInv, NobodyForgotten
  <2>3. ASSUME NEW u \in Waiters, PollReady(u)
        PROVE  v \in woken'
    <3>1. u = w
        BY <2>3 DEF PollReady
    <3> QED
        BY <2>3, <3>1
  <2>4. ASSUME pending \subseteq pending'
        PROVE  v \in woken'
      BY <2>4
  <2>5. Set \/ Reset => pending' = pending
      BY DEF Set, Reset
  <2>6. \A n \in Counts : SetWakeN(n) => pending' = pending
      BY DEF SetWakeN
  <2>7. \A u \in Waiters : PollPending(u) \/ CancelWait(u) => pending \subseteq pending'
      BY DEF PollPending, CancelWait
  <2>8. \A u : Deadline(u) => Drop(u)
      BY DEF Deadline
  <2> QED
      BY <2>1, <2>2, <2>3, <2>4, <2>5, <2>6, <2>7, <2>8 DEF Next
<1> QED
    BY <1>1, Invariance, PTL DEF Spec, PassesNotification
=============================================================================
