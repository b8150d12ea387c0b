-------------------------- MODULE AsyncLockProofs --------------------------
(***************************************************************************)
(* AsyncLock is right for every number of tasks: one guard at a time, the  *)
(* event says whether the lock is free, and a free lock that tasks wait    *)
(* for has been offered to one of them.                                    *)
(***************************************************************************)
EXTENDS AsyncLock, ListLemmas

Types ==
    /\ unlocked \in Events(Tasks)
    /\ pc \in [Tasks -> {"idle", "waiting", "holding"}]
    /\ woken \subseteq Waiting

\* While the lock is taken the list holds only waits that go on, so the one
\* notification of an unlock goes to a waiter.
EntriesWait ==
    /\ Once(unlocked)
    /\ \A t \in Tasks : is_linked(unlocked, t) => t \in Waiting
    /\ ~unlocked.state => \A x \in Linked(unlocked) : x[2]

IInv ==
    /\ Types
    /\ EntriesWait
    /\ Exclusion
    /\ FreeIffUnheld
    /\ FreeLockIsOffered
    /\ WaitersAreLinked

-----------------------------------------------------------------------------
\* A lock that is taken: the event is reset, whatever its list was.
LEMMA TakeKeeps ==
    ASSUME IInv, NEW t \in Tasks, NEW e \in Events(Tasks),
           e.state = unlocked.state,
           \A v : v # t /\ is_linked(unlocked, v) => is_linked(e, v),
           take(t, e)
    PROVE  IInv'
<1> USE DEF IInv
<1>1. /\ unlocked' = reset(e) /\ unlocked.state
      /\ pc' = [pc EXCEPT ![t] = "holding"]
      /\ woken' = (woken \cup (NotifiedAll(e) \cap Waiting)) \ {t}
    BY DEF take
<1>2. /\ unlocked' \in Events(Tasks) /\ unlocked'.state = FALSE
      /\ Linked(unlocked') = {} /\ Once(unlocked')
    BY <1>1, ClearFacts, Zenon
<1>3. Waiting' = Waiting \ {t} /\ Holding' = Holding \cup {t} /\ Holding = {}
    BY <1>1 DEF Types, Waiting, Holding, FreeIffUnheld
<1>4. Types'
    BY <1>1, <1>2, <1>3 DEF Types
<1>5. \A v : ~is_linked(unlocked', v)
    BY <1>2 DEF is_linked, Linked
<1>6. EntriesWait'
    BY <1>2, <1>5 DEF EntriesWait
<1>7. Exclusion' /\ FreeIffUnheld' /\ FreeLockIsOffered'
    BY <1>2, <1>3 DEF Exclusion, FreeIffUnheld, FreeLockIsOffered
<1>8. WaitersAreLinked'
  <2>1. \A v : is_linked(e, v) => v \in NotifiedAll(e)
      BY NotifiedAllFacts
  <2> QED
      BY <1>1, <1>3, <2>1 DEF WaitersAreLinked
<1> QED
    BY <1>4, <1>6, <1>7, <1>8

LEMMA WaitKeeps ==
    ASSUME IInv, NEW t \in Tasks, pc[t] # "holding", wait(t)
    PROVE  IInv'
<1> USE DEF IInv
<1>1. /\ unlocked' = register(unlocked, t) /\ ~unlocked.state
      /\ pc' = [pc EXCEPT ![t] = "waiting"]
      /\ woken' = woken \ {t}
    BY DEF wait
<1>2. /\ unlocked' \in Events(Tasks) /\ unlocked'.state = unlocked.state
      /\ Linked(unlocked') = Linked(unlocked) \cup {live(t)}
      /\ Once(unlocked')
    BY <1>1, RegisterFacts DEF Types, EntriesWait
<1>3. Waiting' = Waiting \cup {t} /\ Holding' = Holding
    BY <1>1 DEF Types, Waiting, Holding
<1>4. Types'
    BY <1>1, <1>2, <1>3 DEF Types
<1>5. live(t)[2] = TRUE /\ \A v : live(v) = live(t) => v = t
    BY DEF live
<1>6. /\ is_linked(unlocked', t)
      /\ \A v : is_linked(unlocked, v) => is_linked(unlocked', v)
      /\ \A v : is_linked(unlocked', v) => v = t \/ is_linked(unlocked, v)
    BY <1>2, <1>5 DEF is_linked, Linked
<1>7. EntriesWait'
    BY <1>1, <1>2, <1>3, <1>5, <1>6 DEF EntriesWait
<1>8. Exclusion' /\ FreeIffUnheld' /\ FreeLockIsOffered'
    BY <1>1, <1>2, <1>3 DEF Exclusion, FreeIffUnheld, FreeLockIsOffered
<1>9. WaitersAreLinked'
    BY <1>1, <1>3, <1>6 DEF WaitersAreLinked
<1> QED
    BY <1>4, <1>7, <1>8, <1>9

\* A wait that ends without the lock, e being the event after it: those it may
\* have deprived of the lock are woken.
LEMMA LeaveKeeps ==
    ASSUME IInv, NEW t \in Waiting, NEW e \in Events(Tasks), NEW W \in SUBSET Tasks,
           e.state = unlocked.state, Linked(e) \subseteq Linked(unlocked) \ {live(t)}, Once(e),
           \A v : is_linked(unlocked, v) /\ v # t =>
              v \in W \/ (~unlocked.state /\ is_linked(e, v)),
           unlocked' = e,
           pc' = [pc EXCEPT ![t] = "idle"],
           woken' = (woken \cup (W \cap Waiting)) \ {t}
    PROVE  IInv'
<1> USE DEF IInv
<1>1. t \in Tasks /\ Waiting' = Waiting \ {t} /\ Holding' = Holding
    BY DEF Types, Waiting, Holding
<1>2. Types'
    BY <1>1 DEF Types
<1>3. \A v : is_linked(unlocked', v) => is_linked(unlocked, v) /\ v # t
    BY DEF is_linked, Linked
<1>4. EntriesWait'
    BY <1>1, <1>3 DEF EntriesWait
<1>5. Exclusion' /\ FreeIffUnheld'
    BY <1>1 DEF Exclusion, FreeIffUnheld
<1>6. WaitersAreLinked'
    BY <1>1 DEF WaitersAreLinked
<1>7. ASSUME unlocked.state, NEW v \in Waiting'
      PROVE  v \in woken'
    BY <1>1, <1>7 DEF WaitersAreLinked
<1>8. FreeLockIsOffered'
    BY <1>7 DEF FreeLockIsOffered
<1> QED
    BY <1>2, <1>4, <1>5, <1>6, <1>8

LEMMA CancelKeeps ==
    ASSUME IInv, NEW t \in Tasks, cancel(t)
    PROVE  IInv'
<1> DEFINE e == unregister_canceled_wait(unlocked, t, TRUE)
           W == NotifiedByCancel(unlocked, t, TRUE)
<1>1. /\ e \in Events(Tasks) /\ e.state = unlocked.state
      /\ Linked(e) \subseteq Linked(unlocked) \ {live(t)} /\ Once(e)
      /\ W \subseteq Tasks
      /\ \A v : is_linked(unlocked, v) /\ v # t =>
            v \in W \/ (unlocked.state # TRUE /\ is_linked(e, v))
    BY CancelFacts, Zenon DEF IInv, Types, EntriesWait
<1>2. /\ t \in Waiting /\ unlocked' = e
      /\ pc' = [pc EXCEPT ![t] = "idle"]
      /\ woken' = (woken \cup (W \cap Waiting)) \ {t}
    BY DEF cancel, Waiting
<1> HIDE DEF e, W
<1>3. unlocked.state # TRUE <=> ~unlocked.state
    BY Zenon DEF IInv, Types, Events
<1> QED
    BY <1>1, <1>2, <1>3, LeaveKeeps, Zenon

LEMMA AbortKeeps ==
    ASSUME IInv, NEW t \in Tasks, abort(t)
    PROVE  IInv'
<1> DEFINE e == wake_all(unlocked)
           W == NotifiedAll(unlocked)
<1>1. e \in Events(Tasks) /\ e.state = unlocked.state /\ Linked(e) = {} /\ Once(e)
    BY ClearFacts, Zenon DEF IInv, Types
<1>2. W \subseteq Tasks /\ \A v : is_linked(unlocked, v) => v \in W
    BY NotifiedAllFacts DEF IInv, Types
<1>3. /\ t \in Waiting /\ unlocked' = e
      /\ pc' = [pc EXCEPT ![t] = "idle"]
      /\ woken' = (woken \cup (W \cap Waiting)) \ {t}
    BY DEF abort, Waiting
<1> HIDE DEF e, W
<1> QED
    BY <1>1, <1>2, <1>3, LeaveKeeps, Zenon

\* The notification of unlock: if nobody was woken yet, the first entry is one of
\* a task that waits.
LEMMA UnlockKeeps ==
    ASSUME IInv, NEW t \in Tasks, unlock(t)
    PROVE  IInv'
<1> USE DEF IInv
<1>1. /\ pc[t] = "holding" /\ unlocked' = set_wake_n(unlocked, 1)
      /\ pc' = [pc EXCEPT ![t] = "idle"]
      /\ woken' = woken \cup (Notified(unlocked, 1) \cap Waiting)
    BY DEF unlock
<1>2. /\ unlocked' \in Events(Tasks) /\ unlocked'.state = TRUE
      /\ Linked(unlocked') \subseteq Linked(unlocked)
      /\ \A v : is_linked(unlocked, v) => v \in Notified(unlocked, 1) \/ is_linked(unlocked', v)
      /\ Once(unlocked')
    BY <1>1, WakeNFacts, Zenon DEF Types, EntriesWait
<1>3. /\ Waiting' = Waiting /\ Holding' = Holding \ {t} /\ t \in Holding
    BY <1>1 DEF Types, Waiting, Holding
<1>4. Holding' = {} /\ ~unlocked.state
    BY <1>3 DEF Exclusion, FreeIffUnheld
<1>5. Types'
    BY <1>1, <1>2, <1>3 DEF Types
<1>6. \A v : is_linked(unlocked', v) => is_linked(unlocked, v)
    BY <1>2 DEF is_linked, Linked
<1>7. EntriesWait'
    BY <1>2, <1>3, <1>6 DEF EntriesWait
<1>8. Exclusion' /\ FreeIffUnheld'
    BY <1>2, <1>4 DEF Exclusion, FreeIffUnheld
<1>9. WaitersAreLinked'
    BY <1>1, <1>2, <1>3 DEF WaitersAreLinked
<1>10. FreeLockIsOffered'
  <2> SUFFICES ASSUME NEW v \in Waiting, woken = {}
               PROVE  woken' # {}
      BY <1>1, <1>3 DEF FreeLockIsOffered
  <2>1. v \in Tasks /\ is_linked(unlocked, v)
      BY DEF WaitersAreLinked, Waiting
  <2> DEFINE s == unlocked.waiting_tasks
  <2>2. 1 \in DOMAIN s /\ s[1] \in Linked(unlocked) /\ s[1] \in Tasks \X BOOLEAN
    <3>1. PICK i \in DOMAIN s : live(v) = s[i]
        BY <2>1 DEF is_linked, Range
    <3>2. 1 \in DOMAIN s
      <4>1. DOMAIN s = 1..Len(s) /\ Len(s) \in Nat
          BY EventFacts DEF Types
      <4> QED
          BY <3>1, <4>1
    <3> QED
        BY <3>2, EventFacts, Zenon DEF Types
  <2>3. s[1][2] = TRUE
      BY <1>4, <2>2 DEF EntriesWait
  <2>4. s[1] = live(s[1][1]) /\ s[1][1] \in Tasks
    <3>1. PICK u \in Tasks, b \in BOOLEAN : s[1] = <<u, b>>
        BY <2>2
    <3> QED
        BY <2>3, <3>1 DEF live
  <2>5. is_linked(unlocked, s[1][1])
      BY <2>2, <2>4 DEF is_linked, Linked
  <2>6. s[1][1] \in Waiting
      BY <2>4, <2>5 DEF EntriesWait
  <2>7. s[1][1] \in Notified(unlocked, 1)
      BY <2>2 DEF Notified
  <2> QED
      BY <1>1, <2>6, <2>7
<1> QED
    BY <1>5, <1>7, <1>8, <1>9, <1>10

LEMMA InitIInv == Init => IInv
<1> SUFFICES ASSUME Init
             PROVE  IInv
    OBVIOUS
<1>1. /\ unlocked \in Events(Tasks) /\ Linked(unlocked) = {} /\ Once(unlocked)
      /\ unlocked.state = TRUE
    BY EmptyList, Zenon DEF Init, with_state
<1>2. \A v : ~is_linked(unlocked, v)
    BY <1>1 DEF is_linked, Linked
<1>3. Waiting = {} /\ Holding = {} /\ woken = {}
    BY DEF Init, Waiting, Holding
<1>4. pc \in [Tasks -> {"idle", "waiting", "holding"}]
    BY DEF Init
<1> QED
    BY <1>1, <1>2, <1>3, <1>4
       DEF IInv, Types, EntriesWait, Exclusion, FreeIffUnheld, FreeLockIsOffered, WaitersAreLinked

-----------------------------------------------------------------------------
LEMMA StepKeeps ==
    ASSUME IInv, NEW t \in Tasks,
           \/ lock(t) \/ try_lock(t) \/ Poll(t) \/ cancel(t)
           \/ deadline(t) \/ abort(t) \/ unlock(t)
    PROVE  IInv'
<1>0. unlocked \in Events(Tasks) /\ Once(unlocked)
    BY DEF IInv, Types, EntriesWait
<1>1. CASE lock(t) \/ try_lock(t)
    BY <1>0, <1>1, TakeKeeps, WaitKeeps DEF lock, try_lock
<1>2. CASE Poll(t)
  <2>1. /\ returned(unlocked, t) \in Events(Tasks)
        /\ returned(unlocked, t).state = unlocked.state
        /\ Linked(unlocked) \ {live(t)} \subseteq Linked(returned(unlocked, t))
      BY <1>0, ReturnedFacts
  <2>2. \A v : v # t /\ is_linked(unlocked, v) => is_linked(returned(unlocked, t), v)
    <3>1. \A v : v # t => live(v) # live(t)
        BY DEF live
    <3> QED
        BY <2>1, <3>1 DEF is_linked, Linked
  <2> QED
      BY <1>2, <2>1, <2>2, TakeKeeps, WaitKeeps DEF Poll
<1>3. CASE cancel(t)
    BY <1>3, CancelKeeps
<1>4. CASE deadline(t)
  <2>1. /\ unregister(unlocked, t) \in Events(Tasks)
        /\ unregister(unlocked, t).state = unlocked.state
        /\ Linked(unregister(unlocked, t)) = Linked(unlocked) \ {live(t)}
      BY <1>0, UnregisterFacts
  <2>2. \A v : v # t /\ is_linked(unlocked, v) => is_linked(unregister(unlocked, t), v)
    <3>1. \A v : v # t => live(v) # live(t)
        BY DEF live
    <3> QED
        BY <2>1, <3>1 DEF is_linked, Linked
  <2> QED
      BY <1>4, <2>1, <2>2, TakeKeeps, CancelKeeps DEF deadline
<1>5. CASE abort(t)
    BY <1>5, AbortKeeps
<1>6. CASE unlock(t)
    BY <1>6, UnlockKeeps
<1> QED
    BY <1>1, <1>2, <1>3, <1>4, <1>5, <1>6

LEMMA Invariance == Spec => []IInv
<1>1. IInv /\ [Next]_vars => IInv'
  <2> SUFFICES ASSUME IInv, [Next]_vars
               PROVE  IInv'
      OBVIOUS
  <2>1. CASE UNCHANGED vars
      BY <2>1 DEF vars, IInv, Types, EntriesWait, Exclusion, FreeIffUnheld,
                  FreeLockIsOffered, WaitersAreLinked, Waiting, Holding
  <2> QED
      BY <2>1, StepKeeps DEF Next
<1> QED
    BY <1>1, InitIInv, PTL DEF Spec

\* The SAFETY comments of deref and deref_mut: there is only one AsyncLockRef at a
\* time, for any number of tasks that lock, give up and time out.
THEOREM OneGuard == Spec => []Exclusion
<1>1. IInv => Exclusion
    BY DEF IInv
<1> QED
    BY <1>1, Invariance, PTL

\* The event is set exactly while there is no AsyncLockRef: no way of ending a lock
\* attempt leaves a free lock marked as taken.
THEOREM EventIsLock == Spec => []FreeIffUnheld
<1>1. IInv => FreeIffUnheld
    BY DEF IInv
<1> QED
    BY <1>1, Invariance, PTL

\* The single notification of an unlock is not lost with a waiter that is dropped,
\* cancelled, aborted or late, nor spent on an entry of a wait that is over.
THEOREM UnlockIsNotLost == Spec => []FreeLockIsOffered
<1>1. IInv => FreeLockIsOffered
    BY DEF IInv
<1> QED
    BY <1>1, Invariance, PTL
=============================================================================
