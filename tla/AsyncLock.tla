----------------------------- MODULE AsyncLock -----------------------------
(***************************************************************************)
(* AsyncLock (kimojio/src/async_lock.rs): a mutex made of one AsyncEvent,  *)
(* set while the lock is free.  Each poll of a lock future is one step;    *)
(* futures are polled when their task is woken, and at any other time too, *)
(* and are dropped, cancelled, timed out or aborted while they wait.       *)
(***************************************************************************)
EXTENDS WaitList

CONSTANT Tasks  \* lock futures and the guards they become

VARIABLES
    unlocked,  \* the AsyncEvent
    pc,        \* "idle", "waiting" for the lock, or "holding" an AsyncLockRef
    woken      \* waiting tasks woken since they were last polled

vars == <<unlocked, pc, woken>>

Waiting == {t \in Tasks : pc[t] = "waiting"}
Holding == {t \in Tasks : pc[t] = "holding"}

Init ==
    /\ unlocked = with_state(TRUE)
    /\ pc = [t \in Tasks |-> "idle"]
    /\ woken = {}

\* Mutant: the lock is not marked taken.
take_NoReset(t, e) ==
    /\ e.state
    /\ unlocked' = wake_all(e)
    /\ pc' = [pc EXCEPT ![t] = "holding"]
    /\ woken' = (woken \cup (NotifiedAll(e) \cap Waiting)) \ {t}

\* The end of lock and try_lock: the free lock is taken.  e is the event after
\* what the call did to it before.
take(t, e) ==
    /\ e.state
    /\ unlocked' = reset(e)
    /\ pc' = [pc EXCEPT ![t] = "holding"]
    /\ woken' = (woken \cup (NotifiedAll(e) \cap Waiting)) \ {t}

\* lock() finds the lock taken, on its first poll or a later one.
wait(t) ==
    /\ ~unlocked.state
    /\ unlocked' = register(unlocked, t)
    /\ pc' = [pc EXCEPT ![t] = "waiting"]
    /\ woken' = woken \ {t}

lock(t) ==
    /\ pc[t] = "idle"
    /\ take(t, unlocked) \/ wait(t)

try_lock(t) ==
    /\ pc[t] = "idle"
    /\ take(t, unlocked)

Poll(t) ==
    /\ pc[t] = "waiting"
    /\ take(t, returned(unlocked, t)) \/ wait(t)

\* The waiting future is dropped, or its wait is cancelled.
cancel(t) ==
    /\ pc[t] = "waiting"
    /\ unlocked' = unregister_canceled_wait(unlocked, t, TRUE)
    /\ pc' = [pc EXCEPT ![t] = "idle"]
    /\ woken' = (woken \cup (NotifiedByCancel(unlocked, t, TRUE) \cap Waiting)) \ {t}

\* Mutant: the guard try_lock returned is thrown away.
deadline_LosesGuard(t) ==
    /\ pc[t] = "waiting"
    /\ unlocked' = IF unlocked.state THEN reset(unlocked) ELSE unregister(unlocked, t)
    /\ pc' = [pc EXCEPT ![t] = "idle"]
    /\ woken' = woken \ {t}

\* lock_with_deadline: the sleep won the select.  The wait is dropped; the
\* loop ends because the event is set or because the deadline has passed, and
\* try_lock decides.  The wake-ups of the drop are among those of take.
deadline(t) ==
    /\ pc[t] = "waiting"
    /\ \/ take(t, unregister(unlocked, t))
       \/ ~unlocked.state /\ cancel(t)

\* The task is aborted while it waits.
abort(t) ==
    /\ pc[t] = "waiting"
    /\ unlocked' = wake_all(unlocked)
    /\ pc' = [pc EXCEPT ![t] = "idle"]
    /\ woken' = (woken \cup (NotifiedAll(unlocked) \cap Waiting)) \ {t}

\* Drop of AsyncLockRef.
unlock(t) ==
    /\ pc[t] = "holding"
    /\ unlocked' = set_wake_n(unlocked, 1)
    /\ pc' = [pc EXCEPT ![t] = "idle"]
    /\ woken' = woken \cup (Notified(unlocked, 1) \cap Waiting)

Next ==
    \E t \in Tasks :
       \/ lock(t) \/ try_lock(t) \/ Poll(t) \/ cancel(t)
       \/ deadline(t) \/ abort(t) \/ unlock(t)

Spec == Init /\ [][Next]_vars

\* The scheduler polls a task that has been woken.  Nothing else is assumed:
\* a holder may keep the lock.
Fairness == \A t \in Tasks : WF_vars(t \in woken /\ Poll(t))

FairSpec == Spec /\ Fairness

-----------------------------------------------------------------------------
TypeOK ==
    /\ unlocked \in Events(Tasks)
    /\ pc \in [Tasks -> {"idle", "waiting", "holding"}]
    /\ woken \in SUBSET Waiting

\* The SAFETY comments of deref and deref_mut: "there is only one AsyncLockRef
\* at a time".
Exclusion == \A t, u \in Holding : t = u

\* The event is set exactly while nobody holds the lock: a lock that is free
\* is never marked locked, whichever way a lock attempt ends.
FreeIffUnheld == unlocked.state <=> Holding = {}

\* A free lock with waiters has a waiter that has been woken: the single
\* notification of an unlock is not lost with a waiter that is cancelled,
\* times out or is aborted, nor spent on a stale entry of the list.
FreeLockIsOffered ==
    unlocked.state /\ Waiting # {} => woken # {}

\* So a free lock is taken, or nobody wants it any more.
FreeLockIsTaken == []<>~(unlocked.state /\ Waiting # {})

\* A waiter that is not woken is in the wait list.
WaitersAreLinked ==
    \A t \in Waiting : t \in woken \/ is_linked(unlocked, t)
=============================================================================
