--------------------------- MODULE AsyncSemaphore ---------------------------
(***************************************************************************)
(* AsyncSemaphore (kimojio/src/async_semaphore.rs): a token counter and an *)
(* AsyncEvent that is set while there are tokens.  A release wakes one     *)
(* waiter, and only the last token resets the event, so stale entries of   *)
(* the wait list can survive several calls.                                *)
(***************************************************************************)
EXTENDS WaitList, FiniteSets

CONSTANTS
    Tasks,         \* acquire futures; a task acquires again and again
    initial_count,
    MaxTokens      \* bound: release is called below this count only

VARIABLES
    tokens,
    available,  \* the AsyncEvent
    waiting,    \* tasks suspended in acquire
    woken       \* waiting tasks woken since they were last polled

vars == <<tokens, available, waiting, woken>>

Init ==
    /\ tokens = initial_count
    /\ available = with_state(initial_count > 0)
    /\ waiting = {}
    /\ woken = {}

\* The end of acquire: e is the event when the loop is left.
grab(t, e) ==
    /\ tokens > 0
    /\ tokens' = tokens - 1
    /\ available' = IF tokens = 1 THEN reset(e) ELSE e
    /\ waiting' = waiting \ {t}
    /\ woken' = (IF tokens = 1 THEN woken \cup (NotifiedAll(e) \cap waiting)
                               ELSE woken) \ {t}

\* A suspended acquire polls its wait; it goes on if the event is set.
suspend(t) ==
    /\ tokens = 0
    /\ ~available.state
    /\ available' = register(available, t)
    /\ waiting' = waiting \cup {t}
    /\ woken' = woken \ {t}
    /\ UNCHANGED tokens

acquire(t) ==
    /\ t \notin waiting
    /\ grab(t, available) \/ suspend(t)

\* The wait future looks at the event, the loop of acquire at the tokens.
Poll(t) ==
    /\ t \in waiting
    /\ \/ available.state /\ grab(t, returned(available, t))
       \/ suspend(t)

\* The waiting acquire is dropped, or its wait is cancelled.
cancel(t) ==
    /\ t \in waiting
    /\ available' = unregister_canceled_wait(available, t, TRUE)
    /\ waiting' = waiting \ {t}
    /\ woken' = (woken \cup (NotifiedByCancel(available, t, TRUE) \cap waiting)) \ {t}
    /\ UNCHANGED tokens

\* The task is aborted while it waits.
abort(t) ==
    /\ t \in waiting
    /\ available' = wake_all(available)
    /\ waiting' = waiting \ {t}
    /\ woken' = (woken \cup (NotifiedAll(available) \cap waiting)) \ {t}
    /\ UNCHANGED tokens

\* Mutant: a waiter is woken only when the event becomes set.
release_WakeOnEdge ==
    /\ tokens < MaxTokens
    /\ tokens' = tokens + 1
    /\ LET n == IF available.state THEN 0 ELSE 1 IN
       /\ available' = set_wake_n(available, n)
       /\ woken' = woken \cup (Notified(available, n) \cap waiting)
    /\ UNCHANGED waiting

release ==
    /\ tokens < MaxTokens
    /\ tokens' = tokens + 1
    /\ available' = set_wake_n(available, 1)
    /\ woken' = woken \cup (Notified(available, 1) \cap waiting)
    /\ UNCHANGED waiting

Next ==
    \/ release
    \/ \E t \in Tasks : acquire(t) \/ Poll(t) \/ cancel(t) \/ abort(t)

Spec == Init /\ [][Next]_vars

\* The scheduler polls a task that has been woken.
Fairness == \A t \in Tasks : WF_vars(t \in woken /\ Poll(t))

FairSpec == Spec /\ Fairness

-----------------------------------------------------------------------------
TypeOK ==
    /\ tokens \in 0..MaxTokens
    /\ available \in Events(Tasks)
    /\ waiting \in SUBSET Tasks
    /\ woken \in SUBSET waiting

\* The event is set exactly while there are tokens.  Otherwise acquire would
\* spin (event set, no token) or sleep next to a token.
SetIffTokens == available.state <=> tokens > 0

\* Every token that a waiting acquire could have is offered to one: there are
\* as many woken waiters as tokens, or all waiters are woken.
TokensAreOffered ==
    Cardinality(woken) >= tokens \/ woken = waiting

\* While tokens last, waiting tasks get them.
TokensAreTaken == []<>~(tokens > 0 /\ waiting # {})
=============================================================================
