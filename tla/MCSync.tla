------------------------------- MODULE MCSync -------------------------------
(***************************************************************************)
(* The synchronization primitives, the task pool and the channels on small *)
(* instances.  They share no state; an initial state chooses the one whose *)
(* calls are explored.                                                     *)
(***************************************************************************)
EXTENDS Integers, TLC

CONSTANTS t1, t2, t3, t4, t5, m1, m2

VARIABLES
    kind,  \* the component explored
    \* AsyncEvent
    event, pending, canceled, event_woken,
    \* AsyncLock
    unlocked, lock_pc, lock_woken,
    \* AsyncSemaphore
    semaphore_tokens, semaphore_available, semaphore_waiting, semaphore_woken,
    \* AsyncReaderWriterLock
    readers, writer, read_event, write_event, rw_pc, rw_woken,
    \* TaskPool
    pool_tokens, pool_available, pool_waiting, pool_woken, called, spawned, guarded,
    \* AsyncChannelUnbounded
    items, unbounded_closed, has_items, unbounded_sender_count, unbounded_receiver,
    unbounded_waiting, unbounded_woken, unbounded_sent, unbounded_received, ended,
    \* AsyncChannel
    slot_value, slot_closed, waiters, slot_sender_count, slot_receiver, sending,
    slot_waiting, slot_woken, calls, slot_sent, slot_received, refused,
    \* AsyncOneshot
    oneshot_value, oneshot_closed, has_value, sender, oneshot_receiver,
    oneshot_woken, got, told


Event == INSTANCE AsyncEvent WITH
    Waiters <- {t1, t2, t3, t4}, ForReset <- {t4}, Counts <- {0, 1, 2},
    woken <- event_woken

\* The event without the limited sets, which are meant to leave waiters asleep.
PlainEvent == INSTANCE AsyncEvent WITH
    Waiters <- {t1, t2, t3, t4}, ForReset <- {t4}, Counts <- {},
    woken <- event_woken

Lock == INSTANCE AsyncLock WITH
    Tasks <- {t1, t2, t3, t4}, pc <- lock_pc, woken <- lock_woken

Semaphore == INSTANCE AsyncSemaphore WITH
    Tasks <- {t1, t2, t3, t4, t5}, initial_count <- 1, MaxTokens <- 4,
    tokens <- semaphore_tokens, available <- semaphore_available,
    waiting <- semaphore_waiting, woken <- semaphore_woken

RwLock == INSTANCE AsyncReaderWriterLock WITH
    Tasks <- {t1, t2, t3, t4}, pc <- rw_pc, woken <- rw_woken

Pool == INSTANCE TaskPool WITH
    Tasks <- {t1, t2, t3, t4}, max_tasks <- 2, tokens <- pool_tokens,
    available <- pool_available, waiting <- pool_waiting, woken <- pool_woken

Unbounded == INSTANCE AsyncChannelUnbounded WITH
    Tasks <- {t1, t2, t3}, Messages <- {m1, m2}, MaxSends <- 3, MaxSenders <- 2,
    closed <- unbounded_closed, sender_count <- unbounded_sender_count,
    receiver <- unbounded_receiver, waiting <- unbounded_waiting,
    woken <- unbounded_woken, sent <- unbounded_sent, received <- unbounded_received

Slot == INSTANCE AsyncChannel WITH
    Senders <- {t3, t4, t5}, Receivers <- {t1, t2}, MaxSends <- 4, MaxSenders <- 2,
    value <- slot_value, closed <- slot_closed, sender_count <- slot_sender_count,
    receiver <- slot_receiver, waiting <- slot_waiting, woken <- slot_woken,
    sent <- slot_sent, received <- slot_received

Oneshot == INSTANCE AsyncOneshot WITH
    Receiver <- t1, value <- oneshot_value, closed <- oneshot_closed,
    receiver <- oneshot_receiver, woken <- oneshot_woken

event_vars == <<event, pending, canceled, event_woken>>
lock_vars == <<unlocked, lock_pc, lock_woken>>
semaphore_vars == <<semaphore_tokens, semaphore_available, semaphore_waiting,
    semaphore_woken>>
rwlock_vars == <<readers, writer, read_event, write_event, rw_pc, rw_woken>>
pool_vars == <<pool_tokens, pool_available, pool_waiting, pool_woken, called,
    spawned, guarded>>
unbounded_vars == <<items, unbounded_closed, has_items, unbounded_sender_count,
    unbounded_receiver, unbounded_waiting, unbounded_woken, unbounded_sent,
    unbounded_received, ended>>
slot_vars == <<slot_value, slot_closed, waiters, slot_sender_count, slot_receiver,
    sending, slot_waiting, slot_woken, calls, slot_sent, slot_received, refused>>
oneshot_vars == <<oneshot_value, oneshot_closed, has_value, sender, oneshot_receiver,
    oneshot_woken, got, told>>

all_vars == <<event_vars, lock_vars, semaphore_vars, rwlock_vars, pool_vars,
    unbounded_vars, slot_vars, oneshot_vars>>
vars == <<kind, all_vars>>

Init ==
    /\ kind \in {"event", "plain event", "lock", "semaphore", "rwlock", "pool", "unbounded", "slot",
                "oneshot"}
    /\ Event!Init /\ Lock!Init /\ Semaphore!Init /\ RwLock!Init /\ Pool!Init /\
       Unbounded!Init /\ Slot!Init /\ Oneshot!Init

OnEvent ==
    /\ kind = "event"
    /\ UNCHANGED <<kind, lock_vars, semaphore_vars, rwlock_vars, pool_vars,
                   unbounded_vars, slot_vars, oneshot_vars>>
OnPlainEvent ==
    /\ kind = "plain event"
    /\ UNCHANGED <<kind, lock_vars, semaphore_vars, rwlock_vars, pool_vars,
                   unbounded_vars, slot_vars, oneshot_vars>>
OnLock ==
    /\ kind = "lock"
    /\ UNCHANGED <<kind, event_vars, semaphore_vars, rwlock_vars, pool_vars,
                   unbounded_vars, slot_vars, oneshot_vars>>
OnSemaphore ==
    /\ kind = "semaphore"
    /\ UNCHANGED <<kind, event_vars, lock_vars, rwlock_vars, pool_vars,
                   unbounded_vars, slot_vars, oneshot_vars>>
OnRwLock ==
    /\ kind = "rwlock"
    /\ UNCHANGED <<kind, event_vars, lock_vars, semaphore_vars, pool_vars,
                   unbounded_vars, slot_vars, oneshot_vars>>
OnPool ==
    /\ kind = "pool"
    /\ UNCHANGED <<kind, event_vars, lock_vars, semaphore_vars, rwlock_vars,
                   unbounded_vars, slot_vars, oneshot_vars>>
OnUnbounded ==
    /\ kind = "unbounded"
    /\ UNCHANGED <<kind, event_vars, lock_vars, semaphore_vars, rwlock_vars,
                   pool_vars, slot_vars, oneshot_vars>>
OnSlot ==
    /\ kind = "slot"
    /\ UNCHANGED <<kind, event_vars, lock_vars, semaphore_vars, rwlock_vars,
                   pool_vars, unbounded_vars, oneshot_vars>>
OnOneshot ==
    /\ kind = "oneshot"
    /\ UNCHANGED <<kind, event_vars, lock_vars, semaphore_vars, rwlock_vars,
                   pool_vars, unbounded_vars, slot_vars>>

Next ==
    \/ OnEvent /\ Event!Next
    \/ OnPlainEvent /\ PlainEvent!Next
    \/ OnLock /\ Lock!Next
    \/ OnSemaphore /\ Semaphore!Next
    \/ OnRwLock /\ RwLock!Next
    \/ OnPool /\ Pool!Next
    \/ OnUnbounded /\ Unbounded!Next
    \/ OnSlot /\ Slot!Next
    \/ OnOneshot /\ Oneshot!Next

\* The scheduler polls a task that has been woken.
PollWoken(t) ==
    \/ OnEvent /\ t \in event_woken /\ Event!Poll(t)
    \/ OnPlainEvent /\ t \in event_woken /\ PlainEvent!Poll(t)
    \/ OnLock /\ t \in lock_woken /\ Lock!Poll(t)
    \/ OnSemaphore /\ t \in semaphore_woken /\ Semaphore!Poll(t)
    \/ OnRwLock /\ t \in rw_woken /\ (RwLock!PollWrite(t) \/ RwLock!PollRead(t))
    \/ OnPool /\ t \in pool_woken /\ Pool!Poll(t)
    \/ OnUnbounded /\ t \in unbounded_woken /\ Unbounded!Poll(t)
    \/ OnSlot /\ t \in slot_woken /\ Slot!Poll(t)
    \/ OnOneshot /\ t = t1 /\ oneshot_woken /\ Oneshot!Poll

\* The tasks of the pool are polled, and end.
Fairness ==
    /\ \A t \in {t1, t2, t3, t4, t5} : WF_vars(PollWoken(t))
    /\ WF_vars(OnPool /\ Pool!FirstPoll) /\ WF_vars(OnPool /\ Pool!TaskEnds)

Spec == Init /\ [][Next]_vars /\ Fairness

-----------------------------------------------------------------------------
TypeOK ==
    /\ Event!TypeOK /\ Lock!TypeOK /\ Semaphore!TypeOK /\ RwLock!TypeOK /\ Pool!TypeOK
    /\ Unbounded!TypeOK /\ Slot!TypeOK /\ Oneshot!TypeOK

\* A suspended wait is in the wait list of its event, where the next wake-up
\* finds it, or its task has been woken; with set and reset alone it has been
\* woken whenever its condition holds; so has a receiver for which there is a message
\* or the end of the channel.
NobodyForgotten ==
    /\ Event!NobodyForgotten
    /\ kind = "plain event" => PlainEvent!NoMissedSignal
    /\ Lock!WaitersAreLinked /\ RwLock!WaitersAreLinked
    /\ Slot!NobodyForgotten /\ Unbounded!NoMissedMessage

\* The intrusive list holds a waiting future once, and an entry of a wait that
\* is over only while the event is set.
WaitListSound == Event!LinkedOnce /\ Event!StaleOnlyWhileSet

\* AsyncEvent: a wait that is woken and then given up passes the notification on.
PassesNotification == Event!PassesNotification

\* AsyncLock and AsyncReaderWriterLock: the exclusion that the SAFETY comments
\* of their guards rely on.
Exclusion == Lock!Exclusion /\ RwLock!Exclusion

\* The event of each primitive is set exactly when its counters and guards say that
\* something is free, and that of a oneshot only when there is a result or an end: who
\* begins to wait finds a flag that is not stale.
EventsMatch ==
    /\ Lock!FreeIffUnheld /\ Semaphore!SetIffTokens /\ RwLock!EventsMatch
    /\ Oneshot!SetMeansResult

\* TaskPool: a token is free or belongs to exactly one task.
TokensConserved == Pool!TokensConserved

\* Whatever is free while tasks wait for it has been offered to one of them.
FreeIsOffered ==
    Lock!FreeLockIsOffered /\ Semaphore!TokensAreOffered /\ RwLock!FreeLockIsOffered

\* Channels: a message is in one place, accepted messages come out once and in order,
\* and the end of a channel is reported only when nothing is to come.
OneOwner == Slot!OneOwner /\ Oneshot!SentOnce /\ Unbounded!ClosedIsFinal

\* What is free is taken, or nobody wants it any more; a signal is seen; a spawn that
\* waits for a token of the pool ends; the slot of a channel moves; a recv ends with
\* its channel.
WaitsEnd ==
    /\ kind = "plain event" => PlainEvent!SignalIsSeen
    /\ Lock!FreeLockIsTaken /\ Semaphore!TokensAreTaken /\ RwLock!FreeLockIsTaken
    /\ Pool!SpawnsEnd /\ Slot!SlotMoves /\ Unbounded!RecvEnds /\ Oneshot!RecvEnds
=============================================================================
