---------------------------- MODULE RwLockProofs ----------------------------
(***************************************************************************)
(* AsyncReaderWriterLock is right for every finite number of tasks: a      *)
(* writer excludes everybody else, the events say what the counters say,   *)
(* and a free lock that tasks wait for has been offered to one of them.    *)
(***************************************************************************)
EXTENDS AsyncReaderWriterLock, ListLemmas, FiniteSetTheorems

Types ==
    /\ readers \in Nat
    /\ writer \in BOOLEAN
    /\ read_event \in Events(Tasks)
    /\ write_event \in Events(Tasks)
    /\ pc \in [Tasks -> States]
    /\ woken \subseteq Waiting

\* While writers must wait, the list of the write event holds only their waits.
Lists ==
    /\ Once(read_event) /\ Once(write_event)
    /\ \A t \in Tasks : is_linked(write_event, t) => t \in In("wait_write")
    /\ ~write_event.state => \A x \in Linked(write_event) : x[2]

\* Without a writer, a reader sleeps only because a writer waits too, and that
\* writer wakes it, by its guard or by giving up.
ReadersBehindWriter ==
    ~writer /\ In("wait_write") = {} => In("wait_read") \subseteq woken

\* A free lock that writers wait for has been offered to a writer.
WriterIsWoken ==
    ~writer /\ readers = 0 /\ In("wait_write") # {} => In("wait_write") \cap woken # {}

Offers == WaitersAreLinked /\ ReadersBehindWriter /\ WriterIsWoken

IInv == Types /\ Exclusion /\ EventsMatch /\ Lists /\ Offers

-----------------------------------------------------------------------------
\* The tasks of each state after t has gone to state s.
LEMMA LeaveFacts ==
    ASSUME Types, NEW t \in Tasks, NEW s \in States, NEW W, Leave(t, s, W)
    PROVE  /\ pc' \in [Tasks -> States]
           /\ \A x \in States : In(x)' = IF x = s THEN In(x) \cup {t} ELSE In(x) \ {t}
           /\ t \in In(pc[t]) /\ pc[t] \in States
           /\ \A x \in States : t \in In(x) => x = pc[t]
           /\ woken' = (woken \cup (W \cap Waiting)) \ {t}
           /\ Waiting' = IF s \in {"wait_read", "wait_write"} THEN Waiting \cup {t}
                         ELSE Waiting \ {t}
           /\ woken' \subseteq Waiting'
<1>1. /\ pc' = [pc EXCEPT ![t] = s] /\ pc \in [Tasks -> States]
      /\ woken' = (woken \cup (W \cap Waiting)) \ {t}
      /\ woken \subseteq Waiting
    BY DEF Leave, Types
<1>2. \A u \in Tasks : pc'[u] = IF u = t THEN s ELSE pc[u]
    BY <1>1
<1>3. \A x \in States : In(x)' = IF x = s THEN In(x) \cup {t} ELSE In(x) \ {t}
    BY <1>2 DEF In
<1>4. pc' \in [Tasks -> States]
    BY <1>1
<1>5. t \in In(pc[t]) /\ pc[t] \in States /\ \A x \in States : t \in In(x) => x = pc[t]
    BY <1>1 DEF In
<1>6. Waiting' = IF s \in {"wait_read", "wait_write"} THEN Waiting \cup {t} ELSE Waiting \ {t}
    BY <1>3 DEF Waiting, States
<1> QED
    BY <1>1, <1>3, <1>4, <1>5, <1>6

\* The number of readers, when one comes and when one goes.
LEMMA Count ==
    ASSUME IsFiniteSet(Tasks), Types
    PROVE  /\ IsFiniteSet(In("reading"))
           /\ Cardinality(In("reading")) \in Nat
           /\ Cardinality(In("reading")) = 0 <=> In("reading") = {}
           /\ \A t : t \notin In("reading") =>
                 Cardinality(In("reading") \cup {t}) = Cardinality(In("reading")) + 1
           /\ \A t \in In("reading") :
                 Cardinality(In("reading") \ {t}) = Cardinality(In("reading")) - 1
<1>1. IsFiniteSet(In("reading"))
  <2>1. In("reading") \in SUBSET Tasks
      BY DEF In
  <2> QED
      BY <2>1, FS_Subset
<1> QED
    BY <1>1, FS_CardinalityType, FS_EmptySet, FS_AddElement, FS_RemoveElement, Zenon

-----------------------------------------------------------------------------
\* t becomes the writer: all lists are emptied and all waiters woken.
LEMMA TakeWriteKeeps ==
    ASSUME IsFiniteSet(Tasks), IInv, NEW t \in Tasks, NEW W,
           ~writer, In("reading") \subseteq {t}, pc[t] # "writing",
           writer', readers' = 0,
           write_event' \in Events(Tasks), ~write_event'.state,
           Linked(write_event') = {}, Once(write_event'),
           read_event' = reset(read_event),
           Leave(t, "writing", W),
           \A v : v # t /\ is_linked(write_event, v) => v \in W,
           NotifiedAll(read_event) \subseteq W
    PROVE  IInv'
<1> USE DEF IInv
<1>1. /\ pc' \in [Tasks -> States] /\ In("writing")' = In("writing") \cup {t}
      /\ In("reading")' = In("reading") \ {t}
      /\ In("wait_read")' = In("wait_read") \ {t}
      /\ In("wait_write")' = In("wait_write") \ {t}
      /\ woken' = (woken \cup (W \cap Waiting)) \ {t} /\ woken' \subseteq Waiting'
    BY LeaveFacts DEF States
<1>2. /\ read_event' \in Events(Tasks) /\ read_event'.state = FALSE
      /\ Linked(read_event') = {} /\ Once(read_event')
    BY ClearFacts, Zenon DEF Types
<1>3. Types'
    BY <1>1, <1>2 DEF Types
<1>4. In("writing")' = {t} /\ In("reading")' = {} /\ Cardinality(In("reading")') = 0
    BY <1>1, FS_EmptySet, Zenon DEF Exclusion
<1>5. Exclusion'
    BY <1>4 DEF Exclusion
<1>6. EventsMatch'
    BY <1>2 DEF EventsMatch
<1>7. \A v : ~is_linked(write_event', v)
    BY DEF is_linked, Linked
<1>8. Lists'
    BY <1>2, <1>7 DEF Lists
<1>9. WaitersAreLinked'
  <2>1. \A v : is_linked(read_event, v) => v \in NotifiedAll(read_event)
      BY NotifiedAllFacts DEF Types
  <2> QED
      BY <1>1, <2>1 DEF Offers, WaitersAreLinked, Waiting
<1>10. Offers'
    BY <1>9 DEF Offers, ReadersBehindWriter, WriterIsWoken
<1> QED
    BY <1>3, <1>5, <1>6, <1>8, <1>10

\* t waits for the write event; it may have been one of several readers.
LEMMA WaitWriteKeeps ==
    ASSUME IsFiniteSet(Tasks), IInv, NEW t \in Tasks,
           ~write_event.state, pc[t] # "writing",
           IF pc[t] = "reading" THEN readers > 1 /\ readers' = readers - 1
                                ELSE readers' = readers,
           pc[t] # "wait_read",
           write_event' = register(write_event, t),
           writer' = writer, read_event' = read_event,
           Leave(t, "wait_write", {})
    PROVE  IInv'
<1> USE DEF IInv
<1>1. /\ pc' \in [Tasks -> States] /\ In("writing")' = In("writing") \ {t}
      /\ In("reading")' = In("reading") \ {t}
      /\ In("wait_read")' = In("wait_read") \ {t}
      /\ In("wait_write")' = In("wait_write") \cup {t}
      /\ woken' = woken \ {t} /\ woken' \subseteq Waiting'
      /\ t \notin In("writing") /\ t \notin In("wait_read")
    BY LeaveFacts DEF States
<1>2. /\ write_event' \in Events(Tasks) /\ write_event'.state = write_event.state
      /\ Linked(write_event') = Linked(write_event) \cup {live(t)}
      /\ Once(write_event')
    BY RegisterFacts DEF Types, Lists
<1>3. readers' \in Nat /\ Cardinality(In("reading")') = readers' /\ (readers = 0 <=> readers' = 0)
  <2>1. CASE pc[t] = "reading"
    <3>1. t \in In("reading")
        BY <2>1 DEF In
    <3>2. Cardinality(In("reading")') = Cardinality(In("reading")) - 1
        BY <1>1, <3>1, Count
    <3> QED
        BY <2>1, <3>2 DEF Exclusion, Types
  <2>2. CASE pc[t] # "reading"
    <3>1. In("reading")' = In("reading")
        BY <1>1, <2>2 DEF In
    <3> QED
        BY <2>2, <3>1 DEF Exclusion, Types
  <2> QED
      BY <2>1, <2>2
<1>4. Types'
    BY <1>1, <1>2, <1>3 DEF Types
<1>5. Exclusion'
    BY <1>1, <1>3 DEF Exclusion
<1>6. EventsMatch'
    BY <1>2, <1>3 DEF EventsMatch
<1>7. live(t)[2] = TRUE /\ \A v : live(v) = live(t) => v = t
    BY DEF live
<1>8. /\ is_linked(write_event', t)
      /\ \A v : is_linked(write_event, v) => is_linked(write_event', v)
      /\ \A v : is_linked(write_event', v) => v = t \/ is_linked(write_event, v)
    BY <1>2, <1>7 DEF is_linked, Linked
<1>9. Lists'
    BY <1>1, <1>2, <1>7, <1>8 DEF Lists
<1>10. WaitersAreLinked'
    BY <1>1, <1>8 DEF Offers, WaitersAreLinked
<1>11. ReadersBehindWriter' /\ WriterIsWoken'
    BY <1>1, <1>3 DEF ReadersBehindWriter, WriterIsWoken, EventsMatch
<1> QED
    BY <1>4, <1>5, <1>6, <1>9, <1>10, <1>11 DEF Offers

\* t gives the wait for the write event up: the scopeguard wakes the readers.
LEMMA LeaveWriteKeeps ==
    ASSUME IInv, NEW t \in Tasks, pc[t] = "wait_write", NEW W, NEW V,
           write_event' \in Events(Tasks), write_event'.state = write_event.state,
           Linked(write_event') \subseteq Linked(write_event) \ {live(t)},
           Once(write_event'),
           \A v : is_linked(write_event, v) /\ v # t =>
              v \in V \/ (~write_event.state /\ is_linked(write_event', v)),
           read_event' = wake_readers_on_cancel(read_event),
           W = V \cup (IF writer THEN {} ELSE NotifiedAll(read_event)),
           readers' = readers, writer' = writer,
           Leave(t, "idle", W)
    PROVE  IInv'
<1> USE DEF IInv
<1>1. /\ pc' \in [Tasks -> States] /\ In("writing")' = In("writing") \ {t}
      /\ In("reading")' = In("reading") \ {t}
      /\ In("wait_read")' = In("wait_read") \ {t}
      /\ In("wait_write")' = In("wait_write") \ {t}
      /\ woken' = (woken \cup (W \cap Waiting)) \ {t} /\ woken' \subseteq Waiting'
      /\ t \notin In("writing") /\ t \notin In("wait_read") /\ t \notin In("reading")
    BY LeaveFacts DEF States
<1>2. /\ read_event' \in Events(Tasks) /\ Once(read_event')
      /\ read_event'.state = read_event.state
      /\ IF writer THEN read_event' = read_event ELSE Linked(read_event') = {}
  <2>1. CASE writer
      BY <2>1 DEF wake_readers_on_cancel, Types, Lists
  <2>2. CASE ~writer
    <3>1. /\ read_event' = set(read_event) /\ read_event.state /\ read_event \in Events(Tasks)
          /\ read_event.state \in BOOLEAN
        BY <2>2 DEF wake_readers_on_cancel, Types, Events, EventsMatch
    <3>2. /\ set(read_event) \in Events(Tasks) /\ set(read_event).state = TRUE
          /\ Linked(set(read_event)) = {} /\ Once(set(read_event))
        BY <3>1, ClearFacts, Zenon
    <3>3. read_event.state = TRUE
        BY <3>1
    <3> QED
        BY <2>2, <3>1, <3>2, <3>3, Zenon
  <2> QED
      BY <2>1, <2>2
<1>3. Types'
    BY <1>1, <1>2 DEF Types
<1>4. Exclusion'
  <2>1. In("reading")' = In("reading") /\ In("writing")' = In("writing")
      BY <1>1, Zenon
  <2> QED
      BY <2>1 DEF Exclusion
<1>5. EventsMatch'
    BY <1>2 DEF EventsMatch
<1>6. \A v : is_linked(write_event', v) => is_linked(write_event, v) /\ v # t
    BY DEF is_linked, Linked
<1>7. Lists'
    BY <1>1, <1>2, <1>6 DEF Lists
<1>8. \A v : is_linked(read_event, v) => v \in NotifiedAll(read_event)
    BY NotifiedAllFacts DEF Types
<1>9. WaitersAreLinked'
    BY <1>1, <1>2, <1>8 DEF Offers, WaitersAreLinked, Waiting
<1>10. ReadersBehindWriter'
    BY <1>1, <1>8 DEF Offers, WaitersAreLinked, ReadersBehindWriter, Waiting
<1>11. WriterIsWoken'
    BY <1>1 DEF Offers, WaitersAreLinked, WriterIsWoken, Waiting, EventsMatch
<1> QED
    BY <1>3, <1>4, <1>5, <1>7, <1>9, <1>10, <1>11 DEF Offers

-----------------------------------------------------------------------------
\* t becomes a reader; e is the read event when the loop of lock_read is left.
LEMMA TakeReadKeeps ==
    ASSUME IsFiniteSet(Tasks), IInv, NEW t \in Tasks, NEW e \in Events(Tasks),
           pc[t] \in {"idle", "wait_read"}, ~writer,
           e.state = read_event.state, Once(e),
           \A v : v # t /\ is_linked(read_event, v) => is_linked(e, v),
           take_read(t, e)
    PROVE  IInv'
<1> USE DEF IInv
<1>0. /\ readers' = readers + 1 /\ writer' = writer
      /\ read_event' = e /\ write_event' = reset(write_event)
      /\ Leave(t, "reading", NotifiedAll(write_event))
    BY DEF take_read
<1>1. /\ pc' \in [Tasks -> States] /\ In("writing")' = In("writing") \ {t}
      /\ In("reading")' = In("reading") \cup {t}
      /\ In("wait_read")' = In("wait_read") \ {t}
      /\ In("wait_write")' = In("wait_write") \ {t}
      /\ woken' = (woken \cup (NotifiedAll(write_event) \cap Waiting)) \ {t}
      /\ woken' \subseteq Waiting'
      /\ t \notin In("writing") /\ t \notin In("wait_write") /\ t \notin In("reading")
    BY <1>0, LeaveFacts DEF States
<1>2. /\ write_event' \in Events(Tasks) /\ write_event'.state = FALSE
      /\ Linked(write_event') = {} /\ Once(write_event')
    BY <1>0, ClearFacts, Zenon DEF Types
<1>3. Types'
    BY <1>0, <1>1, <1>2 DEF Types
<1>4. Exclusion'
  <2>1. Cardinality(In("reading")') = readers'
      BY <1>0, <1>1, Count DEF Exclusion
  <2> QED
      BY <1>0, <1>1, <2>1 DEF Exclusion
<1>5. EventsMatch'
  <2>1. readers' # 0
      BY <1>0 DEF Types
  <2> QED
      BY <1>0, <1>2, <2>1 DEF EventsMatch
<1>6. \A v : ~is_linked(write_event', v)
    BY <1>2 DEF is_linked, Linked
<1>7. Lists'
    BY <1>0, <1>2, <1>6 DEF Lists
<1>8. \A v : is_linked(write_event, v) => v \in NotifiedAll(write_event)
    BY NotifiedAllFacts DEF Types
<1>9. WaitersAreLinked'
    BY <1>0, <1>1, <1>8 DEF Offers, WaitersAreLinked, Waiting
<1>10. ReadersBehindWriter'
    BY <1>0, <1>1 DEF Offers, ReadersBehindWriter
<1>11. WriterIsWoken'
  <2>1. readers' # 0
      BY <1>0 DEF Types
  <2> QED
      BY <2>1 DEF WriterIsWoken
<1> QED
    BY <1>3, <1>4, <1>5, <1>7, <1>9, <1>10, <1>11 DEF Offers

LEMMA WaitReadKeeps ==
    ASSUME IInv, NEW t \in Tasks, pc[t] \in {"idle", "wait_read"}, wait_read(t)
    PROVE  IInv'
<1> USE DEF IInv
<1>0. /\ ~read_event.state /\ read_event' = register(read_event, t)
      /\ readers' = readers /\ writer' = writer /\ write_event' = write_event
      /\ Leave(t, "wait_read", {})
    BY DEF wait_read
<1>1. /\ pc' \in [Tasks -> States] /\ In("writing")' = In("writing") \ {t}
      /\ In("reading")' = In("reading") \ {t}
      /\ In("wait_read")' = In("wait_read") \cup {t}
      /\ In("wait_write")' = In("wait_write") \ {t}
      /\ woken' = woken \ {t} /\ woken' \subseteq Waiting'
      /\ t \notin In("writing") /\ t \notin In("wait_write") /\ t \notin In("reading")
    BY <1>0, LeaveFacts DEF States
<1>2. /\ read_event' \in Events(Tasks) /\ read_event'.state = read_event.state
      /\ Linked(read_event') = Linked(read_event) \cup {live(t)}
      /\ Once(read_event')
    BY <1>0, RegisterFacts DEF Types, Lists
<1>3. Types'
    BY <1>0, <1>1, <1>2 DEF Types
<1>4. /\ In("reading")' = In("reading") /\ In("writing")' = In("writing")
      /\ In("wait_write")' = In("wait_write")
    BY <1>1
<1>5. Exclusion' /\ EventsMatch'
    BY <1>0, <1>2, <1>4 DEF Exclusion, EventsMatch
<1>6. Lists'
    BY <1>0, <1>2, <1>4 DEF Lists
<1>7. /\ is_linked(read_event', t)
      /\ \A v : is_linked(read_event, v) => is_linked(read_event', v)
    BY <1>2 DEF is_linked, Linked
<1>8. WaitersAreLinked'
    BY <1>0, <1>1, <1>4, <1>7 DEF Offers, WaitersAreLinked
<1>9. writer
    BY <1>0 DEF EventsMatch
<1>10. ReadersBehindWriter' /\ WriterIsWoken'
    BY <1>0, <1>9 DEF ReadersBehindWriter, WriterIsWoken
<1> QED
    BY <1>3, <1>5, <1>6, <1>8, <1>10 DEF Offers

\* t gives the wait for the read event up.
LEMMA LeaveReadKeeps ==
    ASSUME IInv, NEW t \in Tasks, pc[t] = "wait_read", NEW W,
           read_event' \in Events(Tasks), read_event'.state = read_event.state,
           Once(read_event'),
           \A v : is_linked(read_event, v) /\ v # t => v \in W \/ is_linked(read_event', v),
           readers' = readers, writer' = writer, write_event' = write_event,
           Leave(t, "idle", W)
    PROVE  IInv'
<1> USE DEF IInv
<1>1. /\ pc' \in [Tasks -> States] /\ In("writing")' = In("writing") \ {t}
      /\ In("reading")' = In("reading") \ {t}
      /\ In("wait_read")' = In("wait_read") \ {t}
      /\ In("wait_write")' = In("wait_write") \ {t}
      /\ woken' = (woken \cup (W \cap Waiting)) \ {t} /\ woken' \subseteq Waiting'
      /\ t \notin In("writing") /\ t \notin In("wait_write") /\ t \notin In("reading")
    BY LeaveFacts DEF States
<1>2. /\ In("reading")' = In("reading") /\ In("writing")' = In("writing")
      /\ In("wait_write")' = In("wait_write")
    BY <1>1, Zenon
<1>3. Types'
    BY <1>1 DEF Types
<1>4. Exclusion' /\ EventsMatch'
    BY <1>2 DEF Exclusion, EventsMatch
<1>5. Lists'
    BY <1>2 DEF Lists
<1>6. WaitersAreLinked'
    BY <1>1, <1>2 DEF Offers, WaitersAreLinked, Waiting
<1>7. ReadersBehindWriter'
    BY <1>1, <1>2 DEF Offers, ReadersBehindWriter
<1>8. WriterIsWoken'
    BY <1>1, <1>2 DEF Offers, WriterIsWoken
<1> QED
    BY <1>3, <1>4, <1>5, <1>6, <1>7, <1>8 DEF Offers
-----------------------------------------------------------------------------
\* The first entry of a list of live entries is the wait of a task.
LEMMA FirstIsLive ==
    ASSUME NEW e \in Events(Tasks), e.waiting_tasks # <<>>, \A x \in Linked(e) : x[2]
    PROVE  \E t \in Tasks : is_linked(e, t) /\ t \in Notified(e, 1)
<1> DEFINE s == e.waiting_tasks
<1>1. 1 \in DOMAIN s
  <2>1. s \in Seq(Tasks \X BOOLEAN)
      BY EventFacts
  <2> QED
      BY <2>1
<1>2. s[1] \in Linked(e) /\ s[1] \in Tasks \X BOOLEAN
    BY <1>1, EventFacts, Zenon
<1>3. PICK t \in Tasks, b \in BOOLEAN : s[1] = <<t, b>>
    BY <1>2
<1>4. s[1] = live(t)
  <2>1. s[1][2]
      BY <1>2
  <2>2. b = TRUE
      BY <1>3, <2>1
  <2> QED
      BY <1>3, <2>2 DEF live
<1>5. is_linked(e, t)
    BY <1>2, <1>4 DEF is_linked, Linked
<1>6. t \in Notified(e, 1)
    BY <1>1, <1>3 DEF Notified
<1> QED
    BY <1>5, <1>6

LEMMA DropWriteKeeps ==
    ASSUME IInv, NEW t \in Tasks, drop_write(t)
    PROVE  IInv'
<1> USE DEF IInv
<1> DEFINE W == IF any_waiting(write_event) THEN Notified(write_event, 1)
                ELSE NotifiedAll(read_event)
<1>0. /\ pc[t] = "writing" /\ writer' = FALSE /\ readers' = readers
      /\ Leave(t, "idle", W)
    BY DEF drop_write
<1> HIDE DEF W
<1>1. /\ pc' \in [Tasks -> States] /\ In("writing")' = In("writing") \ {t}
      /\ In("reading")' = In("reading") \ {t}
      /\ In("wait_read")' = In("wait_read") \ {t}
      /\ In("wait_write")' = In("wait_write") \ {t}
      /\ woken' = (woken \cup (W \cap Waiting)) \ {t} /\ woken' \subseteq Waiting'
      /\ t \in In("writing")
      /\ t \notin In("wait_read") /\ t \notin In("wait_write") /\ t \notin In("reading")
    BY <1>0, LeaveFacts DEF States
<1>2. /\ In("reading")' = In("reading") /\ In("wait_read")' = In("wait_read")
      /\ In("wait_write")' = In("wait_write") /\ In("writing")' = {}
      /\ writer /\ readers = 0 /\ ~write_event.state
    BY <1>1 DEF Exclusion, EventsMatch
<1>3. Exclusion'
    BY <1>0, <1>2 DEF Exclusion
<1>4. t \notin woken
    BY <1>1 DEF Types, Waiting
<1>5. CASE any_waiting(write_event)
  <2>1. /\ write_event' = set_wake_n(write_event, 1)
        /\ read_event' = set_wake_n(read_event, 0)
        /\ W = Notified(write_event, 1)
      BY <1>5 DEF drop_write, W
  <2>2. /\ write_event' \in Events(Tasks) /\ write_event'.state = TRUE
        /\ Linked(write_event') \subseteq Linked(write_event)
        /\ \A v : is_linked(write_event, v) => v \in W \/ is_linked(write_event', v)
        /\ Once(write_event')
      BY <2>1, WakeNFacts, Zenon DEF Types, Lists
  <2>3. /\ read_event' \in Events(Tasks) /\ read_event'.state = TRUE
        /\ \A v : is_linked(read_event, v) =>
              v \in Notified(read_event, 0) \/ is_linked(read_event', v)
        /\ Once(read_event')
      BY <2>1, WakeNFacts, Zenon DEF Types, Lists
  <2>4. Notified(read_event, 0) = {}
    <3>1. DOMAIN read_event.waiting_tasks = 1..Len(read_event.waiting_tasks)
        BY EventFacts DEF Types
    <3>2. {j \in DOMAIN read_event.waiting_tasks : j <= 0} = {}
        BY <3>1
    <3> QED
        BY <3>2 DEF Notified
  <2>5. Types'
      BY <1>0, <1>1, <1>2, <2>2, <2>3, Zenon DEF Types
  <2>6. EventsMatch'
      BY <1>0, <1>2, <2>2, <2>3 DEF EventsMatch
  <2>7. \A v : is_linked(write_event', v) => is_linked(write_event, v)
      BY <2>2 DEF is_linked, Linked
  <2>8. Lists'
      BY <1>2, <2>2, <2>3, <2>7 DEF Lists
  <2>9. WaitersAreLinked'
      BY <1>1, <1>2, <2>2, <2>3, <2>4 DEF Offers, WaitersAreLinked, Waiting
  <2>10. PICK u \in Tasks : is_linked(write_event, u) /\ u \in W
    <3>1. write_event.waiting_tasks # <<>> /\ \A x \in Linked(write_event) : x[2]
        BY <1>2, <1>5 DEF any_waiting, Lists
    <3> QED
        BY <2>1, <3>1, FirstIsLive DEF Types
  <2>11. u \in In("wait_write") /\ u \in woken'
    <3>1. u \in In("wait_write")
        BY <2>10 DEF Lists
    <3> QED
        BY <1>1, <2>10, <3>1 DEF Waiting
  <2>12. ReadersBehindWriter' /\ WriterIsWoken'
      BY <1>2, <2>11 DEF ReadersBehindWriter, WriterIsWoken
  <2> QED
      BY <1>3, <2>5, <2>6, <2>8, <2>9, <2>12 DEF Offers
<1>6. CASE ~any_waiting(write_event)
  <2>1. /\ write_event' = set(write_event) /\ read_event' = set(read_event)
        /\ W = NotifiedAll(read_event)
      BY <1>6 DEF drop_write, W
  <2>2. /\ write_event' \in Events(Tasks) /\ write_event'.state = TRUE
        /\ Linked(write_event') = {} /\ Once(write_event')
      BY <2>1, ClearFacts, Zenon DEF Types
  <2>3. /\ read_event' \in Events(Tasks) /\ read_event'.state = TRUE
        /\ Linked(read_event') = {} /\ Once(read_event')
      BY <2>1, ClearFacts, Zenon DEF Types
  <2>4. Types'
      BY <1>0, <1>1, <1>2, <2>2, <2>3, Zenon DEF Types
  <2>5. EventsMatch'
      BY <1>0, <1>2, <2>2, <2>3 DEF EventsMatch
  <2>6. \A v : ~is_linked(write_event', v)
      BY <2>2 DEF is_linked, Linked
  <2>7. Lists'
      BY <2>2, <2>3, <2>6 DEF Lists
  <2>8. \A v : ~is_linked(write_event, v)
    <3>1. Range(write_event.waiting_tasks) = {}
        BY <1>6 DEF any_waiting, Range
    <3> QED
        BY <3>1 DEF is_linked
  <2>9. \A v : is_linked(read_event, v) => v \in W
      BY <2>1, NotifiedAllFacts DEF Types
  <2>10. In("wait_read") \subseteq woken' /\ In("wait_write") \subseteq woken'
      BY <1>1, <2>8, <2>9 DEF Offers, WaitersAreLinked, Waiting
  <2>11. Offers'
      BY <1>2, <2>10 DEF Offers, WaitersAreLinked, ReadersBehindWriter, WriterIsWoken
  <2> QED
      BY <1>3, <2>4, <2>5, <2>7, <2>11
<1> QED
    BY <1>5, <1>6

LEMMA DropReadKeeps ==
    ASSUME IsFiniteSet(Tasks), IInv, NEW t \in Tasks, drop_read(t)
    PROVE  IInv'
<1> USE DEF IInv
<1> DEFINE W == IF readers = 1 THEN NotifiedAll(write_event) ELSE {}
<1>0. /\ pc[t] = "reading" /\ readers' = readers - 1
      /\ writer' = writer /\ read_event' = read_event
      /\ Leave(t, "idle", W)
    BY DEF drop_read
<1> HIDE DEF W
<1>1. /\ pc' \in [Tasks -> States] /\ In("writing")' = In("writing") \ {t}
      /\ In("reading")' = In("reading") \ {t}
      /\ In("wait_read")' = In("wait_read") \ {t}
      /\ In("wait_write")' = In("wait_write") \ {t}
      /\ woken' = (woken \cup (W \cap Waiting)) \ {t} /\ woken' \subseteq Waiting'
      /\ t \in In("reading")
      /\ t \notin In("wait_read") /\ t \notin In("wait_write") /\ t \notin In("writing")
    BY <1>0, LeaveFacts DEF States
<1>2. /\ In("writing")' = In("writing") /\ In("wait_read")' = In("wait_read")
      /\ In("wait_write")' = In("wait_write")
    BY <1>1, Zenon
<1>3. /\ Cardinality(In("reading")') = readers' /\ readers # 0 /\ readers \in Nat
      /\ readers' \in Nat /\ ~writer
  <2>1. /\ Cardinality(In("reading")') = Cardinality(In("reading")) - 1
        /\ Cardinality(In("reading")) # 0 /\ Cardinality(In("reading")) \in Nat
      BY <1>1, Count
  <2> QED
      BY <1>0, <2>1 DEF Exclusion
<1>4. Exclusion'
    BY <1>0, <1>2, <1>3 DEF Exclusion
<1>5. t \notin woken
    BY <1>1 DEF Types, Waiting
<1>6. CASE readers = 1
  <2>1. write_event' = set(write_event) /\ W = NotifiedAll(write_event) /\ readers' = 0
      BY <1>0, <1>6 DEF drop_read, W
  <2>2. /\ write_event' \in Events(Tasks) /\ write_event'.state = TRUE
        /\ Linked(write_event') = {} /\ Once(write_event')
      BY <2>1, ClearFacts, Zenon DEF Types
  <2>3. Types'
      BY <1>0, <1>1, <1>3, <2>2 DEF Types
  <2>4. EventsMatch'
      BY <1>0, <1>3, <2>1, <2>2 DEF EventsMatch
  <2>5. \A v : ~is_linked(write_event', v)
      BY <2>2 DEF is_linked, Linked
  <2>6. Lists'
      BY <1>0, <2>2, <2>5 DEF Lists
  <2>7. \A v : is_linked(write_event, v) => v \in W
      BY <2>1, NotifiedAllFacts DEF Types
  <2>8. In("wait_write") \subseteq woken' /\ woken \subseteq woken'
      BY <1>1, <1>5, <2>7 DEF Offers, WaitersAreLinked, Waiting
  <2>9. Offers'
      BY <1>0, <1>2, <2>8 DEF Offers, WaitersAreLinked, ReadersBehindWriter, WriterIsWoken
  <2> QED
      BY <1>4, <2>3, <2>4, <2>6, <2>9
<1>7. CASE readers # 1
  <2>1. write_event' = write_event /\ W = {} /\ readers' # 0 /\ woken' = woken
      BY <1>0, <1>1, <1>3, <1>5, <1>7 DEF drop_read, W
  <2>2. Types'
      BY <1>0, <1>1, <1>3, <2>1 DEF Types
  <2>3. EventsMatch' /\ Lists'
      BY <1>0, <1>2, <1>3, <2>1 DEF EventsMatch, Lists
  <2>4. Offers'
      BY <1>0, <1>2, <2>1 DEF Offers, WaitersAreLinked, ReadersBehindWriter, WriterIsWoken
  <2> QED
      BY <1>4, <2>2, <2>3, <2>4
<1> QED
    BY <1>6, <1>7

\* The last reader becomes the writer at once, another one waits.
LEMMA UpgradeKeeps ==
    ASSUME IsFiniteSet(Tasks), IInv, NEW t \in Tasks, upgrade(t)
    PROVE  IInv'
<1>0. /\ pc[t] = "reading" /\ t \in In("reading") /\ readers \in Nat
      /\ Cardinality(In("reading")) = readers /\ Types
    BY DEF IInv, upgrade, In, Exclusion, Types
<1>1. readers # 0 /\ ~writer
    BY <1>0, Count DEF IInv, Exclusion
<1>2. CASE readers = 1
  <2>1. /\ readers' = 0 /\ writer' /\ write_event' = reset(set(write_event))
        /\ read_event' = reset(read_event)
        /\ Leave(t, "writing", NotifiedAll(write_event) \cup NotifiedAll(read_event))
      BY <1>2 DEF upgrade
  <2>2. set(write_event) \in Events(Tasks)
      BY <1>0, ClearFacts, Zenon DEF Types
  <2>3. /\ write_event' \in Events(Tasks) /\ ~write_event'.state
        /\ Linked(write_event') = {} /\ Once(write_event')
      BY <2>1, <2>2, ClearFacts, Zenon
  <2>4. In("reading") \subseteq {t}
    <3>1. IsFiniteSet(In("reading") \ {t}) /\ Cardinality(In("reading") \ {t}) = 0
        BY <1>0, <1>2, Count, FS_RemoveElement
    <3> QED
        BY <3>1, FS_EmptySet
  <2>5. \A v : is_linked(write_event, v) => v \in NotifiedAll(write_event)
      BY <1>0, NotifiedAllFacts DEF Types
  <2> QED
      BY <1>0, <1>1, <2>1, <2>3, <2>4, <2>5, TakeWriteKeeps
<1>3. CASE readers > 1
  <2>1. /\ readers' = readers - 1 /\ write_event' = register(write_event, t)
        /\ writer' = writer /\ read_event' = read_event
        /\ Leave(t, "wait_write", {})
      BY <1>3 DEF upgrade
  <2>2. ~write_event.state
      BY <1>1 DEF IInv, EventsMatch
  <2> QED
      BY <1>0, <1>3, <2>1, <2>2, WaitWriteKeeps
<1> QED
    BY <1>0, <1>1, <1>2, <1>3

LEMMA InitIInv == Init => IInv
<1> SUFFICES ASSUME Init
             PROVE  IInv
    OBVIOUS
<1>1. /\ read_event \in Events(Tasks) /\ Linked(read_event) = {} /\ Once(read_event)
      /\ read_event.state = TRUE /\ write_event = read_event
    BY EmptyList, Zenon DEF Init, with_state
<1>2. \A v : ~is_linked(write_event, v)
    BY <1>1 DEF is_linked, Linked
<1>3. /\ In("reading") = {} /\ In("writing") = {}
      /\ In("wait_read") = {} /\ In("wait_write") = {}
    BY DEF Init, In
<1>4. Cardinality(In("reading")) = 0
    BY <1>3, FS_EmptySet
<1>5. Types
    BY <1>1, Zenon DEF Init, Types, States
<1>6. Exclusion /\ EventsMatch
    BY <1>1, <1>3, <1>4, Zenon DEF Init, Exclusion, EventsMatch
<1>7. Lists /\ Offers
    BY <1>1, <1>2, <1>3
       DEF Lists, Offers, WaitersAreLinked, ReadersBehindWriter, WriterIsWoken
<1> QED
    BY <1>5, <1>6, <1>7 DEF IInv

-----------------------------------------------------------------------------
\* The polls of lock_write and lock_read, by how they end.
LEMMA WriteSteps ==
    ASSUME IsFiniteSet(Tasks), IInv, NEW t \in Tasks,
           lock_write(t) \/ PollWrite(t) \/ cancel_write(t) \/ abort_write(t)
    PROVE  IInv'
<1>0. write_event \in Events(Tasks) /\ Once(write_event) /\ Types
    BY DEF IInv, Types, Lists
<1>1. ASSUME NEW e \in Events(Tasks), take_write(t, e), readers = 0, ~writer, pc[t] # "writing",
             \A v : v # t /\ is_linked(write_event, v) => is_linked(e, v)
      PROVE  IInv'
  <2>1. /\ writer' /\ readers' = 0
        /\ write_event' = reset(e) /\ read_event' = reset(read_event)
        /\ Leave(t, "writing", NotifiedAll(e) \cup NotifiedAll(read_event))
      BY <1>1 DEF take_write
  <2>2. /\ write_event' \in Events(Tasks) /\ ~write_event'.state
        /\ Linked(write_event') = {} /\ Once(write_event')
      BY <1>1, <2>1, ClearFacts, Zenon
  <2>3. \A v : is_linked(e, v) => v \in NotifiedAll(e)
      BY <1>1, NotifiedAllFacts
  <2>4. In("reading") = {}
      BY <1>0, <1>1, Count DEF IInv, Exclusion
  <2> QED
      BY <1>1, <2>1, <2>2, <2>3, <2>4, TakeWriteKeeps
<1>2. ASSUME wait_write(t), pc[t] \in {"idle", "wait_write"}
      PROVE  IInv'
    BY <1>2, WaitWriteKeeps DEF wait_write
<1>3. CASE lock_write(t)
    BY <1>0, <1>1, <1>2, <1>3 DEF lock_write
<1>4. CASE PollWrite(t)
  <2>1. /\ returned(write_event, t) \in Events(Tasks)
        /\ Linked(write_event) \ {live(t)} \subseteq Linked(returned(write_event, t))
      BY <1>0, ReturnedFacts
  <2>2. \A v : v # t /\ is_linked(write_event, v) => is_linked(returned(write_event, t), v)
    <3>1. \A v : v # t => live(v) # live(t)
        BY DEF live
    <3> QED
        BY <2>1, <3>1 DEF is_linked, Linked
  <2> QED
      BY <1>1, <1>2, <1>4, <2>1, <2>2 DEF PollWrite
<1>5. CASE cancel_write(t)
  <2> DEFINE V == NotifiedByCancel(write_event, t, TRUE)
             W == V \cup (IF writer THEN {} ELSE NotifiedAll(read_event))
  <2>1. /\ pc[t] = "wait_write"
        /\ write_event' = unregister_canceled_wait(write_event, t, TRUE)
        /\ read_event' = wake_readers_on_cancel(read_event)
        /\ readers' = readers /\ writer' = writer
        /\ Leave(t, "idle", W)
      BY <1>5 DEF cancel_write
  <2>2. /\ write_event' \in Events(Tasks) /\ write_event'.state = write_event.state
        /\ Linked(write_event') \subseteq Linked(write_event) \ {live(t)}
        /\ Once(write_event')
        /\ \A v : is_linked(write_event, v) /\ v # t =>
              v \in V \/ (write_event.state # TRUE /\ is_linked(write_event', v))
      BY <1>0, <2>1, CancelFacts, Zenon
  <2>3. write_event.state # TRUE <=> ~write_event.state
      BY <1>0, Zenon DEF Events
  <2> HIDE DEF V
  <2> QED
      BY <2>1, <2>2, <2>3, LeaveWriteKeeps, Zenon
<1>6. CASE abort_write(t)
  <2> DEFINE V == NotifiedAll(write_event)
             W == V \cup (IF writer THEN {} ELSE NotifiedAll(read_event))
  <2>1. /\ pc[t] = "wait_write"
        /\ write_event' = wake_all(write_event)
        /\ read_event' = wake_readers_on_cancel(read_event)
        /\ readers' = readers /\ writer' = writer
        /\ Leave(t, "idle", W)
      BY <1>6 DEF abort_write
  <2>2. /\ write_event' \in Events(Tasks) /\ write_event'.state = write_event.state
        /\ Linked(write_event') = {} /\ Once(write_event')
      BY <1>0, <2>1, ClearFacts, Zenon
  <2>3. \A v : is_linked(write_event, v) => v \in V
      BY <1>0, NotifiedAllFacts
  <2> HIDE DEF V
  <2> QED
      BY <2>1, <2>2, <2>3, LeaveWriteKeeps
<1> QED
    BY <1>3, <1>4, <1>5, <1>6

LEMMA ReadSteps ==
    ASSUME IsFiniteSet(Tasks), IInv, NEW t \in Tasks,
           lock_read(t) \/ PollRead(t) \/ cancel_read(t) \/ abort_read(t)
    PROVE  IInv'
<1>0. read_event \in Events(Tasks) /\ Once(read_event)
    BY DEF IInv, Types, Lists
<1>1. CASE lock_read(t)
    BY <1>0, <1>1, TakeReadKeeps, WaitReadKeeps DEF lock_read
<1>2. CASE PollRead(t)
  <2>1. /\ returned(read_event, t) \in Events(Tasks) /\ Once(returned(read_event, t))
        /\ returned(read_event, t).state = read_event.state
        /\ Linked(read_event) \ {live(t)} \subseteq Linked(returned(read_event, t))
      BY <1>0, ReturnedFacts
  <2>2. \A v : v # t /\ is_linked(read_event, v) => is_linked(returned(read_event, t), v)
    <3>1. \A v : v # t => live(v) # live(t)
        BY DEF live
    <3> QED
        BY <2>1, <3>1 DEF is_linked, Linked
  <2> QED
      BY <1>2, <2>1, <2>2, TakeReadKeeps, WaitReadKeeps DEF PollRead
<1>3. CASE cancel_read(t)
  <2>1. /\ pc[t] = "wait_read"
        /\ read_event' = unregister_canceled_wait(read_event, t, TRUE)
        /\ readers' = readers /\ writer' = writer /\ write_event' = write_event
        /\ Leave(t, "idle", NotifiedByCancel(read_event, t, TRUE))
      BY <1>3, Zenon DEF cancel_read
  <2>2. /\ read_event' \in Events(Tasks) /\ read_event'.state = read_event.state
        /\ Once(read_event')
        /\ \A v : is_linked(read_event, v) /\ v # t =>
              v \in NotifiedByCancel(read_event, t, TRUE) \/ is_linked(read_event', v)
      BY <1>0, <2>1, CancelFacts, Zenon
  <2> QED
      BY <2>1, <2>2, LeaveReadKeeps, Zenon
<1>4. CASE abort_read(t)
  <2>1. /\ pc[t] = "wait_read" /\ read_event' = wake_all(read_event)
        /\ readers' = readers /\ writer' = writer /\ write_event' = write_event
        /\ Leave(t, "idle", NotifiedAll(read_event))
      BY <1>4 DEF abort_read
  <2>2. /\ read_event' \in Events(Tasks) /\ read_event'.state = read_event.state
        /\ Once(read_event')
      BY <1>0, <2>1, ClearFacts, Zenon
  <2>3. \A v : is_linked(read_event, v) => v \in NotifiedAll(read_event)
      BY <1>0, NotifiedAllFacts
  <2> QED
      BY <2>1, <2>2, <2>3, LeaveReadKeeps
<1> QED
    BY <1>1, <1>2, <1>3, <1>4

LEMMA Invariance ==
    ASSUME IsFiniteSet(Tasks)
    PROVE  Spec => []IInv
<1>1. IInv /\ [Next]_vars => IInv'
  <2> SUFFICES ASSUME IInv, [Next]_vars
               PROVE  IInv'
      OBVIOUS
  <2>1. CASE UNCHANGED vars
      BY <2>1 DEF vars, IInv, Types, Exclusion, EventsMatch, Lists, Offers, WaitersAreLinked,
                  ReadersBehindWriter, WriterIsWoken, In, Waiting
  <2> QED
      BY <2>1, WriteSteps, ReadSteps, DropWriteKeeps, DropReadKeeps, UpgradeKeeps DEF Next
<1> QED
    BY <1>1, InitIInv, PTL DEF Spec

\* The SAFETY comments of ReadRef and WriteRef: one WriteRef at a time and none
\* beside a ReadRef, the counters telling which guards exist.
THEOREM WriterExcludes ==
    ASSUME IsFiniteSet(Tasks)
    PROVE  Spec => []Exclusion
<1>1. IInv => Exclusion
    BY DEF IInv
<1> QED
    BY <1>1, Invariance, PTL

\* The read event and the write event say what writer and readers say: no lock
\* future spins on a set event or sleeps on a lock it could have.
THEOREM EventsFollowCounters ==
    ASSUME IsFiniteSet(Tasks)
    PROVE  Spec => []EventsMatch
<1>1. IInv => EventsMatch
    BY DEF IInv
<1> QED
    BY <1>1, Invariance, PTL

\* A writer that leaves wakes one writer and no reader.  The readers are not
\* stranded by that: a free lock has been offered to a task that waits, even if
\* the preferred writer is cancelled, aborted or overtaken.
THEOREM HandOverIsNotLost ==
    ASSUME IsFiniteSet(Tasks)
    PROVE  Spec => []FreeLockIsOffered
<1>1. IInv => FreeLockIsOffered
    BY DEF IInv, Offers, ReadersBehindWriter, WriterIsWoken, FreeLockIsOffered, Waiting
<1> QED
    BY <1>1, Invariance, PTL
=============================================================================
