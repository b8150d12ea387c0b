------------------------- MODULE HandleTableProofs -------------------------
(***************************************************************************)
(* The task table is right for every number of tasks: its free list is     *)
(* exact whatever the order of insertions and removals, and while indexes  *)
(* fit into Task::task_index the table, the tasks and completed_tasks      *)
(* agree, so that the teardown of block_on reaches every task.             *)
(***************************************************************************)
EXTENDS HandleTable, ListLemmas

Slot == [value : Tasks \cup {None}, next_free : Nat]

TableType ==
    /\ data \in Seq(Slot)
    /\ free_list \in Nat
    /\ free \in Seq(Nat)

TasksType ==
    /\ task_index \in [Tasks -> Nat]
    /\ future \in [Tasks -> {"none", "pending", "result", "shutdown"}]
    /\ completed \subseteq Tasks
    /\ fits \in BOOLEAN
    /\ phase \in {"running", "down", "panicked"}

\* Stronger than TableIsTasks: a used slot knows its task and the task knows its
\* slot.
Agreement ==
    fits /\ phase = "running" =>
       /\ \A i \in indexes :
             future[data[i].value] = "pending" /\ task_index[data[i].value] = i
       /\ \A t \in Tasks : future[t] = "pending" =>
             task_index[t] \in indexes /\ data[task_index[t]].value = t
       /\ \A t \in completed : future[t] = "result"

IInv == TableType /\ TasksType /\ FreeListExact /\ Agreement /\ TeardownReachesAll

-----------------------------------------------------------------------------
\* What the free list says of its elements.
LEMMA FreeSlots ==
    ASSUME TableType, FreeListExact
    PROVE  /\ DOMAIN data = 1..Len(data) /\ Len(data) \in Nat
           /\ DOMAIN free = 1..Len(free) /\ Len(free) \in Nat
           /\ \A k \in DOMAIN free : free[k] \in DOMAIN data \ indexes
           /\ free_list # 0 <=> free # <<>>
           /\ free_list # 0 => free_list \in DOMAIN data \ indexes /\ free_list = Head(free)
<1>1. /\ DOMAIN data = 1..Len(data) /\ Len(data) \in Nat
      /\ DOMAIN free = 1..Len(free) /\ Len(free) \in Nat
    BY DEF TableType
<1>2. \A k \in DOMAIN free : free[k] \in DOMAIN data \ indexes
    BY DEF FreeListExact, Range
<1>3. ASSUME free # <<>>
      PROVE  1 \in DOMAIN free /\ free_list = free[1] /\ Head(free) = free[1]
    BY <1>1, <1>3 DEF FreeListExact, TableType
<1>4. ASSUME free = <<>>
      PROVE  free_list = 0
    BY <1>4 DEF FreeListExact
<1> QED
    BY <1>1, <1>2, <1>3, <1>4

\* insert_fn uses the slot that NextIndex names, free until then, and no other.
LEMMA InsertFacts ==
    ASSUME TableType, FreeListExact, None \notin Tasks, NEW t \in Tasks, insert_fn(t)
    PROVE  /\ TableType' /\ FreeListExact'
           /\ NextIndex \in Nat \ {0} /\ NextIndex \notin indexes
           /\ indexes' = indexes \cup {NextIndex}
           /\ data'[NextIndex].value = t
           /\ \A i \in indexes : data'[i] = data[i]
<1>0. Used(t) \in Slot /\ IsUsed(Used(t)) /\ Used(t).value = t
    BY DEF Used, IsUsed, Slot
<1>1. CASE free_list # 0
  <2>1. /\ data' = [data EXCEPT ![free_list] = Used(t)]
        /\ free_list' = data[free_list].next_free
        /\ free' = Tail(free)
        /\ NextIndex = free_list
      BY <1>1 DEF insert_fn, NextIndex
  <2>2. /\ free # <<>> /\ free_list \in DOMAIN data \ indexes /\ free_list = Head(free)
        /\ DOMAIN data = 1..Len(data) /\ Len(data) \in Nat
        /\ DOMAIN free = 1..Len(free) /\ Len(free) \in Nat
      BY <1>1, FreeSlots
  <2>3. /\ data' \in Seq(Slot) /\ DOMAIN data' = DOMAIN data
        /\ data'[free_list] = Used(t)
        /\ \A i \in DOMAIN data : i # free_list => data'[i] = data[i]
      BY <1>0, <2>1, <2>2 DEF TableType
  <2>4. /\ free' \in Seq(Nat) /\ IsInjective(free')
        /\ Range(free') = Range(free) \ {free_list}
      BY <2>1, <2>2, TailFacts DEF TableType, FreeListExact
  <2>5. indexes' = indexes \cup {free_list}
      BY <1>0, <2>2, <2>3 DEF indexes
  <2>6. TableType'
    <3>1. data[free_list] \in Slot
        BY <2>2 DEF TableType
    <3>2. data[free_list].next_free \in Nat
        BY <3>1 DEF Slot
    <3> QED
        BY <2>1, <2>3, <2>4, <3>2 DEF TableType
  <2>7. /\ Len(free) # 0
        /\ DOMAIN free' = 1..(Len(free) - 1) /\ Len(free') = Len(free) - 1
        /\ \A k \in DOMAIN free' : free'[k] = free[k + 1] /\ k + 1 \in DOMAIN free /\ k + 1 # 1
        /\ 1 \in DOMAIN free /\ free[1] = free_list
      BY <2>1, <2>2 DEF TableType
  <2>8. free_list' = (IF free' = <<>> THEN 0 ELSE free'[1])
    <3>1. data[free_list].next_free = (IF 1 < Len(free) THEN free[2] ELSE 0)
        BY <2>7 DEF FreeListExact
    <3>2. CASE Len(free) = 1
        BY <2>1, <2>4, <2>7, <3>1, <3>2
    <3>3. CASE Len(free) # 1
      <4>1. 1 < Len(free) /\ 1 \in DOMAIN free' /\ 1 + 1 = 2
          BY <2>2, <2>7, <3>3
      <4>2. free'[1] = free[2] /\ free' # <<>>
          BY <2>7, <4>1
      <4> QED
          BY <2>1, <3>1, <4>1, <4>2
    <3> QED
        BY <3>2, <3>3
  <2>9. ASSUME NEW k \in DOMAIN free'
        PROVE  data'[free'[k]].next_free = (IF k < Len(free') THEN free'[k + 1] ELSE 0)
    <3>1. free[k + 1] \in DOMAIN data /\ free[k + 1] # free_list
      <4>1. free[k + 1] # free[1]
          BY <2>7 DEF FreeListExact, IsInjective
      <4> QED
          BY <2>7, <4>1, FreeSlots
    <3>2. data'[free'[k]] = data[free[k + 1]]
        BY <2>3, <2>7, <3>1
    <3>3. data[free[k + 1]].next_free
             = (IF k + 1 < Len(free) THEN free[(k + 1) + 1] ELSE 0)
        BY <2>7 DEF FreeListExact
    <3>4. k \in Nat /\ (k + 1 < Len(free) <=> k < Len(free'))
        BY <2>2, <2>7
    <3>5. k < Len(free') => free'[k + 1] = free[(k + 1) + 1]
        BY <2>2, <2>7, <3>4
    <3> QED
        BY <3>2, <3>3, <3>4, <3>5
  <2>10. Range(free') = DOMAIN data' \ indexes'
      BY <2>3, <2>4, <2>5 DEF FreeListExact
  <2>11. FreeListExact'
      BY <2>4, <2>8, <2>9, <2>10 DEF FreeListExact
  <2> QED
      BY <1>0, <2>1, <2>2, <2>3, <2>5, <2>6, <2>11 DEF indexes
<1>2. CASE free_list = 0
  <2>1. /\ data' = Append(data, Used(t))
        /\ free_list' = free_list /\ free' = free
        /\ NextIndex = Len(data) + 1
      BY <1>2 DEF insert_fn, NextIndex
  <2>2. /\ free = <<>> /\ Len(data) \in Nat /\ DOMAIN data = 1..Len(data)
      BY <1>2, FreeSlots
  <2>3. /\ data' \in Seq(Slot)
        /\ DOMAIN data' = 1..(Len(data) + 1)
        /\ data'[Len(data) + 1] = Used(t)
        /\ \A i \in DOMAIN data : data'[i] = data[i]
      BY <1>0, <2>1, <2>2 DEF TableType
  <2>4. indexes' = indexes \cup {Len(data) + 1}
      BY <1>0, <2>2, <2>3 DEF indexes
  <2>5. Len(data) + 1 \notin indexes
      BY <2>2 DEF indexes
  <2>6. TableType'
      BY <2>1, <2>3 DEF TableType
  <2>7. DOMAIN data \ indexes = {} /\ DOMAIN data' \ indexes' = {}
    <3>1. DOMAIN data \ indexes = {}
        BY <2>2, EmptyFacts DEF FreeListExact
    <3> QED
        BY <2>2, <2>3, <2>4, <3>1
  <2>8. FreeListExact'
      BY <2>1, <2>2, <2>7, EmptyFacts DEF FreeListExact
  <2> QED
      BY <1>0, <2>1, <2>2, <2>3, <2>4, <2>5, <2>6, <2>8 DEF indexes
<1> QED
    BY <1>1, <1>2

\* remove frees the slot it is given if that is used, and changes no other.
LEMMA RemoveFacts ==
    ASSUME TableType, FreeListExact, NEW i \in Nat, remove(i)
    PROVE  /\ TableType' /\ FreeListExact'
           /\ indexes' = indexes \ {i}
           /\ \A j \in indexes \ {i} : data'[j] = data[j]
<1>0. /\ DOMAIN data = 1..Len(data) /\ Len(data) \in Nat
      /\ get(i) # None <=> i \in indexes
    BY FreeSlots DEF get, indexes, IsUsed
<1>1. CASE get(i) = None
  <2>1. data' = data /\ free_list' = free_list /\ free' = free
      BY <1>1 DEF remove
  <2> QED
      BY <1>0, <1>1, <2>1 DEF TableType, FreeListExact, indexes, IsUsed
<1>2. CASE get(i) # None
  <2>1. /\ data' = [data EXCEPT ![i] = Free(free_list)]
        /\ free_list' = i
        /\ free' = <<i>> \o free
        /\ i \in indexes /\ i \in DOMAIN data
      BY <1>0, <1>2 DEF remove, indexes
  <2>2. /\ Free(free_list) \in Slot /\ ~IsUsed(Free(free_list))
        /\ Free(free_list).next_free = free_list
      BY DEF Free, IsUsed, Slot, TableType
  <2>3. /\ data' \in Seq(Slot) /\ DOMAIN data' = DOMAIN data
        /\ data'[i] = Free(free_list)
        /\ \A j \in DOMAIN data : j # i => data'[j] = data[j]
      BY <2>1, <2>2 DEF TableType
  <2>4. indexes' = indexes \ {i}
      BY <2>2, <2>3 DEF indexes
  <2>5. i \notin Range(free)
      BY <2>1 DEF FreeListExact
  <2>6. /\ free' \in Seq(Nat) /\ free' # <<>> /\ IsInjective(free')
        /\ Range(free') = Range(free) \cup {i}
        /\ Len(free') = Len(free) + 1 /\ free'[1] = i
        /\ \A k \in 1..Len(free) : free'[k + 1] = free[k]
      BY <2>1, <2>5, ConsFacts DEF TableType, FreeListExact
  <2>7. TableType'
      BY <2>1, <2>3, <2>6 DEF TableType
  <2>8. Range(free') = DOMAIN data' \ indexes'
      BY <2>1, <2>3, <2>4, <2>6 DEF FreeListExact
  <2>9. DOMAIN free = 1..Len(free) /\ Len(free) \in Nat /\ DOMAIN free' = 1..(Len(free) + 1)
      BY <2>6 DEF TableType
  <2>10. ASSUME NEW k \in DOMAIN free'
         PROVE  data'[free'[k]].next_free = (IF k < Len(free') THEN free'[k + 1] ELSE 0)
    <3>1. CASE k = 1
      <4>1. data'[free'[k]].next_free = free_list
          BY <2>2, <2>3, <2>6, <3>1
      <4>2. CASE free = <<>>
          BY <2>6, <2>9, <3>1, <4>1, <4>2 DEF FreeListExact
      <4>3. CASE free # <<>>
        <5>1. Len(free) > 0
            BY <4>3 DEF TableType
        <5> QED
            BY <2>6, <2>9, <3>1, <4>1, <4>3, <5>1 DEF FreeListExact
      <4> QED
          BY <4>2, <4>3
    <3>2. CASE k # 1
      <4>1. /\ k - 1 \in DOMAIN free /\ free'[k] = free[k - 1]
            /\ k < Len(free') <=> k - 1 < Len(free)
        <5>1. k - 1 \in 1..Len(free) /\ k = (k - 1) + 1
            BY <2>9, <3>2
        <5> QED
            BY <2>6, <2>9, <5>1
      <4>2. free[k - 1] \in DOMAIN data /\ free[k - 1] # i
          BY <2>1, <4>1, FreeSlots
      <4>3. data'[free'[k]] = data[free[k - 1]]
          BY <2>3, <4>1, <4>2
      <4>4. data[free[k - 1]].next_free = (IF k - 1 < Len(free) THEN free[(k - 1) + 1] ELSE 0)
          BY <4>1 DEF FreeListExact
      <4>5. k - 1 < Len(free) => free'[k + 1] = free[(k - 1) + 1]
          BY <2>6, <2>9, <3>2
      <4> QED
          BY <4>1, <4>3, <4>4, <4>5
    <3> QED
        BY <3>1, <3>2
  <2>11. FreeListExact'
      BY <2>1, <2>6, <2>8, <2>10, Zenon DEF FreeListExact
  <2> QED
      BY <2>3, <2>4, <2>7, <2>11 DEF indexes
<1> QED
    BY <1>1, <1>2
-----------------------------------------------------------------------------
\* An index that fits is kept as it is by the conversion to 16 bits.
LEMMA IndexKept ==
    ASSUME NEW P \in Nat \ {0}, NEW i \in Nat, i < P
    PROVE  i % P = i
    OBVIOUS

\* TableIsTasks is what Agreement says in the words of get and iter.
LEMMA AgreementFacts ==
    ASSUME TableType, TasksType, None \notin Tasks, Agreement
    PROVE  TableIsTasks
<1> SUFFICES ASSUME fits, phase = "running"
             PROVE  /\ \A t \in Tasks : future[t] = "pending" => get(task_index[t]) = t
                    /\ iter = {t \in Tasks : future[t] = "pending"}
                    /\ \A t \in completed : future[t] = "result"
    BY DEF TableIsTasks
<1>1. \A i \in indexes : i \in DOMAIN data /\ data[i].value \in Tasks
  <2> SUFFICES ASSUME NEW i \in DOMAIN data, data[i].value # None
               PROVE  data[i].value \in Tasks
      BY DEF indexes, IsUsed
  <2>1. data[i] \in Slot
      BY DEF TableType
  <2> QED
      BY <2>1 DEF Slot
<1>2. \A t \in Tasks : future[t] = "pending" => get(task_index[t]) = t
    BY <1>1 DEF Agreement, get
<1>3. iter = {t \in Tasks : future[t] = "pending"}
    BY <1>1 DEF Agreement, iter
<1>4. \A t \in completed : future[t] = "result"
    BY DEF Agreement
<1> QED
    BY <1>2, <1>3, <1>4

LEMMA InitIInv == Init => IInv
<1> SUFFICES ASSUME Init
             PROVE  IInv
    OBVIOUS
<1>1. TableType /\ TasksType
    BY DEF Init, TableType, TasksType
<1>2. DOMAIN data = {} /\ indexes = {}
    BY DEF Init, indexes
<1>3. FreeListExact
    BY <1>2, EmptyFacts DEF Init, FreeListExact
<1>4. Agreement /\ TeardownReachesAll
    BY <1>2 DEF Init, Agreement, TeardownReachesAll, EveryFutureReplaced
<1> QED
    BY <1>1, <1>3, <1>4 DEF IInv

\* The steps of the table keep the invariant, one lemma for each.
LEMMA ScheduleNew ==
    ASSUME None \notin Tasks, 2 ^ IndexBits \in Nat \ {0}, IInv, NEW t \in Tasks, schedule_new(t)
    PROVE  IInv'
<1> USE DEF IInv
<1>1. insert_fn(t) /\ phase = "running" /\ future[t] = "none"
    BY DEF schedule_new
<1>2. /\ TableType' /\ FreeListExact'
      /\ NextIndex \in Nat \ {0} /\ NextIndex \notin indexes
      /\ indexes' = indexes \cup {NextIndex}
      /\ data'[NextIndex].value = t
      /\ \A i \in indexes : data'[i] = data[i]
    BY <1>1, InsertFacts
<1>3. /\ task_index' = [task_index EXCEPT ![t] = as_u16(NextIndex)]
      /\ future' = [future EXCEPT ![t] = "pending"]
      /\ fits' = (fits /\ NextIndex < 2 ^ IndexBits)
      /\ completed' = completed /\ phase' = phase
    BY DEF schedule_new
<1>4. as_u16(NextIndex) \in Nat
  <2> DEFINE P == 2 ^ IndexBits
  <2>1. P \in Nat \ {0} /\ NextIndex \in Nat
      BY <1>2
  <2> HIDE DEF P
  <2>2. NextIndex % P \in Nat
      BY <2>1
  <2> QED
      BY <2>2 DEF as_u16, P
<1>5. TasksType'
    BY <1>3, <1>4 DEF TasksType
<1>6. ASSUME fits'
      PROVE  fits /\ as_u16(NextIndex) = NextIndex
    BY <1>2, <1>3, <1>6, IndexKept, Zenon DEF as_u16
<1>7. Agreement'
  <2> SUFFICES ASSUME fits'
               PROVE  /\ \A i \in indexes' :
                            future'[data'[i].value] = "pending" /\ task_index'[data'[i].value] = i
                      /\ \A u \in Tasks : future'[u] = "pending" =>
                            task_index'[u] \in indexes' /\ data'[task_index'[u]].value = u
                      /\ \A u \in completed' : future'[u] = "result"
      BY DEF Agreement
  <2>1. /\ fits /\ task_index'[t] = NextIndex /\ future'[t] = "pending"
        /\ \A u \in Tasks : u # t => task_index'[u] = task_index[u] /\ future'[u] = future[u]
      BY <1>3, <1>6 DEF TasksType
  <2>2. ASSUME NEW i \in indexes'
        PROVE  future'[data'[i].value] = "pending" /\ task_index'[data'[i].value] = i
    <3>1. CASE i = NextIndex
        BY <1>2, <2>1, <3>1
    <3>2. CASE i \in indexes
      <4>1. /\ data'[i] = data[i]
            /\ future[data[i].value] = "pending" /\ task_index[data[i].value] = i
          BY <1>1, <1>2, <2>1, <3>2 DEF Agreement
      <4>2. data[i] \in Slot /\ data[i].value # None
          BY <3>2 DEF indexes, IsUsed, TableType
      <4>3. data[i].value \in Tasks
          BY <4>2 DEF Slot
      <4>4. data[i].value # t
          BY <1>1, <4>1
      <4> QED
          BY <2>1, <4>1, <4>3, <4>4
    <3> QED
        BY <1>2, <3>1, <3>2
  <2>3. ASSUME NEW u \in Tasks, future'[u] = "pending"
        PROVE  task_index'[u] \in indexes' /\ data'[task_index'[u]].value = u
    <3>1. CASE u = t
        BY <1>2, <2>1, <3>1
    <3>2. CASE u # t
        BY <1>1, <1>2, <2>1, <2>3, <3>2 DEF Agreement
    <3> QED
        BY <3>1, <3>2
  <2>4. ASSUME NEW u \in completed'
        PROVE  future'[u] = "result"
      BY <1>1, <1>3, <2>1 DEF Agreement, TasksType
  <2> QED
      BY <2>2, <2>3, <2>4
<1>8. TeardownReachesAll'
    BY <1>1, <1>3 DEF TeardownReachesAll, EveryFutureReplaced
<1> QED
    BY <1>2, <1>5, <1>7, <1>8

LEMMA CompleteTask ==
    ASSUME None \notin Tasks, IInv, NEW t \in Tasks, complete_task(t)
    PROVE  IInv'
<1> USE DEF IInv
<1>1. /\ phase = "running" /\ future[t] = "pending"
      /\ future' = [future EXCEPT ![t] = "result"]
      /\ task_index' = task_index /\ fits' = fits
      /\ task_index[t] \in Nat
    BY DEF complete_task, TasksType
<1>2. CASE task_index[t] = 0
  <2>1. /\ phase' = "panicked"
        /\ data' = data /\ free_list' = free_list /\ free' = free /\ completed' = completed
      BY <1>2 DEF complete_task
  <2>2. ~fits
    <3>1. 0 \notin indexes
        BY DEF indexes, TableType
    <3> QED
        BY <1>1, <1>2, <3>1 DEF Agreement
  <2>3. TableType' /\ FreeListExact'
      BY <2>1 DEF TableType, FreeListExact, indexes
  <2>4. TasksType'
      BY <1>1, <2>1 DEF TasksType
  <2>5. Agreement' /\ TeardownReachesAll'
      BY <1>1, <2>2 DEF Agreement, TeardownReachesAll
  <2> QED
      BY <2>3, <2>4, <2>5
<1>3. CASE task_index[t] # 0
  <2>1. /\ remove(task_index[t]) /\ phase' = phase
        /\ completed' = IF get(task_index[t]) = None THEN completed
                        ELSE completed \cup {get(task_index[t])}
      BY <1>3 DEF complete_task
  <2>2. /\ TableType' /\ FreeListExact'
        /\ indexes' = indexes \ {task_index[t]}
        /\ \A j \in indexes \ {task_index[t]} : data'[j] = data[j]
      BY <1>1, <2>1, RemoveFacts
  <2>3. get(task_index[t]) \in Tasks \cup {None}
    <3>1. ASSUME task_index[t] \in DOMAIN data
          PROVE  data[task_index[t]] \in Slot
        BY <3>1 DEF TableType
    <3> QED
        BY <3>1 DEF get, Slot
  <2>4. TasksType'
      BY <1>1, <2>1, <2>3 DEF TasksType
  <2>5. /\ future'[t] = "result"
        /\ \A u \in Tasks : u # t => future'[u] = future[u]
      BY <1>1 DEF TasksType
  <2>6. Agreement'
    <3> SUFFICES ASSUME fits
                 PROVE  /\ \A i \in indexes' :
                              future'[data'[i].value] = "pending" /\ task_index[data'[i].value] = i
                        /\ \A u \in Tasks : future'[u] = "pending" =>
                              task_index[u] \in indexes' /\ data'[task_index[u]].value = u
                        /\ \A u \in completed' : future'[u] = "result"
        BY <1>1 DEF Agreement
    <3>1. /\ task_index[t] \in indexes /\ data[task_index[t]].value = t
          /\ get(task_index[t]) = t
        BY <1>1 DEF Agreement, get, indexes
    <3>2. ASSUME NEW i \in indexes'
          PROVE  future'[data'[i].value] = "pending" /\ task_index[data'[i].value] = i
      <4>1. i \in indexes /\ i # task_index[t] /\ data'[i] = data[i]
          BY <2>2
      <4>2. future[data[i].value] = "pending" /\ task_index[data[i].value] = i
          BY <1>1, <4>1 DEF Agreement
      <4>3. data[i] \in Slot /\ data[i].value # None
          BY <4>1 DEF indexes, IsUsed, TableType
      <4>4. data[i].value \in Tasks /\ data[i].value # t
          BY <4>1, <4>2, <4>3 DEF Slot
      <4> QED
          BY <2>5, <4>1, <4>2, <4>4
    <3>3. ASSUME NEW u \in Tasks, future'[u] = "pending"
          PROVE  task_index[u] \in indexes' /\ data'[task_index[u]].value = u
      <4>1. u # t /\ future[u] = "pending"
          BY <2>5, <3>3
      <4>2. task_index[u] \in indexes /\ data[task_index[u]].value = u
          BY <1>1, <4>1 DEF Agreement
      <4>3. task_index[u] # task_index[t]
          BY <3>1, <4>1, <4>2
      <4> QED
          BY <2>2, <4>2, <4>3
    <3>4. ASSUME NEW u \in completed'
          PROVE  future'[u] = "result"
      <4>1. u = t \/ u \in completed
          BY <2>1, <3>1
      <4>2. u \in completed => future[u] = "result" /\ u \in Tasks
          BY <1>1 DEF Agreement, TasksType
      <4> QED
          BY <2>5, <4>1, <4>2
    <3> QED
        BY <3>2, <3>3, <3>4
  <2>7. TeardownReachesAll'
      BY <1>1, <2>1 DEF TeardownReachesAll, EveryFutureReplaced
  <2> QED
      BY <2>2, <2>4, <2>6, <2>7
<1> QED
    BY <1>2, <1>3

LEMMA DropCompletedKeeps ==
    ASSUME IInv, DropCompleted
    PROVE  IInv'
<1> USE DEF IInv
<1>1. /\ data' = data /\ free_list' = free_list /\ free' = free
      /\ task_index' = task_index /\ fits' = fits /\ phase' = phase
      /\ completed' = {}
      /\ future' = [u \in Tasks |->
            IF u \in completed /\ future[u] = "result" THEN "none" ELSE future[u]]
    BY DEF DropCompleted
<1>2. \A u \in Tasks : future'[u] = "pending" <=> future[u] = "pending"
    BY <1>1 DEF TasksType
<1>3. TableType' /\ FreeListExact' /\ indexes' = indexes
    BY <1>1 DEF TableType, FreeListExact, indexes
<1>4. TasksType'
    BY <1>1 DEF TasksType
<1>5. Agreement'
  <2>1. \A i \in indexes : fits /\ phase = "running" => data[i].value \in Tasks
    <3> SUFFICES ASSUME NEW i \in indexes, fits, phase = "running"
                 PROVE  data[i].value \in Tasks
        OBVIOUS
    <3>1. data[i] \in Slot /\ data[i].value # None
        BY DEF indexes, IsUsed, TableType
    <3> QED
        BY <3>1 DEF Slot
  <2> QED
      BY <1>1, <1>2, <1>3, <2>1 DEF Agreement
<1>6. TeardownReachesAll'
    BY <1>1, <1>2 DEF TeardownReachesAll, EveryFutureReplaced
<1> QED
    BY <1>3, <1>4, <1>5, <1>6

LEMMA TeardownKeeps ==
    ASSUME None \notin Tasks, IInv, Teardown
    PROVE  IInv'
<1> USE DEF IInv
<1>1. /\ data' = <<>> /\ free_list' = 0 /\ free' = <<>>
      /\ task_index' = task_index /\ fits' = fits
      /\ phase = "running" /\ phase' = "down" /\ completed' = {}
      /\ future' = [u \in Tasks |-> IF u \in iter THEN "shutdown" ELSE future[u]]
    BY DEF Teardown, clear
<1>2. TableType' /\ TasksType'
    BY <1>1 DEF TableType, TasksType
<1>3. DOMAIN data' = {} /\ indexes' = {}
    BY <1>1 DEF indexes
<1>4. FreeListExact'
    BY <1>1, <1>3, EmptyFacts DEF FreeListExact
<1>5. ASSUME fits, NEW u \in Tasks
      PROVE  future'[u] # "pending"
  <2>1. TableIsTasks
      BY AgreementFacts
  <2> QED
      BY <1>1, <1>5, <2>1 DEF TableIsTasks, TasksType
<1>6. Agreement' /\ TeardownReachesAll'
    BY <1>1, <1>5 DEF Agreement, TeardownReachesAll, EveryFutureReplaced
<1> QED
    BY <1>2, <1>4, <1>6

-----------------------------------------------------------------------------
LEMMA Invariance ==
    ASSUME None \notin Tasks, 2 ^ IndexBits \in Nat \ {0}
    PROVE  Spec => []IInv
<1>1. IInv /\ [Next]_vars => IInv'
  <2> SUFFICES ASSUME IInv, [Next]_vars
               PROVE  IInv'
      OBVIOUS
  <2>1. ASSUME NEW t \in Tasks, schedule_new(t)
        PROVE  IInv'
      BY <2>1, ScheduleNew
  <2>2. ASSUME NEW t \in Tasks, complete_task(t)
        PROVE  IInv'
      BY <2>2, CompleteTask
  <2>3. CASE DropCompleted
      BY <2>3, DropCompletedKeeps
  <2>4. CASE Teardown
      BY <2>4, TeardownKeeps
  <2>5. CASE UNCHANGED vars
      BY <2>5 DEF vars, IInv, TableType, TasksType, FreeListExact, Agreement, indexes,
                  TeardownReachesAll, EveryFutureReplaced
  <2> QED
      BY <2>1, <2>2, <2>3, <2>4, <2>5 DEF Next
<1> QED
    BY <1>1, InitIInv, PTL DEF Spec

\* insert_fn and remove keep the free list exact, however insertions and removals
\* are interleaved and however large the table is.
THEOREM FreeListAlwaysExact ==
    ASSUME None \notin Tasks, 2 ^ IndexBits \in Nat \ {0}
    PROVE  Spec => []FreeListExact
<1>1. IInv => FreeListExact
    BY DEF IInv
<1> QED
    BY <1>1, Invariance, PTL

\* While indexes fit into Task::task_index, schedule_new and complete_task keep
\* the table in step with the tasks: a completion never removes another task.
THEOREM TableAlwaysTasks ==
    ASSUME None \notin Tasks, 2 ^ IndexBits \in Nat \ {0}
    PROVE  Spec => []TableIsTasks
<1>1. IInv => TableIsTasks
    BY AgreementFacts DEF IInv
<1> QED
    BY <1>1, Invariance, PTL

\* And then the teardown of block_on replaces the future of every unfinished
\* task while the rings exist, and complete_task never meets the index 0.
THEOREM TeardownAlwaysReaches ==
    ASSUME None \notin Tasks, 2 ^ IndexBits \in Nat \ {0}
    PROVE  Spec => []TeardownReachesAll
<1>1. IInv => TeardownReachesAll
    BY DEF IInv
<1> QED
    BY <1>1, Invariance, PTL
=============================================================================
