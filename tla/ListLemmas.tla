----------------------------- MODULE ListLemmas -----------------------------
(***************************************************************************)
(* The lists of the runtime: queues whose entries are all different, and   *)
(* what the calls on an AsyncEvent do to its flag and to the entries of    *)
(* its wait list.                                                          *)
(***************************************************************************)
EXTENDS WaitList, TLAPS

\* push_back adds its argument to the elements and keeps them distinct.
LEMMA AppendFacts ==
    ASSUME NEW S, NEW s \in Seq(S), NEW t \in S
    PROVE  /\ Append(s, t) \in Seq(S)
           /\ Append(s, t) # <<>>
           /\ Range(Append(s, t)) = Range(s) \cup {t}
           /\ IsInjective(s) /\ t \notin Range(s) => IsInjective(Append(s, t))
<1> DEFINE a == Append(s, t)
<1>1. /\ a \in Seq(S)
      /\ a # <<>>
      /\ DOMAIN s = 1..Len(s)
      /\ DOMAIN a = 1..(Len(s) + 1)
      /\ Len(s) \in Nat
      /\ \A i \in 1..Len(s) : a[i] = s[i]
      /\ a[Len(s) + 1] = t
    OBVIOUS
<1>2. Range(a) = Range(s) \cup {t}
  <2>1. ASSUME NEW x \in Range(a)
        PROVE  x \in Range(s) \cup {t}
    <3>1. PICK i \in DOMAIN a : x = a[i]
        BY DEF Range
    <3>2. CASE i = Len(s) + 1
        BY <1>1, <3>1, <3>2
    <3>3. CASE i \in 1..Len(s)
        BY <1>1, <3>1, <3>3 DEF Range
    <3> QED
        BY <1>1, <3>1, <3>2, <3>3
  <2>2. ASSUME NEW x \in Range(s)
        PROVE  x \in Range(a)
    <3>1. PICK i \in DOMAIN s : x = s[i]
        BY DEF Range
    <3>2. i \in DOMAIN a /\ a[i] = x
        BY <1>1, <3>1
    <3> QED
        BY <3>2 DEF Range
  <2>3. t \in Range(a)
    <3>1. Len(s) + 1 \in DOMAIN a
        BY <1>1
    <3> QED
        BY <1>1, <3>1 DEF Range
  <2> QED
      BY <2>1, <2>2, <2>3
<1>3. ASSUME IsInjective(s), t \notin Range(s)
      PROVE  IsInjective(a)
  <2>1. \A i \in 1..Len(s) : s[i] # t
      BY <1>1, <1>3 DEF Range
  <2> HIDE DEF a
  <2> SUFFICES ASSUME NEW i \in DOMAIN a, NEW j \in DOMAIN a, a[i] = a[j]
               PROVE  i = j
      BY DEF IsInjective
  <2>2. CASE i \in 1..Len(s) /\ j \in 1..Len(s)
      BY <1>1, <1>3, <2>2 DEF IsInjective
  <2>3. CASE i = Len(s) + 1 \/ j = Len(s) + 1
      BY <1>1, <2>1, <2>3
  <2> QED
      BY <1>1, <2>2, <2>3
<1> QED
    BY <1>1, <1>2, <1>3

\* pop_front removes the first of a list of distinct elements.
LEMMA TailFacts ==
    ASSUME NEW S, NEW s \in Seq(S), s # <<>>
    PROVE  /\ Head(s) \in S
           /\ Head(s) \in Range(s)
           /\ Tail(s) \in Seq(S)
           /\ IsInjective(s) =>
                 IsInjective(Tail(s)) /\ Range(Tail(s)) = Range(s) \ {Head(s)}
<1> DEFINE r == Tail(s)
<1>1. /\ r \in Seq(S)
      /\ Len(s) \in Nat \ {0}
      /\ DOMAIN s = 1..Len(s)
      /\ DOMAIN r = 1..(Len(s) - 1)
      /\ \A i \in 1..(Len(s) - 1) : r[i] = s[i + 1]
      /\ Head(s) = s[1]
      /\ Head(s) \in S
    OBVIOUS
<1>2. Head(s) \in Range(s)
  <2>1. 1 \in DOMAIN s
      BY <1>1
  <2> QED
      BY <1>1, <2>1 DEF Range
<1> HIDE DEF r
<1>3. ASSUME IsInjective(s)
      PROVE  IsInjective(r)
  <2> SUFFICES ASSUME NEW i \in DOMAIN r, NEW j \in DOMAIN r, r[i] = r[j]
               PROVE  i = j
      BY DEF IsInjective
  <2>1. i + 1 \in DOMAIN s /\ j + 1 \in DOMAIN s /\ s[i + 1] = s[j + 1]
      BY <1>1
  <2>2. i + 1 = j + 1
      BY <1>3, <2>1 DEF IsInjective
  <2> QED
      BY <1>1, <2>2
<1>4. ASSUME IsInjective(s)
      PROVE  Range(r) = Range(s) \ {Head(s)}
  <2>1. ASSUME NEW x \in Range(r)
        PROVE  x \in Range(s) \ {Head(s)}
    <3>1. PICK i \in DOMAIN r : x = r[i]
        BY DEF Range
    <3>2. i + 1 \in DOMAIN s /\ s[i + 1] = x /\ i + 1 # 1 /\ 1 \in DOMAIN s
        BY <1>1, <3>1
    <3>3. x # Head(s)
        BY <1>1, <1>4, <3>2 DEF IsInjective
    <3> QED
        BY <3>2, <3>3 DEF Range
  <2>2. ASSUME NEW x \in Range(s), x # Head(s)
        PROVE  x \in Range(r)
    <3>1. PICK i \in DOMAIN s : x = s[i]
        BY DEF Range
    <3>2. i # 1
        BY <1>1, <2>2, <3>1
    <3>3. i - 1 \in DOMAIN r /\ r[i - 1] = s[i]
        BY <1>1, <3>2
    <3> QED
        BY <3>1, <3>3 DEF Range
  <2> QED
      BY <2>1, <2>2
<1> QED
    BY <1>1, <1>2, <1>3, <1>4 DEF r

\* An empty list has no elements, and only an empty list has none.
LEMMA EmptyFacts ==
    ASSUME NEW S
    PROVE  <<>> \in Seq(S) /\ Range(<<>>) = {} /\ IsInjective(<<>>)
    BY DEF Range, IsInjective

LEMMA RangeFacts ==
    ASSUME NEW S, NEW s \in Seq(S)
    PROVE  Range(s) \subseteq S /\ (s # <<>> => Range(s) # {})
<1>1. DOMAIN s = 1..Len(s) /\ Len(s) \in Nat /\ \A i \in DOMAIN s : s[i] \in S
    OBVIOUS
<1>2. Range(s) \subseteq S
    BY <1>1 DEF Range
<1>3. ASSUME s # <<>>
      PROVE  Range(s) # {}
    BY <1>3, TailFacts
<1> QED
    BY <1>2, <1>3
\* push_front, on a list as on the free list of a HandleTable.
LEMMA ConsFacts ==
    ASSUME NEW S, NEW s \in Seq(S), NEW t \in S
    PROVE  /\ <<t>> \o s \in Seq(S)
           /\ <<t>> \o s # <<>>
           /\ Len(<<t>> \o s) = Len(s) + 1
           /\ (<<t>> \o s)[1] = t
           /\ \A i \in 1..Len(s) : (<<t>> \o s)[i + 1] = s[i]
           /\ Range(<<t>> \o s) = Range(s) \cup {t}
           /\ IsInjective(s) /\ t \notin Range(s) => IsInjective(<<t>> \o s)
<1> DEFINE c == <<t>> \o s
<1>1. /\ c \in Seq(S)
      /\ c # <<>>
      /\ Len(c) = Len(s) + 1
      /\ Len(s) \in Nat
      /\ DOMAIN s = 1..Len(s)
      /\ DOMAIN c = 1..(Len(s) + 1)
      /\ c[1] = t
      /\ \A i \in 1..Len(s) : c[i + 1] = s[i]
    OBVIOUS
<1> HIDE DEF c
<1>2. \A i \in DOMAIN c : i = 1 \/ (i - 1 \in DOMAIN s /\ c[i] = s[i - 1])
  <2> SUFFICES ASSUME NEW i \in DOMAIN c, i # 1
               PROVE  i - 1 \in DOMAIN s /\ c[i] = s[i - 1]
      OBVIOUS
  <2>1. i - 1 \in 1..Len(s) /\ i = (i - 1) + 1
      BY <1>1
  <2> QED
      BY <1>1, <2>1
<1>3. Range(c) = Range(s) \cup {t}
  <2>1. ASSUME NEW x \in Range(c)
        PROVE  x \in Range(s) \cup {t}
      BY <1>1, <1>2, <2>1 DEF Range
  <2>2. ASSUME NEW x \in Range(s)
        PROVE  x \in Range(c)
    <3>1. PICK i \in DOMAIN s : x = s[i]
        BY DEF Range
    <3>2. i + 1 \in DOMAIN c /\ c[i + 1] = x
        BY <1>1, <3>1
    <3> QED
        BY <3>2 DEF Range
  <2>3. t \in Range(c)
    <3>1. 1 \in DOMAIN c
        BY <1>1
    <3> QED
        BY <1>1, <3>1 DEF Range
  <2> QED
      BY <2>1, <2>2, <2>3
<1>4. ASSUME IsInjective(s), t \notin Range(s)
      PROVE  IsInjective(c)
  <2>1. \A i \in DOMAIN s : s[i] # t
      BY <1>4 DEF Range
  <2> SUFFICES ASSUME NEW i \in DOMAIN c, NEW j \in DOMAIN c, c[i] = c[j]
               PROVE  i = j
      BY DEF IsInjective
  <2>2. CASE i = 1 \/ j = 1
      BY <1>1, <1>2, <2>1, <2>2
  <2>3. CASE i # 1 /\ j # 1
    <3>1. i - 1 \in DOMAIN s /\ j - 1 \in DOMAIN s /\ s[i - 1] = s[j - 1]
        BY <1>2, <2>3
    <3>2. i - 1 = j - 1
        BY <1>4, <3>1 DEF IsInjective
    <3> QED
        BY <1>1, <3>2
  <2> QED
      BY <2>2, <2>3
<1> QED
    BY <1>1, <1>3, <1>4 DEF c
-----------------------------------------------------------------------------

Linked(e) == Range(e.waiting_tasks)

\* A WaitData that waits is in the list once.
Once(e) ==
    \A i, j \in DOMAIN e.waiting_tasks :
       e.waiting_tasks[i][2] /\ e.waiting_tasks[i] = e.waiting_tasks[j] => i = j

\* An event is its two fields, and its list a sequence of entries.
LEMMA EventFacts ==
    ASSUME NEW W, NEW e \in Events(W)
    PROVE  /\ e.state \in BOOLEAN
           /\ e.waiting_tasks \in Seq(W \X BOOLEAN)
           /\ DOMAIN e.waiting_tasks = 1..Len(e.waiting_tasks)
           /\ Len(e.waiting_tasks) \in Nat
           /\ \A i \in DOMAIN e.waiting_tasks :
                 /\ e.waiting_tasks[i] \in Linked(e)
                 /\ e.waiting_tasks[i] \in W \X BOOLEAN
           /\ Linked(e) \subseteq W \X BOOLEAN
           /\ \A x \in Linked(e) : \E i \in DOMAIN e.waiting_tasks : x = e.waiting_tasks[i]
<1>1. e.state \in BOOLEAN /\ e.waiting_tasks \in Seq(W \X BOOLEAN)
    BY DEF Events, Entries
<1>2. /\ DOMAIN e.waiting_tasks = 1..Len(e.waiting_tasks)
      /\ Len(e.waiting_tasks) \in Nat
      /\ \A i \in DOMAIN e.waiting_tasks : e.waiting_tasks[i] \in W \X BOOLEAN
    BY <1>1
<1>3. \A i \in DOMAIN e.waiting_tasks : e.waiting_tasks[i] \in Linked(e)
    BY DEF Linked, Range
<1>4. \A x \in Linked(e) : \E i \in DOMAIN e.waiting_tasks : x = e.waiting_tasks[i]
    BY DEF Linked, Range
<1>5. Linked(e) \subseteq W \X BOOLEAN
    BY <1>2, <1>4
<1> QED
    BY <1>1, <1>2, <1>3, <1>4, <1>5

\* An event with an empty list.
LEMMA EmptyList ==
    ASSUME NEW W, NEW b \in BOOLEAN
    PROVE  /\ [state |-> b, waiting_tasks |-> <<>>] \in Events(W)
           /\ Linked([state |-> b, waiting_tasks |-> <<>>]) = {}
           /\ Once([state |-> b, waiting_tasks |-> <<>>])
<1>1. [state |-> b, waiting_tasks |-> <<>>] \in Events(W)
    BY DEF Events
<1>2. Linked([state |-> b, waiting_tasks |-> <<>>]) = {}
    BY DEF Linked, Range
<1>3. Once([state |-> b, waiting_tasks |-> <<>>])
    BY DEF Once
<1> QED
    BY <1>1, <1>2, <1>3

\* wake_all, set and reset empty the list.
LEMMA ClearFacts ==
    ASSUME NEW W, NEW e \in Events(W)
    PROVE  /\ wake_all(e) \in Events(W) /\ wake_all(e).state = e.state
           /\ Linked(wake_all(e)) = {} /\ Once(wake_all(e))
           /\ set(e) \in Events(W) /\ set(e).state = TRUE
           /\ Linked(set(e)) = {} /\ Once(set(e))
           /\ reset(e) \in Events(W) /\ reset(e).state = FALSE
           /\ Linked(reset(e)) = {} /\ Once(reset(e))
<1>1. /\ wake_all(e) = [state |-> e.state, waiting_tasks |-> <<>>]
      /\ set(e) = [state |-> TRUE, waiting_tasks |-> <<>>]
      /\ reset(e) = [state |-> FALSE, waiting_tasks |-> <<>>]
    BY DEF wake_all, set, reset
<1>2. e.state \in BOOLEAN
    BY EventFacts, Zenon
<1>3. e.state = [state |-> e.state, waiting_tasks |-> <<>>].state
    OBVIOUS
<1>4. /\ [state |-> TRUE, waiting_tasks |-> <<>>].state = TRUE
      /\ [state |-> FALSE, waiting_tasks |-> <<>>].state = FALSE
    OBVIOUS
<1> QED
    BY <1>1, <1>2, <1>3, <1>4, EmptyList, Zenon

\* And then every waiter of the list has been notified.
LEMMA NotifiedAllFacts ==
    ASSUME NEW W, NEW e \in Events(W)
    PROVE  /\ NotifiedAll(e) \subseteq W
           /\ \A w : is_linked(e, w) => w \in NotifiedAll(e)
<1>1. NotifiedAll(e) \subseteq W
  <2>1. \A i \in DOMAIN e.waiting_tasks : e.waiting_tasks[i][1] \in W
    <3>1. \A i \in DOMAIN e.waiting_tasks : e.waiting_tasks[i] \in W \X BOOLEAN
        BY EventFacts, Zenon
    <3> QED
        BY <3>1
  <2> QED
      BY <2>1 DEF NotifiedAll, Notified
<1>2. ASSUME NEW w, is_linked(e, w)
      PROVE  w \in NotifiedAll(e)
  <2>1. PICK i \in DOMAIN e.waiting_tasks : live(w) = e.waiting_tasks[i]
      BY <1>2 DEF is_linked, Range
  <2>2. i <= Len(e.waiting_tasks) /\ e.waiting_tasks[i][1] = w
      BY <2>1, EventFacts DEF live
  <2> QED
      BY <2>1, <2>2 DEF NotifiedAll, Notified
<1> QED
    BY <1>1, <1>2

LEMMA RegisterFacts ==
    ASSUME NEW W, NEW e \in Events(W), NEW w \in W
    PROVE  /\ register(e, w) \in Events(W)
           /\ register(e, w).state = e.state
           /\ Linked(register(e, w)) = Linked(e) \cup {live(w)}
           /\ Once(e) => Once(register(e, w))
<1>1. CASE is_linked(e, w)
    BY <1>1 DEF register, is_linked, Linked
<1>2. CASE ~is_linked(e, w)
  <2> DEFINE s == e.waiting_tasks
             r == Append(s, live(w))
  <2>1. register(e, w) = [e EXCEPT !.waiting_tasks = r]
      BY <1>2 DEF register
  <2>2. s \in Seq(W \X BOOLEAN) /\ live(w) \in W \X BOOLEAN
      BY EventFacts, Zenon DEF live
  <2>3. /\ r \in Seq(W \X BOOLEAN)
        /\ DOMAIN s = 1..Len(s) /\ Len(s) \in Nat
        /\ DOMAIN r = 1..(Len(s) + 1)
        /\ \A i \in 1..Len(s) : r[i] = s[i]
        /\ r[Len(s) + 1] = live(w)
      BY <2>2
  <2>4. /\ register(e, w) \in Events(W) /\ register(e, w).state = e.state
        /\ register(e, w).waiting_tasks = r
      BY <2>1, <2>3, Zenon DEF Events, Entries
  <2>5. \A i \in DOMAIN s : s[i] # live(w)
      BY <1>2 DEF is_linked, Range
  <2> HIDE DEF r, s
  <2>6. Range(r) = Range(s) \cup {live(w)}
    <3>1. ASSUME NEW x \in Range(r)
          PROVE  x \in Range(s) \cup {live(w)}
        BY <2>3, <3>1 DEF Range
    <3>2. ASSUME NEW x \in Range(s)
          PROVE  x \in Range(r)
      <4>1. PICK i \in DOMAIN s : x = s[i]
          BY DEF Range
      <4>2. i \in DOMAIN r /\ r[i] = x
          BY <2>3, <4>1
      <4> QED
          BY <4>2 DEF Range
    <3>3. live(w) \in Range(r)
      <4>1. Len(s) + 1 \in DOMAIN r
          BY <2>3
      <4> QED
          BY <2>3, <4>1 DEF Range
    <3> QED
        BY <3>1, <3>2, <3>3
  <2>7. ASSUME Once(e)
        PROVE  Once(register(e, w))
    <3>1. \A i, j \in DOMAIN s : s[i][2] /\ s[i] = s[j] => i = j
        BY <2>7 DEF Once, s
    <3>2. \A i, j \in DOMAIN r : r[i][2] /\ r[i] = r[j] => i = j
        BY <2>3, <2>5, <3>1
    <3> QED
        BY <2>4, <3>2 DEF Once
  <2> QED
      BY <2>4, <2>6, <2>7 DEF Linked, s
<1> QED
    BY <1>1, <1>2

\* A sequence without its element at c.
LEMMA CutFacts ==
    ASSUME NEW S, NEW s \in Seq(S), NEW c \in 1..Len(s)
    PROVE  LET r == SubSeq(s, 1, c - 1) \o SubSeq(s, c + 1, Len(s))
           IN  /\ r \in Seq(S)
               /\ Len(r) = Len(s) - 1
               /\ DOMAIN r = 1..(Len(s) - 1)
               /\ \A i \in 1..(c - 1) : r[i] = s[i]
               /\ \A i \in c..(Len(s) - 1) : r[i] = s[i + 1]
<1> DEFINE a == SubSeq(s, 1, c - 1)
           b == SubSeq(s, c + 1, Len(s))
<1>1. a \in Seq(S) /\ Len(a) = c - 1 /\ \A i \in 1..(c - 1) : a[i] = s[i]
    OBVIOUS
<1>2. /\ b \in Seq(S) /\ Len(b) = Len(s) - c
      /\ \A i \in 1..(Len(s) - c) : b[i] = s[c + i]
    OBVIOUS
<1> HIDE DEF a, b
<1>3. a \o b \in Seq(S) /\ Len(a \o b) = Len(s) - 1
  <2>1. a \in Seq(S) /\ b \in Seq(S)
      BY <1>1, <1>2
  <2>2. a \o b \in Seq(S)
      BY <2>1
  <2>3. Len(a \o b) = Len(a) + Len(b)
      BY <2>1
  <2>4. Len(s) \in Nat
      OBVIOUS
  <2> QED
      BY <1>1, <1>2, <2>2, <2>3, <2>4
<1>4. DOMAIN (a \o b) = 1..(Len(s) - 1)
    BY <1>3
<1>5. \A i \in 1..(c - 1) : (a \o b)[i] = s[i]
    BY <1>1, <1>2
<1>6. ASSUME NEW i \in c..(Len(s) - 1)
      PROVE  (a \o b)[i] = s[i + 1]
  <2>1. i - (c - 1) \in 1..(Len(s) - c) /\ c + (i - (c - 1)) = i + 1 /\ i > Len(a)
      BY <1>1
  <2>2. (a \o b)[i] = b[i - Len(a)]
      BY <1>1, <1>2, <2>1
  <2>3. b[i - (c - 1)] = s[c + (i - (c - 1))]
      BY <1>2, <2>1
  <2> QED
      BY <1>1, <2>1, <2>2, <2>3
<1> QED
    BY <1>3, <1>4, <1>5, <1>6, Zenon DEF a, b

\* unregister removes the entry of the wait, which is in the list at most once.
LEMMA UnregisterFacts ==
    ASSUME NEW W, NEW e \in Events(W), NEW w \in W, Once(e)
    PROVE  /\ unregister(e, w) \in Events(W)
           /\ unregister(e, w).state = e.state
           /\ Linked(unregister(e, w)) = Linked(e) \ {live(w)}
           /\ Once(unregister(e, w))
<1>1. CASE ~is_linked(e, w)
    BY <1>1 DEF unregister, is_linked, Linked
<1>2. CASE is_linked(e, w)
  <2> DEFINE s == e.waiting_tasks
             c == CHOOSE i \in DOMAIN s : s[i] = live(w)
             r == SubSeq(s, 1, c - 1) \o SubSeq(s, c + 1, Len(s))
  <2>1. unregister(e, w) = [e EXCEPT !.waiting_tasks = r]
      BY <1>2 DEF unregister
  <2>2. c \in DOMAIN s /\ s[c] = live(w)
      BY <1>2 DEF is_linked, Range
  <2>3. s \in Seq(W \X BOOLEAN) /\ DOMAIN s = 1..Len(s) /\ Len(s) \in Nat
      BY EventFacts
  <2> HIDE DEF c, s
  <2>4. /\ r \in Seq(W \X BOOLEAN)
        /\ Len(r) = Len(s) - 1
        /\ DOMAIN r = 1..(Len(s) - 1)
        /\ \A i \in 1..(c - 1) : r[i] = s[i]
        /\ \A i \in c..(Len(s) - 1) : r[i] = s[i + 1]
    <3>1. c \in 1..Len(s)
        BY <2>2, <2>3
    <3> QED
        BY <2>3, <3>1, CutFacts, Zenon
  <2> HIDE DEF r
  <2>5. /\ unregister(e, w) \in Events(W) /\ unregister(e, w).state = e.state
        /\ unregister(e, w).waiting_tasks = r
      BY <2>1, <2>4 DEF Events, Entries
  <2>6. \A i \in DOMAIN s : s[i] = live(w) => i = c
    <3>1. live(w)[2]
        BY DEF live
    <3> QED
        BY <2>2, <3>1 DEF Once, s
  <2>7. \A i \in DOMAIN r : \E j \in DOMAIN s :
           j # c /\ r[i] = s[j] /\ i = (IF j < c THEN j ELSE j - 1)
    <3> SUFFICES ASSUME NEW i \in DOMAIN r
                 PROVE  \E j \in DOMAIN s :
                           j # c /\ r[i] = s[j] /\ i = (IF j < c THEN j ELSE j - 1)
        OBVIOUS
    <3>1. CASE i < c
      <4>1. i \in 1..(c - 1) /\ i \in DOMAIN s /\ i # c
          BY <2>2, <2>3, <2>4, <3>1
      <4>2. r[i] = s[i]
          BY <2>4, <4>1
      <4> QED
          BY <3>1, <4>1, <4>2
    <3>2. CASE i >= c
      <4>1. i + 1 \in DOMAIN s /\ i + 1 # c /\ ~(i + 1 < c) /\ r[i] = s[i + 1] /\ i = (i + 1) - 1
          BY <2>2, <2>3, <2>4, <3>2
      <4> QED
          BY <4>1
    <3> QED
        BY <2>2, <2>3, <2>4, <3>1, <3>2
  <2>8. Range(r) = Range(s) \ {live(w)}
    <3>1. ASSUME NEW x \in Range(r)
          PROVE  x \in Range(s) /\ x # live(w)
        BY <2>6, <2>7, <3>1 DEF Range
    <3>2. ASSUME NEW x \in Range(s), x # live(w)
          PROVE  x \in Range(r)
      <4>1. PICK j \in DOMAIN s : x = s[j]
          BY DEF Range
      <4>2. j # c
          BY <2>2, <3>2, <4>1
      <4>3. CASE j < c
        <5>1. j \in DOMAIN r /\ j \in 1..(c - 1)
            BY <2>2, <2>3, <2>4, <4>3
        <5>2. r[j] = x
            BY <2>4, <4>1, <5>1
        <5> QED
            BY <5>1, <5>2 DEF Range
      <4>4. CASE j > c
        <5>1. j - 1 \in DOMAIN r /\ j - 1 \in c..(Len(s) - 1) /\ (j - 1) + 1 = j
            BY <2>2, <2>3, <2>4, <4>4
        <5>2. r[j - 1] = x
            BY <2>4, <4>1, <5>1
        <5> QED
            BY <5>1, <5>2 DEF Range
      <4> QED
          BY <2>2, <2>3, <4>2, <4>3, <4>4
    <3> QED
        BY <3>1, <3>2
  <2>9. Once(unregister(e, w))
    <3>1. \A i, j \in DOMAIN s : s[i][2] /\ s[i] = s[j] => i = j
        BY DEF Once, s
    <3> SUFFICES ASSUME NEW i \in DOMAIN r, NEW j \in DOMAIN r, r[i][2], r[i] = r[j]
                 PROVE  i = j
        BY <2>5 DEF Once
    <3>2. PICK k \in DOMAIN s : r[i] = s[k] /\ i = (IF k < c THEN k ELSE k - 1)
        BY <2>7
    <3>3. PICK l \in DOMAIN s : r[j] = s[l] /\ j = (IF l < c THEN l ELSE l - 1)
        BY <2>7
    <3>4. k = l
        BY <3>1, <3>2, <3>3, Zenon
    <3> QED
        BY <3>2, <3>3, <3>4
  <2> QED
      BY <2>5, <2>8, <2>9 DEF Linked, s
<1> QED
    BY <1>1, <1>2

\* A wait that has returned leaves at most a stale entry.
LEMMA ReturnedFacts ==
    ASSUME NEW W, NEW e \in Events(W), NEW w \in W
    PROVE  /\ returned(e, w) \in Events(W)
           /\ returned(e, w).state = e.state
           /\ Linked(returned(e, w)) \subseteq (Linked(e) \ {live(w)}) \cup {stale(w)}
           /\ Linked(e) \ {live(w)} \subseteq Linked(returned(e, w))
           /\ live(w) \notin Linked(e) => returned(e, w) = e
           /\ Once(e) => Once(returned(e, w))
<1> DEFINE s == e.waiting_tasks
           r == [i \in DOMAIN s |-> IF s[i] = live(w) THEN stale(w) ELSE s[i]]
<1>1. s \in Seq(W \X BOOLEAN) /\ DOMAIN s = 1..Len(s) /\ Len(s) \in Nat
    BY EventFacts
<1>2. live(w) \in W \X BOOLEAN /\ stale(w) \in W \X BOOLEAN /\ live(w) # stale(w)
      /\ ~stale(w)[2]
    BY Zenon DEF live, stale
<1>3. r \in Seq(W \X BOOLEAN)
    BY <1>1, <1>2
<1>4. returned(e, w) = [e EXCEPT !.waiting_tasks = r]
    BY DEF returned
<1>5. /\ returned(e, w) \in Events(W) /\ returned(e, w).state = e.state
      /\ returned(e, w).waiting_tasks = r
    BY <1>3, <1>4 DEF Events, Entries
<1>6. DOMAIN r = DOMAIN s
    OBVIOUS
<1>7. Range(r) \subseteq (Range(s) \ {live(w)}) \cup {stale(w)}
    BY <1>2, Zenon DEF Range
<1>8. Range(s) \ {live(w)} \subseteq Range(r)
    BY DEF Range
<1>9. ASSUME live(w) \notin Linked(e)
      PROVE  returned(e, w) = e
  <2>1. \A i \in DOMAIN s : s[i] # live(w)
      BY <1>9 DEF Linked, Range
  <2>2. r = [i \in DOMAIN s |-> s[i]]
      BY <2>1
  <2>3. r = s
      BY <1>1, <2>2
  <2> QED
      BY <1>4, <2>3 DEF Events
<1>10. ASSUME Once(e)
       PROVE  Once(returned(e, w))
  <2>1. \A i, j \in DOMAIN s : s[i][2] /\ s[i] = s[j] => i = j
      BY <1>10 DEF Once
  <2>2. \A i, j \in DOMAIN r : r[i][2] /\ r[i] = r[j] => i = j
      BY <1>2, <2>1
  <2> QED
      BY <1>5, <2>2 DEF Once
<1> QED
    BY <1>5, <1>7, <1>8, <1>9, <1>10 DEF Linked

\* A sequence without its first n elements.
LEMMA DropFacts ==
    ASSUME NEW S, NEW s \in Seq(S), NEW n \in Nat
    PROVE  LET r == SubSeq(s, n + 1, Len(s))
           IN  /\ r \in Seq(S)
               /\ \A i \in DOMAIN r : i + n \in DOMAIN s /\ r[i] = s[i + n] /\ i \in Nat
               /\ \A i \in DOMAIN s : i > n => i - n \in DOMAIN r /\ r[i - n] = s[i]
<1> DEFINE r == SubSeq(s, n + 1, Len(s))
           m == IF n < Len(s) THEN Len(s) - n ELSE 0
<1>1. DOMAIN s = 1..Len(s) /\ Len(s) \in Nat /\ \A i \in 1..Len(s) : s[i] \in S
    OBVIOUS
<1>2. r = [i \in 1..m |-> s[i + n]]
    BY <1>1
<1>3. m \in Nat /\ \A i \in 1..m : i + n \in 1..Len(s)
    BY <1>1
<1>4. /\ DOMAIN r = 1..m /\ \A i \in 1..m : r[i] = s[i + n]
      /\ r \in [1..m -> S]
    BY <1>1, <1>2, <1>3, Zenon
<1> HIDE DEF r
<1>5. r \in Seq(S)
    BY <1>3, <1>4, SMTT(30)
<1>6. ASSUME NEW i \in DOMAIN s, i > n
      PROVE  i - n \in DOMAIN r /\ r[i - n] = s[i]
  <2>1. i - n \in 1..m /\ (i - n) + n = i
      BY <1>1, <1>6
  <2> QED
      BY <1>4, <2>1, Zenon
<1>7. \A i \in DOMAIN r : i + n \in DOMAIN s /\ r[i] = s[i + n] /\ i \in Nat
    BY <1>1, <1>3, <1>4
<1> HIDE DEF m
<1> QED
    BY <1>5, <1>6, <1>7 DEF r

\* set_wake_n takes the first n entries off the list and notifies their waiters.
LEMMA WakeNFacts ==
    ASSUME NEW W, NEW e \in Events(W), NEW n \in Nat
    PROVE  /\ set_wake_n(e, n) \in Events(W)
           /\ set_wake_n(e, n).state = TRUE
           /\ Linked(set_wake_n(e, n)) \subseteq Linked(e)
           /\ \A w : is_linked(e, w) => w \in Notified(e, n) \/ is_linked(set_wake_n(e, n), w)
           /\ Notified(e, n) \subseteq W
           /\ Once(e) => Once(set_wake_n(e, n))
<1> DEFINE s == e.waiting_tasks
           r == SubSeq(s, n + 1, Len(s))
<1>1. s \in Seq(W \X BOOLEAN) /\ DOMAIN s = 1..Len(s) /\ Len(s) \in Nat
    BY EventFacts
<1>2. set_wake_n(e, n) = [state |-> TRUE, waiting_tasks |-> r]
    BY DEF set_wake_n, after_n
<1> HIDE DEF s
<1>3. /\ r \in Seq(W \X BOOLEAN)
      /\ \A i \in DOMAIN r : i + n \in DOMAIN s /\ r[i] = s[i + n] /\ i \in Nat
      /\ \A i \in DOMAIN s : i > n => i - n \in DOMAIN r /\ r[i - n] = s[i]
    BY <1>1, DropFacts, SMTT(30) DEF s
<1> HIDE DEF r
<1>4. /\ set_wake_n(e, n) \in Events(W) /\ set_wake_n(e, n).state = TRUE
      /\ set_wake_n(e, n).waiting_tasks = r
    BY <1>2, <1>3 DEF Events, Entries
<1>5. Range(r) \subseteq Range(s)
    BY <1>3 DEF Range
<1>6. ASSUME NEW w, is_linked(e, w)
      PROVE  w \in Notified(e, n) \/ is_linked(set_wake_n(e, n), w)
  <2>1. PICK i \in DOMAIN s : live(w) = s[i]
      BY <1>6 DEF is_linked, Range, s
  <2>2. CASE i <= n
      BY <2>1, <2>2 DEF Notified, live, s
  <2>3. CASE i > n
      BY <1>3, <1>4, <2>1, <2>3 DEF is_linked, Range
  <2> QED
      BY <1>1, <2>1, <2>2, <2>3
<1>7. Notified(e, n) \subseteq W
  <2>1. \A i \in DOMAIN e.waiting_tasks : e.waiting_tasks[i] \in W \X BOOLEAN
      BY EventFacts, Zenon
  <2>2. \A i \in DOMAIN e.waiting_tasks : e.waiting_tasks[i][1] \in W
      BY <2>1
  <2> QED
      BY <2>2 DEF Notified
<1>8. ASSUME Once(e)
      PROVE  Once(set_wake_n(e, n))
  <2>1. \A i, j \in DOMAIN s : s[i][2] /\ s[i] = s[j] => i = j
      BY <1>8 DEF Once, s
  <2> SUFFICES ASSUME NEW i \in DOMAIN r, NEW j \in DOMAIN r, r[i][2], r[i] = r[j]
               PROVE  i = j
      BY <1>4 DEF Once
  <2>2. i + n = j + n
      BY <1>3, <2>1
  <2> QED
      BY <1>3, <2>2
<1> QED
    BY <1>4, <1>5, <1>6, <1>7, <1>8 DEF Linked, s

\* Cancelling a wait removes it and wakes the others if they need not wait.
LEMMA CancelFacts ==
    ASSUME NEW W, NEW e \in Events(W), NEW w \in W, NEW b \in BOOLEAN, Once(e)
    PROVE  /\ unregister_canceled_wait(e, w, b) \in Events(W)
           /\ unregister_canceled_wait(e, w, b).state = e.state
           /\ Linked(unregister_canceled_wait(e, w, b)) \subseteq Linked(e) \ {live(w)}
           /\ Once(unregister_canceled_wait(e, w, b))
           /\ NotifiedByCancel(e, w, b) \subseteq W
           /\ \A v : is_linked(e, v) /\ v # w =>
                 \/ v \in NotifiedByCancel(e, w, b)
                 \/ e.state # b /\ is_linked(unregister_canceled_wait(e, w, b), v)
<1> DEFINE u == unregister(e, w)
<1>1. /\ u \in Events(W) /\ u.state = e.state
      /\ Linked(u) = Linked(e) \ {live(w)} /\ Once(u)
    BY UnregisterFacts
<1>2. \A v : is_linked(e, v) /\ v # w => is_linked(u, v)
    BY <1>1 DEF is_linked, Linked, live
<1> HIDE DEF u
<1>3. CASE e.state = b
  <2>1. /\ unregister_canceled_wait(e, w, b) = wake_all(u)
        /\ NotifiedByCancel(e, w, b) = NotifiedAll(u)
      BY <1>3 DEF unregister_canceled_wait, NotifiedByCancel, u
  <2>2. /\ wake_all(u) \in Events(W) /\ wake_all(u).state = u.state
        /\ Linked(wake_all(u)) = {} /\ Once(wake_all(u))
      BY <1>1, ClearFacts, Zenon
  <2>3. NotifiedAll(u) \subseteq W /\ \A v : is_linked(u, v) => v \in NotifiedAll(u)
      BY <1>1, NotifiedAllFacts
  <2> QED
      BY <1>1, <1>2, <2>1, <2>2, <2>3
<1>4. CASE e.state # b
  <2>1. /\ unregister_canceled_wait(e, w, b) = u
        /\ NotifiedByCancel(e, w, b) = {}
      BY <1>4 DEF unregister_canceled_wait, NotifiedByCancel, u
  <2> QED
      BY <1>1, <1>2, <1>4, <2>1
<1> QED
    BY <1>3, <1>4
=============================================================================
