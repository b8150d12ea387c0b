---------------------------- MODULE PrefixBuffer ----------------------------
(* Buffers that grow at the front (prefix_buffer.rs).  Layer 1 is the owner  *)
(* (StaticBuffer, OwnedBuffer), the layers above it are the BufferViews that *)
(* were made of it, each of the one below; only the innermost can be used    *)
(* while it lives.  All share one array.                                     *)
EXTENDS Integers, Sequences, SequencesExt

CONSTANTS SIZE, Bytes, MaxLayers

VARIABLES
    data,      \* the array, indexes 1..SIZE
    layers,    \* [head, tail] of each buffer: bytes head+1..tail are initialized
    contents,  \* history: what each buffer should hold
    reach      \* history: per buffer, the highest head of the views made of it

vars == <<data, layers, contents, reach>>

Top == Len(layers)
head == layers[Top].head
tail == layers[Top].tail
available == head
len == tail - head
as_slice(i) == SubSeq(data, layers[i].head + 1, layers[i].tail)
Values == UNION {[1..n -> Bytes] : n \in 0..SIZE}

At(h, t) == [layers EXCEPT ![Top] = [head |-> h, tail |-> t]]
Holds(c) == [contents EXCEPT ![Top] = c]
\* The buffers below learn how far a view has moved its head.
Reached(h) == [i \in 1..Top |-> IF i < Top /\ reach[i] < h THEN h ELSE reach[i]]

Init == /\ data = [i \in 1..SIZE |-> 0]
        /\ layers = <<[head |-> SIZE, tail |-> SIZE]>>
        /\ contents = <<<<>>>> /\ reach = <<0>>

\* The bytes of reserve(Len(value)), and copy_from_slice into them.
Write(h, value) == [i \in 1..SIZE |-> IF i > h /\ i <= h + Len(value) THEN value[i - h]
                                      ELSE data[i]]

\* Mutant: the new bytes are put where the buffer's last ones are.
prefix_Tail(value) ==
    /\ Len(value) <= available
    /\ data' = Write(tail - Len(value), value)
    /\ layers' = At(head - Len(value), tail)
    /\ contents' = Holds(value \o contents[Top])
    /\ UNCHANGED reach

prefix(value) ==
    /\ Len(value) <= available
    /\ data' = Write(head - Len(value), value)
    /\ layers' = At(head - Len(value), tail)
    /\ contents' = Holds(value \o contents[Top])
    /\ UNCHANGED reach

take(amount) ==
    /\ head + amount <= tail
    /\ layers' = At(head + amount, tail)
    /\ contents' = Holds(SubSeq(contents[Top], amount + 1, len))
    /\ reach' = Reached(head + amount)
    /\ UNCHANGED data

\* `reset` of an owner; a view resets itself with take(len()).
reset ==
    /\ Top = 1
    /\ layers' = At(SIZE, SIZE) /\ contents' = Holds(<<>>)
    /\ UNCHANGED <<data, reach>>

\* `set`: reset and prefix.
set(value) ==
    /\ LET t == IF Top = 1 THEN SIZE ELSE tail
       IN /\ Len(value) <= t
          /\ data' = Write(t - Len(value), value)
          /\ layers' = At(t - Len(value), t)
          /\ reach' = Reached(t)
    /\ contents' = Holds(value)

\* `keep` of an owner.
keep(size) ==
    /\ Top = 1 /\ head + size <= tail
    /\ layers' = At(head, head + size)
    /\ contents' = Holds(SubSeq(contents[Top], 1, size))
    /\ UNCHANGED <<data, reach>>

\* Mutant: a view of the whole array.
view_Whole ==
    /\ Top < MaxLayers
    /\ layers' = Append(layers, [head |-> head, tail |-> SIZE])
    /\ contents' = Append(contents, contents[Top])
    /\ reach' = Append([reach EXCEPT ![Top] = head], 0)
    /\ UNCHANGED data

\* `view`: with_available(head, data[..tail]).
view ==
    /\ Top < MaxLayers
    /\ layers' = Append(layers, layers[Top])
    /\ contents' = Append(contents, contents[Top])
    /\ reach' = Append([reach EXCEPT ![Top] = head], 0)
    /\ UNCHANGED data

\* A view is dropped: its buffer is in use again, with the bytes it finds.
DropView ==
    /\ Top > 1
    /\ layers' = Front(layers) /\ reach' = Front(reach)
    /\ contents' = [Front(contents) EXCEPT ![Top - 1] = as_slice(Top - 1)]
    /\ UNCHANGED data

Next == \/ \E v \in Values : prefix(v) \/ set(v)
        \/ \E n \in 0..SIZE : take(n) \/ keep(n)
        \/ reset \/ view \/ DropView

Spec == Init /\ [][Next]_vars

\* Heads and tails stay in the array, a view's inside its owner's.
TypeOK ==
    /\ DOMAIN data = 1..SIZE
    /\ \A i \in 1..Top : 0 <= layers[i].head /\ layers[i].head <= layers[i].tail
    /\ \A i \in 2..Top : layers[i].tail = layers[i - 1].tail

\* The innermost buffer holds what was put into it, last prefix first; and a
\* buffer under a view finds its bytes unchanged from the place on that the view's
\* head has never passed: a view that only adds in front does not affect it.
BufferHolds ==
    /\ as_slice(Top) = contents[Top]
    /\ \A i \in 1..Top - 1 : LET from == reach[i] - layers[i].head IN
           SubSeq(as_slice(i), from + 1, Len(contents[i]))
               = SubSeq(contents[i], from + 1, Len(contents[i]))
=============================================================================
