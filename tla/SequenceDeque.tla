--------------------------- MODULE SequenceDeque ---------------------------
(***************************************************************************)
(* What a list element container promises: a sequence that is pushed and   *)
(* popped at both ends, and written and extended at any position.          *)
(***************************************************************************)
EXTENDS Naturals, Sequences, SequencesExt

CONSTANT Elements
VARIABLE items

Init == items = <<>>

PushFront(v) == items' = <<v>> \o items
PushBack(v) == items' = Append(items, v)
PopFront == items # <<>> /\ items' = Tail(items)
PopBack == items # <<>> /\ items' = Front(items)
Set(i, v) == i \in DOMAIN items /\ items' = [items EXCEPT ![i] = v]
Insert(i, v) == i \in 1..(Len(items) + 1) /\ items' = InsertAt(items, i, v)

Next == \/ \E v \in Elements : PushFront(v) \/ PushBack(v)
        \/ PopFront \/ PopBack
        \/ \E v \in Elements : \E i \in 1..(Len(items) + 1) : Set(i, v) \/ Insert(i, v)

Spec == Init /\ [][Next]_items
=============================================================================
