-------------------------------- MODULE Deque --------------------------------
(***************************************************************************)
(* The ring buffer behind lists (internal/store/deque.go).  Positions are  *)
(* counted from 0, as in the code; an unused slot holds the empty string.  *)
(***************************************************************************)
EXTENDS Integers, Sequences, FiniteSets, SequencesExt

CONSTANTS
  Elements,      \* what is put in
  MinCap,        \* dequeMinCap: 8 in the code
  MaxCount       \* bound: elements in the deque

Blank == ""

ASSUME DequeAssumption ==
  Blank \notin Elements /\ MinCap \in Nat \ {0} /\ MaxCount \in Nat

VARIABLES
  buf,           \* the slots, a function on 0..(capacity - 1)
  head,          \* slot of the first element
  count          \* number of elements

dequeVars == <<buf, head, count>>

Capacity == Cardinality(DOMAIN buf)

DequeInit == buf = [i \in {} |-> Blank] /\ head = 0 /\ count = 0

(***************************************************************************)
(* grow: twice the slots, the elements moved to the beginning.             *)
(***************************************************************************)
Larger(c) == IF 2 * c < MinCap THEN MinCap ELSE 2 * c

\* Mutant of Room: the slots are copied without turning them.
RoomUnturned ==
  IF count < Capacity THEN [buf |-> buf, head |-> head]
  ELSE [buf |-> [i \in 0..(Larger(Capacity) - 1) |-> IF i < count THEN buf[i] ELSE Blank],
        head |-> 0]

Room ==
  IF count < Capacity THEN [buf |-> buf, head |-> head]
  ELSE [buf |-> [i \in 0..(Larger(Capacity) - 1) |->
                   IF i < count THEN buf[(head + i) % Capacity] ELSE Blank],
        head |-> 0]

CapOf(d) == Cardinality(DOMAIN d.buf)

PushFront(v) ==
  LET d == Room
      h == (d.head - 1 + CapOf(d)) % CapOf(d) IN
  /\ count < MaxCount
  /\ buf' = [d.buf EXCEPT ![h] = v] /\ head' = h /\ count' = count + 1

PushBack(v) ==
  LET d == Room IN
  /\ count < MaxCount
  /\ buf' = [d.buf EXCEPT ![(d.head + count) % CapOf(d)] = v]
  /\ head' = d.head /\ count' = count + 1

PopFront ==
  /\ count > 0
  /\ buf' = [buf EXCEPT ![head] = Blank]
  /\ head' = (head + 1) % Capacity /\ count' = count - 1

PopBack ==
  /\ count > 0
  /\ buf' = [buf EXCEPT ![(head + count - 1) % Capacity] = Blank]
  /\ head' = head /\ count' = count - 1

Set(i, v) ==
  /\ i < count
  /\ buf' = [buf EXCEPT ![(head + i) % Capacity] = v]
  /\ UNCHANGED <<head, count>>

(***************************************************************************)
(* Insert shifts the shorter side by one slot.  Each slot is read before   *)
(* the loop overwrites it, so the shift is one assignment.                 *)
(***************************************************************************)
ShiftLeft(d, i, v) ==
  LET cap == CapOf(d)
      h == (d.head - 1 + cap) % cap
      pos(s) == (s - h + cap) % cap IN
  /\ buf' = [s \in DOMAIN d.buf |-> IF pos(s) < i THEN d.buf[(s + 1) % cap]
                                    ELSE IF pos(s) = i THEN v ELSE d.buf[s]]
  /\ head' = h

ShiftRight(d, i, v) ==
  LET cap == CapOf(d)
      pos(s) == (s - d.head + cap) % cap IN
  /\ buf' = [s \in DOMAIN d.buf |->
               IF pos(s) > i /\ pos(s) <= count THEN d.buf[(s - 1 + cap) % cap]
               ELSE IF pos(s) = i THEN v ELSE d.buf[s]]
  /\ head' = d.head

Insert(i, v) ==
  /\ i <= count /\ count < MaxCount
  /\ \/ i <= count \div 2 /\ ShiftLeft(Room, i, v)
     \/ i > count \div 2 /\ ShiftRight(Room, i, v)
  /\ count' = count + 1

DequeNext ==
  \/ \E v \in Elements :
       \/ PushFront(v) \/ PushBack(v)
       \/ \E i \in 0..MaxCount : Set(i, v) \/ Insert(i, v)
  \/ PopFront \/ PopBack

DequeSpec == DequeInit /\ [][DequeNext]_dequeVars

-----------------------------------------------------------------------------
ToSlice == [i \in 1..count |-> buf[(head + i - 1) % Capacity]]

(***************************************************************************)
(* LRANGE: a negative index counts from the end.                           *)
(***************************************************************************)
\* Mutant of normalizeRange: an end beyond the list is not cut off.
normalizeLoose(start, stop) ==
  LET a == IF start < 0 THEN count + start ELSE start
      b == IF stop < 0 THEN count + stop ELSE stop IN
  [from |-> IF a < 0 THEN 0 ELSE a, to |-> b]

normalizeRange(start, stop) ==
  LET a == IF start < 0 THEN count + start ELSE start
      b == IF stop < 0 THEN count + stop ELSE stop IN
  [from |-> IF a < 0 THEN 0 ELSE a, to |-> IF b >= count THEN count - 1 ELSE b]

RangeOfList(start, stop) ==
  LET r == normalizeRange(start, stop) IN
  IF r.from > r.to \/ r.from >= count \/ r.to < 0 THEN <<>>
  ELSE [k \in 1..(r.to - r.from + 1) |-> buf[(head + r.from + k - 1) % Capacity]]

(***************************************************************************)
(* The head is a slot, and the elements fit into the slots.                *)
(***************************************************************************)
DequeTypeOK ==
  /\ DOMAIN buf = 0..(Capacity - 1) /\ Range(buf) \subseteq Elements \cup {Blank}
  /\ head \in 0..(IF Capacity = 0 THEN 0 ELSE Capacity - 1)
  /\ count \in 0..Capacity

(***************************************************************************)
(* "clear reference": a slot that holds no element of the list holds       *)
(* nothing, whatever pops, growth and shifts came before.                  *)
(***************************************************************************)
FreeSlotsBlank ==
  \A s \in DOMAIN buf : (s - head + Capacity) % Capacity >= count => buf[s] = Blank

(***************************************************************************)
(* LRANGE returns the elements whose position, counted from either end,    *)
(* lies between the two indices, in order, for every pair of indices that  *)
(* lie in the list or one beyond either end.                               *)
(***************************************************************************)
Between(start, stop) ==
  {i \in 0..(count - 1) : /\ IF start < 0 THEN start <= i - count ELSE start <= i
                          /\ IF stop < 0 THEN i - count <= stop ELSE i <= stop}

RangeExact ==
  \A start, stop \in -(count + 1)..(count + 1) :
    LET got == RangeOfList(start, stop)
        wanted == Between(start, stop) IN
    /\ Len(got) = Cardinality(wanted)
    /\ \A i \in wanted : got[Cardinality({j \in wanted : j < i}) + 1] = ToSlice[i + 1]

(***************************************************************************)
(* The ring buffer, with its wrapping, growing and shifting, behaves as    *)
(* the sequence that ToSlice returns, and each operation does to it what   *)
(* it is called for: it works at its own end, or at the very position it   *)
(* was given.                                                              *)
(***************************************************************************)
AsSequence == INSTANCE SequenceDeque WITH items <- ToSlice

SameOperation ==
  /\ \A v \in Elements :
       /\ PushFront(v) => AsSequence!PushFront(v)
       /\ PushBack(v) => AsSequence!PushBack(v)
       /\ \A i \in 0..MaxCount : /\ Set(i, v) => AsSequence!Set(i + 1, v)
                                 /\ Insert(i, v) => AsSequence!Insert(i + 1, v)
  /\ PopFront => AsSequence!PopFront
  /\ PopBack => AsSequence!PopBack

DequeIsSequence == AsSequence!Spec /\ [][SameOperation]_dequeVars

(***************************************************************************)
(* Types, blank free slots, and ranges as LRANGE describes them.           *)
(***************************************************************************)
DequeInv == DequeTypeOK /\ FreeSlotsBlank /\ RangeExact
=============================================================================
