---------------------------- MODULE StreamsProofs ----------------------------
(***************************************************************************)
(* Proofs about Streams for any streams, consumers, IDs and bounds.        *)
(***************************************************************************)
EXTENDS Streams, FiniteSetTheorems, SequenceTheorems, TLAPS

(***************************************************************************)
(* What is stored under a key, and what a handler holds.                   *)
(***************************************************************************)
StreamEntry == [id : IDs, val : Entries]
PendingMaps == UNION {[d -> Consumers] : d \in SUBSET IDs}
Groups == [exists : BOOLEAN, last : IDs, pending : PendingMaps]
Stored == [made : BOOLEAN, entries : Seq(StreamEntry), seq : Nat, group : Groups,
           other : BOOLEAN, expired : BOOLEAN]
Plans == UNION {[keys -> Seq(StreamEntry)] : keys \in SUBSET StreamKeys}
Adding == [op : {"xadd"}, stream : StreamKeys, id : IDs, val : Entries]
Delivering == [op : {"deliver"}, consumer : Consumers, plan : Plans, new : BOOLEAN,
               todo : Seq(StreamKeys)]

(***************************************************************************)
(* Types.                                                                  *)
(***************************************************************************)
StoreTypes ==
  /\ st \in [StreamKeys -> Stored]
  /\ added \in 0..MaxEntries /\ lapses \in 0..MaxLapses
  /\ handed \in [Entries -> Nat]
  /\ crossed \subseteq Entries /\ knows \in [Entries -> Consumers \cup {"nobody", "lost"}]

HandlerTypes == busy = Free \/ busy \in Adding \/ busy \in Delivering

CallTypes ==
  /\ waits \in [StreamKeys -> SUBSET Callers]
  /\ pc \in [Callers -> {"idle", "gap", "asleep", "awake", "back"}]
  /\ call = [c \in Callers |-> call[c]]
  /\ \A c \in Callers : call[c].streams \subseteq StreamKeys /\ call[c].count \in Nat \ {0}

(***************************************************************************)
(* Whoever sleeps in the list of a stream has seen all of its entries.     *)
(***************************************************************************)
SleepersSaw ==
  \A s \in StreamKeys : \A c \in waits[s] :
    pc[c] = "asleep" => Vals(st[s].entries) \subseteq seen[c]

WaitInv == CallTypes /\ DOMAIN seen = Callers /\ SleepersSaw /\ NoStaleWaiter

BaseInv == StoreTypes /\ HandlerTypes /\ WaitInv /\ IDsRise

(***************************************************************************)
(* a is not after b.                                                       *)
(***************************************************************************)
UpTo(a, b) == ~compareID(b, a)

(***************************************************************************)
(* The group's last ID is one of the stream's past, unless the key is of   *)
(* another kind and takes no entries; pending entries are not after it;    *)
(* and the ID of an XADD under way is.                                     *)
(***************************************************************************)
GroupsBehind ==
  \A s \in StreamKeys :
    /\ ~st[s].other => UpTo(st[s].group.last, lastIDLocked(st[s]))
    /\ \A i \in DOMAIN st[s].group.pending : UpTo(i, st[s].group.last)
    /\ ~st[s].group.exists => st[s].group = Nobody

XAddAhead ==
  busy.op = "xadd" => /\ compareID(st[busy.stream].group.last, busy.id)
                      /\ compareID(Zero, busy.id)

(***************************************************************************)
(* Every entry is in one place at most.                                    *)
(***************************************************************************)
Distinct ==
  /\ \A s \in StreamKeys : \A i \in DOMAIN st[s].entries :
       /\ st[s].entries[i].val <= added
       /\ busy.op = "xadd" => st[s].entries[i].val # busy.val
  /\ busy.op = "xadd" => busy.val <= added
  /\ \A s, t \in StreamKeys : \A i \in DOMAIN st[s].entries, j \in DOMAIN st[t].entries :
       st[s].entries[i].val = st[t].entries[j].val => s = t /\ i = j

(***************************************************************************)
(* An XREADGROUP under way has streams left to visit, each once.  Its plan *)
(* has entries in order, none of them in two streams.                      *)
(***************************************************************************)
TodoVisits ==
  busy.op = "deliver" =>
    busy.todo # <<>> /\ IsInjective(busy.todo) /\ Range(busy.todo) \subseteq Found(busy.plan)

PlanInOrder ==
  busy.op = "deliver" =>
    /\ \A s \in DOMAIN busy.plan : \A i, j \in DOMAIN busy.plan[s] :
         i < j => compareID(busy.plan[s][i].id, busy.plan[s][j].id)
    /\ \A s \in DOMAIN busy.plan : \A i \in DOMAIN busy.plan[s] : busy.plan[s][i].val <= added
    /\ \A s, t \in DOMAIN busy.plan : Vals(busy.plan[s]) \cap Vals(busy.plan[t]) # {} => s = t

(***************************************************************************)
(* What was planned is still what the stream has under these IDs, as long  *)
(* as the group exists, and it is nowhere else.                            *)
(***************************************************************************)
PlanHolds ==
  busy.op = "deliver" =>
    \A s \in DOMAIN busy.plan : \A j \in DOMAIN busy.plan[s] :
      LET p == busy.plan[s][j] IN
      /\ \A t \in StreamKeys : \A k \in DOMAIN st[t].entries :
           st[t].entries[k].val = p.val => t = s /\ st[t].entries[k].id = p.id
      /\ st[s].group.exists => 
           /\ \A k \in DOMAIN st[s].entries : st[s].entries[k].id = p.id => st[s].entries[k].val = p.val
           /\ ~st[s].other => UpTo(p.id, lastIDLocked(st[s]))

(***************************************************************************)
(* New entries that are planned are unread, and no unread one is left out  *)
(* before the last of them.                                                *)
(***************************************************************************)
NewUnread ==
  (busy.op = "deliver" /\ busy.new) =>
    \A s \in Range(busy.todo) :
      /\ \A j \in DOMAIN busy.plan[s] : handed[busy.plan[s][j].val] = 0
      /\ st[s].group.exists =>
           /\ \A j \in DOMAIN busy.plan[s] : compareID(st[s].group.last, busy.plan[s][j].id)
           /\ \A k \in DOMAIN st[s].entries :
                compareID(st[s].group.last, st[s].entries[k].id) =>
                  \/ st[s].entries[k].id \in ToIDs(busy.plan[s])
                  \/ compareID(Last(busy.plan[s]).id, st[s].entries[k].id)

(***************************************************************************)
(* Entries that are read again are pending, unless a link acknowledged     *)
(* them meanwhile.                                                         *)
(***************************************************************************)
RereadsPending ==
  (busy.op = "deliver" /\ ~busy.new) =>
    \A s \in Range(busy.todo) : st[s].group.exists =>
      /\ \A i \in ToIDs(busy.plan[s]) : UpTo(i, st[s].group.last)
      /\ \A k \in DOMAIN st[s].entries :
           st[s].entries[k].id \in ToIDs(busy.plan[s]) =>
             \/ st[s].entries[k].id \in DOMAIN st[s].group.pending
             \/ st[s].entries[k].val \in crossed

(***************************************************************************)
(* What no group has read yet has not been handed out.                     *)
(***************************************************************************)
UnreadNotHanded ==
  /\ \A v \in Entries : v > added \/ (busy.op = "xadd" /\ busy.val = v) => handed[v] = 0
  /\ \A s \in StreamKeys : \A k \in DOMAIN st[s].entries :
       (~st[s].group.exists \/ compareID(st[s].group.last, st[s].entries[k].id)) =>
         handed[st[s].entries[k].val] = 0

(***************************************************************************)
(* Streams whose part of the plan has been delivered.                      *)
(***************************************************************************)
Done == IF busy.op = "deliver" THEN Found(busy.plan) \ Range(busy.todo) ELSE {}

OwnersTold ==
  \A s \in StreamKeys : \A k \in DOMAIN st[s].entries :
    LET i == st[s].entries[k].id IN
    i \in DOMAIN st[s].group.pending =>
      \/ knows[st[s].entries[k].val] \in {st[s].group.pending[i], "lost"}
      \/ s \in Done /\ i \in ToIDs(busy.plan[s])

DoneHeld ==
  \A s \in Done : \A i \in ToIDs(busy.plan[s]) \cap DOMAIN st[s].group.pending :
    st[s].group.pending[i] = busy.consumer

DeepInv ==
  /\ GroupsBehind /\ XAddAhead /\ Distinct /\ PlanInOrder /\ PlanHolds
  /\ NewUnread /\ RereadsPending /\ UnreadNotHanded /\ OwnersTold /\ DoneHeld

-----------------------------------------------------------------------------
(***************************************************************************)
(* A set of numbers that is not empty has a least one: the intervals below *)
(* its members are finite sets, ordered by inclusion.                      *)
(***************************************************************************)
LEMMA LeastNumber ==
  ASSUME NEW T \in SUBSET Nat, T # {}
  PROVE  \E m \in T : \A k \in T : m <= k
<1> DEFINE I == {0..n : n \in T}
<1>1. I \subseteq FiniteSubsetsOf(Nat)
  <2> SUFFICES ASSUME NEW n \in T PROVE 0..n \in FiniteSubsetsOf(Nat)
    OBVIOUS
  <2>1. n \in Int /\ 0 \in Int
    OBVIOUS
  <2>2. IsFiniteSet(0..n)
    BY <2>1, FS_Interval
  <2> QED
    BY <2>2 DEF FiniteSubsetsOf
<1>2. I # {}
  OBVIOUS
<1> HIDE DEF I
<1>3. \E x \in I : \A y \in I : ~(<<y, x>> \in StrictSubsetOrdering(Nat))
  BY <1>1, <1>2, WFMin, FS_StrictSubsetOrderingWellFounded
<1>4. PICK m \in T : \A y \in I : ~(<<y, 0..m>> \in StrictSubsetOrdering(Nat))
  BY <1>3 DEF I
<1>5. ASSUME NEW k \in T PROVE m <= k
  <2> SUFFICES ASSUME k < m PROVE FALSE
    OBVIOUS
  <2>1. 0..k \subseteq 0..m /\ 0..k # 0..m /\ 0..k \in SUBSET Nat /\ 0..m \in SUBSET Nat
    <3>1. m \in 0..m /\ m \notin 0..k
      OBVIOUS
    <3> QED
      BY <3>1
  <2>2. <<0..k, 0..m>> \in StrictSubsetOrdering(Nat)
    BY <2>1 DEF StrictSubsetOrdering
  <2> QED
    BY <1>4, <2>2 DEF I
<1> QED
  BY <1>5

(***************************************************************************)
(* Induction over the numbers up to n, for a set of numbers.               *)
(***************************************************************************)
LEMMA CountUp ==
  ASSUME NEW n \in Nat, NEW S, 0 \in S, \A i \in 0..(n - 1) : i \in S => i + 1 \in S
  PROVE  \A i \in 0..n : i \in S
<1> DEFINE T == {i \in 0..n : i \notin S}
<1> SUFFICES ASSUME T # {} PROVE FALSE
  OBVIOUS
<1>1. T \in SUBSET Nat
  OBVIOUS
<1>2. PICK m \in T : \A k \in T : m <= k
  BY <1>1, LeastNumber
<1>3. m # 0 /\ m \in 0..n /\ m \notin S
  BY <1>2
<1>4. m - 1 \in 0..(n - 1) /\ m - 1 \in 0..n
  BY <1>3
<1>5. m - 1 \in S
  BY <1>2, <1>4
<1>6. (m - 1) + 1 \in S
  BY <1>4, <1>5
<1> QED
  BY <1>3, <1>6


-----------------------------------------------------------------------------
(***************************************************************************)
(* IDs are in a strict linear order.                                       *)
(***************************************************************************)
LEMMA IDOrder ==
  /\ \A a \in IDs : ~compareID(a, a)
  /\ \A a, b \in IDs : a = b \/ compareID(a, b) \/ compareID(b, a)
  /\ \A a, b, c \in IDs : compareID(a, b) /\ compareID(b, c) => compareID(a, c)
  /\ \A a, b \in IDs : ~(compareID(a, b) /\ compareID(b, a))
  /\ Zero \in IDs /\ \A a \in IDs : ~compareID(a, Zero)
<1>1. \A a \in IDs : a[1] \in Nat /\ a[2] \in Nat /\ a = <<a[1], a[2]>>
  BY DEF IDs
<1>2. \A a, b \in IDs : a = b \/ compareID(a, b) \/ compareID(b, a)
  BY <1>1 DEF compareID
<1>3. \A a \in IDs : ~compareID(a, a)
  BY <1>1 DEF compareID
<1>4. \A a, b, c \in IDs : compareID(a, b) /\ compareID(b, c) => compareID(a, c)
  BY <1>1 DEF compareID
<1>5. Zero \in IDs /\ Zero[1] = 0 /\ Zero[2] = 0
  BY DEF IDs, Zero
<1>6. \A a \in IDs : ~compareID(a, Zero)
  BY <1>1, <1>5 DEF compareID
<1>7. \A a, b \in IDs : ~(compareID(a, b) /\ compareID(b, a))
  BY <1>3, <1>4
<1> QED
  BY <1>2, <1>3, <1>4, <1>5, <1>6, <1>7

(***************************************************************************)
(* The last ID of a stream is not before any of its IDs.                   *)
(***************************************************************************)
LEMMA LastIsLast ==
  ASSUME NEW x \in Stored,
         \A i, j \in DOMAIN x.entries : i < j => compareID(x.entries[i].id, x.entries[j].id)
  PROVE  /\ lastIDLocked(x) \in IDs
         /\ \A i \in DOMAIN x.entries : UpTo(x.entries[i].id, lastIDLocked(x))
         /\ x.entries # <<>> => lastIDLocked(x) = x.entries[Len(x.entries)].id
         /\ x.entries = <<>> => lastIDLocked(x) = Zero
<1>1. PICK q \in Seq(StreamEntry) : q = x.entries
  BY DEF Stored
<1>2. PICK n \in Nat : n = Len(q) /\ DOMAIN q = 1..n
  OBVIOUS
<1>3. \A i \in 1..n : q[i].id \in IDs
  <2>1. \A i \in 1..n : q[i] \in StreamEntry
    BY <1>2
  <2> QED
    BY <2>1 DEF StreamEntry
<1>4. CASE q = <<>>
  BY <1>1, <1>4, IDOrder DEF lastIDLocked, UpTo
<1>5. CASE q # <<>>
  <2>1. n \in 1..n
    BY <1>2, <1>5
  <2>2. lastIDLocked(x) = q[n].id
    BY <1>1, <1>2, <1>5 DEF lastIDLocked, Last
  <2>3. ASSUME NEW i \in 1..n PROVE ~compareID(q[n].id, q[i].id)
    <3>1. CASE i = n
      BY <1>3, <2>1, <3>1, IDOrder
    <3>2. CASE i < n
      <4>1. compareID(q[i].id, q[n].id)
        BY <1>1, <1>2, <2>1, <3>2
      <4> QED
        BY <1>3, <2>1, <4>1, IDOrder
    <3> QED
      BY <3>1, <3>2
  <2> QED
    BY <1>1, <1>2, <1>3, <1>5, <2>1, <2>2, <2>3 DEF UpTo
<1> QED
  BY <1>4, <1>5

(***************************************************************************)
(* searchStreamStart finds the first entry after an ID.                    *)
(***************************************************************************)
LEMMA SearchFinds ==
  ASSUME NEW X, NEW q \in Seq(X), NEW id
  PROVE  LET i == searchStreamStart(q, id) IN
         /\ i \in 1..(Len(q) + 1)
         /\ i <= Len(q) => compareID(id, q[i].id)
         /\ \A k \in 1..(i - 1) : ~compareID(id, q[k].id)
<1> DEFINE T == {i \in 1..(Len(q) + 1) : i <= Len(q) => compareID(id, q[i].id)}
           P(i) == /\ i <= Len(q) => compareID(id, q[i].id)
                   /\ \A k \in 1..(i - 1) : ~compareID(id, q[k].id)
<1>1. PICK n \in Nat : n = Len(q)
  OBVIOUS
<1>2. T \in SUBSET Nat /\ n + 1 \in T
  BY <1>1
<1> HIDE DEF T
<1>3. PICK m \in T : \A k \in T : m <= k
  BY <1>2, LeastNumber
<1>4. m \in 1..(Len(q) + 1) /\ (m <= Len(q) => compareID(id, q[m].id))
  BY <1>3 DEF T
<1>5. ASSUME NEW k \in 1..(m - 1), compareID(id, q[k].id) PROVE FALSE
  <2>1. k \in 1..(Len(q) + 1)
    BY <1>1, <1>4
  <2>2. k \in T
    BY <1>5, <2>1 DEF T
  <2> QED
    BY <1>1, <1>3, <1>4, <2>2
<1>6. \E i \in 1..(Len(q) + 1) : P(i)
  BY <1>4, <1>5
<1>7. LET i == CHOOSE i \in 1..(Len(q) + 1) : P(i) IN i \in 1..(Len(q) + 1) /\ P(i)
  BY <1>6
<1> QED
  BY <1>7 DEF searchStreamStart

(***************************************************************************)
(* The entries after an ID are the ones from some position on.             *)
(***************************************************************************)
LEMMA AfterFacts ==
  ASSUME NEW X, NEW q \in Seq(X), NEW id
  PROVE  \E m \in 0..Len(q) :
           /\ After(q, id) \in Seq(X) /\ Len(After(q, id)) = Len(q) - m
           /\ \A k \in 1..(Len(q) - m) : After(q, id)[k] = q[m + k]
           /\ m < Len(q) => compareID(id, q[m + 1].id)
           /\ \A k \in 1..m : ~compareID(id, q[k].id)
<1>1. PICK n \in Nat : n = Len(q) /\ DOMAIN q = 1..n
  OBVIOUS
<1>2. PICK i : i = searchStreamStart(q, id)
  OBVIOUS
<1>3. /\ i \in 1..(n + 1)
      /\ i <= n => compareID(id, q[i].id)
      /\ \A k \in 1..(i - 1) : ~compareID(id, q[k].id)
  BY <1>1, <1>2, SearchFinds
<1>4. PICK m \in 0..n : m = i - 1
  BY <1>3
<1>5. After(q, id) = SubSeq(q, m + 1, n) /\ m + 1 \in Nat
  BY <1>1, <1>2, <1>3, <1>4 DEF After
<1>6. /\ SubSeq(q, m + 1, n) \in Seq(X) /\ Len(SubSeq(q, m + 1, n)) = n - m
      /\ \A k \in 1..(n - m) : SubSeq(q, m + 1, n)[k] = q[m + k]
  <2>1. \A k \in (m + 1)..n : q[k] \in X
    BY <1>1
  <2>2. SubSeq(q, m + 1, n) = [k \in 1..(n - m) |-> q[m + k]]
    BY <1>1, <1>5
  <2>3. \A k \in 1..(n - m) : m + k \in 1..n
    BY <1>1
  <2>4. \A k \in 1..(n - m) : q[m + k] \in X
    BY <1>1, <2>3
  <2>5. PICK d \in Nat : d = n - m
    BY <1>4
  <2>6. PICK r : r = [k \in 1..d |-> q[m + k]]
    OBVIOUS
  <2>7. r \in Seq(X) /\ Len(r) = d
    BY <2>4, <2>5, <2>6
  <2> QED
    BY <2>2, <2>5, <2>6, <2>7
<1>7. PICK r : r = After(q, id)
  OBVIOUS
<1>8. /\ r \in Seq(X) /\ Len(r) = n - m
      /\ \A k \in 1..(n - m) : r[k] = q[m + k]
  BY <1>5, <1>6, <1>7
<1>9. m < n => compareID(id, q[m + 1].id)
  <2>1. i = m + 1
    BY <1>3, <1>4
  <2> QED
    BY <1>3, <2>1
<1>10. \A k \in 1..m : ~compareID(id, q[k].id)
  BY <1>3, <1>4
<1> QED
  BY <1>1, <1>7, <1>8, <1>9, <1>10

(***************************************************************************)
(* What a filtering loop returns: the elements at the positions to keep,   *)
(* in their order.                                                         *)
(***************************************************************************)
Picks(q, keep, r, f) ==
  /\ f \in [1..Len(r) -> keep]
  /\ \A k \in 1..Len(r) : r[k] = q[f[k]]
  /\ \A j, k \in 1..Len(r) : j < k => f[j] < f[k]
  /\ \A i \in keep : \E k \in 1..Len(r) : f[k] = i

(***************************************************************************)
(* What a filtering loop keeps: the chosen positions, in their order.      *)
(***************************************************************************)
LEMMA FilteredFacts ==
  ASSUME NEW X, NEW q \in Seq(X), NEW keep \in SUBSET DOMAIN q
  PROVE  Filtered(q, keep) \in Seq(X) /\ \E f : Picks(q, keep, Filtered(q, keep), f)
<1> DEFINE E(f, i) == IF i = 0 THEN <<>>
                      ELSE IF i \in keep THEN Append(f[i - 1], q[i]) ELSE f[i - 1]
           G(m, g) == g = [i \in 0..m |-> E(g, i)]
           S == {m \in 0..Len(q) : \E g : G(m, g)}
<1>1. PICK n \in Nat : n = Len(q) /\ DOMAIN q = 1..n
  OBVIOUS
<1>2. 0 \in S
  <2>1. PICK g : g = [i \in 0..0 |-> <<>>]
    OBVIOUS
  <2>2. G(0, g)
    BY <2>1
  <2> QED
    BY <1>1, <2>2
<1>3. ASSUME NEW m \in 0..(n - 1), m \in S PROVE m + 1 \in S
  <2>1. PICK g : G(m, g)
    BY <1>3
  <2>2. PICK h : h = [i \in 0..(m + 1) |-> IF i = m + 1 THEN E(g, m + 1) ELSE g[i]]
    OBVIOUS
  <2>3. m \in Nat /\ m + 1 \in 0..Len(q)
    BY <1>1
  <2>4. ASSUME NEW i \in 0..(m + 1) PROVE h[i] = E(h, i)
    <3>1. CASE i = m + 1
      <4>1. i # 0 /\ i - 1 = m /\ m \in 0..(m + 1) /\ m # m + 1
        BY <2>3, <3>1
      <4>2. h[m] = g[m]
        BY <2>2, <4>1
      <4> QED
        BY <2>2, <3>1, <4>1, <4>2
    <3>2. CASE i # m + 1
      <4>1. i \in 0..m
        BY <2>3, <3>2
      <4>2. h[i] = g[i] /\ g[i] = E(g, i)
        BY <2>1, <2>2, <3>2, <4>1
      <4>3. CASE i = 0
        BY <4>2, <4>3
      <4>4. CASE i # 0
        <5>1. i - 1 \in 0..(m + 1) /\ i - 1 # m + 1
          BY <2>3, <4>1, <4>4
        <5>2. h[i - 1] = g[i - 1]
          BY <2>2, <5>1
        <5> QED
          BY <4>2, <4>4, <5>2
      <4> QED
        BY <4>3, <4>4
    <3> QED
      BY <3>1, <3>2
  <2>5. G(m + 1, h)
    BY <2>2, <2>4
  <2> QED
    BY <2>3, <2>5
<1>4. \E g : G(n, g)
  <2> HIDE DEF S
  <2>1. \A i \in 0..(n - 1) : i \in S => i + 1 \in S
    BY <1>3
  <2>2. \A i \in 0..n : i \in S
    BY <1>2, <2>1, CountUp
  <2>3. n \in S
    BY <2>2
  <2> QED
    BY <2>3 DEF S
<1>5. PICK g : G(n, g) /\ Filtered(q, keep) = g[n]
  <2>1. G(n, CHOOSE h : G(n, h))
    BY <1>4
  <2>2. Filtered(q, keep) = (CHOOSE h : G(n, h))[n]
    BY <1>1 DEF Filtered
  <2> QED
    BY <2>1, <2>2
<1>6. \A i \in 0..n : g[i] = E(g, i)
  BY <1>5
<1> DEFINE Upto(i) == {k \in keep : k <= i}
           T == {i \in 0..n : g[i] \in Seq(X) /\ \E f : Picks(q, Upto(i), g[i], f)}
<1>7. 0 \in T
  <2>1. g[0] = <<>> /\ <<>> \in Seq(X) /\ Len(<<>>) = 0
    BY <1>6
  <2>2. Upto(0) = {}
    BY <1>1
  <2>3. PICK f, u : f = [k \in 1..0 |-> 0] /\ u = Upto(0)
    OBVIOUS
  <2>4. PICK r : r = g[0] /\ r \in Seq(X) /\ Len(r) = 0
    BY <2>1
  <2>5. Picks(q, u, r, f)
    <3>1. 1..0 = {} /\ u = {}
      BY <2>2, <2>3
    <3> QED
      BY <2>3, <2>4, <3>1 DEF Picks
  <2>6. 0 \in 0..n
    OBVIOUS
  <2> QED
    BY <2>3, <2>4, <2>5, <2>6
<1>8. ASSUME NEW i \in 0..(n - 1), i \in T PROVE i + 1 \in T
  <2>1. PICK j \in 1..n : j = i + 1 /\ j # 0 /\ j - 1 = i /\ j \in 0..n
    BY <1>1
  <2>2. g[j] = IF j \in keep THEN Append(g[i], q[j]) ELSE g[i]
    BY <1>6, <2>1
  <2>0. PICK r \in Seq(X) : r = g[i] /\ \E f : Picks(q, Upto(i), r, f)
    BY <1>8
  <2>3. PICK f : r = g[i] /\ Picks(q, Upto(i), r, f)
    BY <2>0
  <2>4. CASE j \notin keep
    <3>1. Upto(j) = Upto(i)
      BY <1>1, <2>1, <2>4
    <3> QED
      BY <2>1, <2>2, <2>3, <2>4, <3>1
  <2>5. CASE j \in keep
    <3>1. PICK x \in X : x = q[j]
      BY <1>1, <2>1
    <3>2. PICK m \in Nat : m = Len(r)
      OBVIOUS
    <3>3. PICK a : a = Append(r, x)
      OBVIOUS
    <3>4. a \in Seq(X) /\ Len(a) = m + 1 /\ a[m + 1] = x /\ \A k \in 1..m : a[k] = r[k]
      BY <3>2, <3>3
    <3>5. PICK h : h = [k \in 1..(m + 1) |-> IF k = m + 1 THEN j ELSE f[k]]
      OBVIOUS
    <3>6. /\ f \in [1..m -> Upto(i)]
          /\ \A k \in 1..m : r[k] = q[f[k]]
          /\ \A k, l \in 1..m : k < l => f[k] < f[l]
          /\ \A p \in Upto(i) : \E k \in 1..m : f[k] = p
      BY <2>3, <3>2 DEF Picks
    <3>7. \A k \in 1..m : f[k] \in keep /\ f[k] <= i /\ f[k] \in Nat
      BY <1>1, <3>6
    <3>8. \A k \in 1..m : h[k] = f[k] /\ k \in 1..(m + 1)
      BY <3>2, <3>5
    <3>9. h[m + 1] = j /\ m + 1 \in 1..(m + 1) /\ \A k \in 1..(m + 1) : k \in 1..m \/ k = m + 1
      BY <3>2, <3>5
    <3>10. h \in [1..(m + 1) -> Upto(j)]
      <4>1. \A k \in 1..(m + 1) : h[k] \in Upto(j)
        BY <2>1, <2>5, <3>7, <3>8, <3>9
      <4> QED
        BY <3>5, <4>1
    <3>11. \A k \in 1..(m + 1) : a[k] = q[h[k]]
      BY <3>1, <3>4, <3>6, <3>8, <3>9
    <3>12. \A k, l \in 1..(m + 1) : k < l => h[k] < h[l]
      <4> SUFFICES ASSUME NEW k \in 1..(m + 1), NEW l \in 1..(m + 1), k < l PROVE h[k] < h[l]
        OBVIOUS
      <4>1. k \in 1..m
        BY <3>2
      <4>2. CASE l = m + 1
        BY <2>1, <3>7, <3>8, <3>9, <4>1, <4>2
      <4>3. CASE l \in 1..m
        BY <3>6, <3>8, <4>1, <4>3
      <4> QED
        BY <3>9, <4>2, <4>3
    <3>13. \A p \in Upto(j) : \E k \in 1..(m + 1) : h[k] = p
      <4> SUFFICES ASSUME NEW p \in Upto(j) PROVE \E k \in 1..(m + 1) : h[k] = p
        OBVIOUS
      <4>1. CASE p = j
        BY <3>9, <4>1
      <4>2. CASE p # j
        <5>1. p \in Upto(i)
          BY <1>1, <2>1, <4>2
        <5> QED
          BY <3>6, <3>8, <5>1
      <4> QED
        BY <4>1, <4>2
    <3>14. Picks(q, Upto(j), a, h)
      BY <3>4, <3>10, <3>11, <3>12, <3>13 DEF Picks
    <3>15. g[j] = a
      BY <2>2, <2>3, <2>5, <3>1, <3>3
    <3> QED
      BY <2>1, <3>4, <3>14, <3>15
  <2> QED
    BY <2>4, <2>5
<1>9. n \in T
  <2> HIDE DEF T
  <2>1. \A i \in 0..(n - 1) : i \in T => i + 1 \in T
    BY <1>8
  <2>2. \A i \in 0..n : i \in T
    BY <1>7, <2>1, CountUp
  <2> QED
    BY <2>2
<1>10. Upto(n) = keep
  BY <1>1
<1> QED
  BY <1>5, <1>9, <1>10

(***************************************************************************)
(* The first elements of a sequence.                                       *)
(***************************************************************************)
LEMMA FirstOfFacts ==
  ASSUME NEW X, NEW q \in Seq(X), NEW n \in Nat \ {0}
  PROVE  /\ FirstOf(q, n) \in Seq(X) /\ Len(FirstOf(q, n)) \in 0..Len(q)
         /\ \A k \in 1..Len(FirstOf(q, n)) : FirstOf(q, n)[k] = q[k]
<1>1. PICK l \in Nat : l = IF Len(q) < n THEN Len(q) ELSE n
  OBVIOUS
<1>2. PICK r : r = SubSeq(q, 1, l)
  OBVIOUS
<1>3. l \in 0..Len(q)
  BY <1>1
<1>4. r = [k \in 1..l |-> q[k]]
  BY <1>2, <1>3
<1>5. \A k \in 1..l : q[k] \in X
  BY <1>3
<1>6. r \in Seq(X) /\ Len(r) = l
  BY <1>4, <1>5
<1> QED
  BY <1>1, <1>2, <1>3, <1>4, <1>6 DEF FirstOf

(***************************************************************************)
(* r consists of entries of the stream q, in their order.                  *)
(***************************************************************************)
Drawn(q, r) ==
  \E f \in [1..Len(r) -> 1..Len(q)] :
    /\ \A k \in 1..Len(r) : r[k] = q[f[k]]
    /\ \A j, k \in 1..Len(r) : j < k => f[j] < f[k]

(***************************************************************************)
(* r is the beginning of what the group has not read.                      *)
(***************************************************************************)
Begins(x, r) ==
  \E m \in 0..Len(x.entries) :
    /\ m + Len(r) <= Len(x.entries)
    /\ \A k \in 1..Len(r) : r[k] = x.entries[m + k]
    /\ \A k \in 1..m : ~compareID(x.group.last, x.entries[k].id)
    /\ m < Len(x.entries) => compareID(x.group.last, x.entries[m + 1].id)

(***************************************************************************)
(* New entries are the ones right after the group's last ID.               *)
(***************************************************************************)
LEMMA UnreadPlanned ==
  ASSUME NEW x \in Stored, NEW n \in Nat \ {0}, NEW r, r = FirstOf(Unread(x), n)
  PROVE  r \in Seq(StreamEntry) /\ Drawn(x.entries, r) /\ Begins(x, r)
<1>1. PICK q \in Seq(StreamEntry), id \in IDs : q = x.entries /\ id = x.group.last
  BY DEF Stored, Groups
<1>2. PICK a : a = After(q, id)
  OBVIOUS
<1>3. PICK m \in 0..Len(q) :
           /\ a \in Seq(StreamEntry) /\ Len(a) = Len(q) - m
           /\ \A k \in 1..(Len(q) - m) : a[k] = q[m + k]
           /\ m < Len(q) => compareID(id, q[m + 1].id)
           /\ \A k \in 1..m : ~compareID(id, q[k].id)
  BY <1>2, AfterFacts
<1>4. r = FirstOf(a, n)
  BY <1>1, <1>2 DEF Unread
<1>5. /\ r \in Seq(StreamEntry) /\ Len(r) \in 0..Len(a)
      /\ \A k \in 1..Len(r) : r[k] = a[k]
  <2>1. a \in Seq(StreamEntry)
    BY <1>3
  <2>2. /\ FirstOf(a, n) \in Seq(StreamEntry) /\ Len(FirstOf(a, n)) \in 0..Len(a)
        /\ \A k \in 1..Len(FirstOf(a, n)) : FirstOf(a, n)[k] = a[k]
    BY <2>1, FirstOfFacts
  <2> QED
    BY <1>4, <2>2
<1>6. PICK l \in Nat, h \in Nat : l = Len(r) /\ h = Len(q)
  BY <1>5
<1>7. l + m <= h /\ m \in 0..h /\ \A k \in 1..l : k \in 1..(h - m) /\ m + k \in 1..h
  BY <1>3, <1>5, <1>6
<1>8. \A k \in 1..l : r[k] = q[m + k]
  BY <1>3, <1>5, <1>6, <1>7
<1>9. Drawn(q, r)
  <2>1. PICK f : f = [k \in 1..l |-> m + k]
    OBVIOUS
  <2>2. f \in [1..l -> 1..h]
    BY <1>7, <2>1
  <2>3. \A j, k \in 1..l : j < k => f[j] < f[k]
    BY <1>7, <2>1
  <2>4. \A k \in 1..l : r[k] = q[f[k]]
    BY <1>8, <2>1
  <2> QED
    BY <1>6, <2>2, <2>3, <2>4 DEF Drawn
<1>10. /\ m + l <= h /\ \A k \in 1..m : ~compareID(id, q[k].id)
       /\ m < h => compareID(id, q[m + 1].id)
  <2>1. m + l <= h
    BY <1>6, <1>7
  <2>2. m < h => compareID(id, q[m + 1].id)
    BY <1>3, <1>6
  <2>3. \A k \in 1..m : ~compareID(id, q[k].id)
    BY <1>3
  <2> QED
    BY <2>1, <2>2, <2>3
<1>11. Begins(x, r)
  BY <1>1, <1>6, <1>7, <1>8, <1>10 DEF Begins
<1> QED
  BY <1>1, <1>5, <1>9, <1>11

(***************************************************************************)
(* Entries read again are pending ones of the consumer.                    *)
(***************************************************************************)
LEMMA PendingPlanned ==
  ASSUME NEW x \in Stored, NEW n \in Nat \ {0}, NEW c, NEW r, r = FirstOf(Pending(x, c), n)
  PROVE  /\ r \in Seq(StreamEntry) /\ Drawn(x.entries, r)
         /\ \A k \in 1..Len(r) : r[k].id \in DOMAIN x.group.pending
<1>1. PICK q \in Seq(StreamEntry), p \in PendingMaps : q = x.entries /\ p = x.group.pending
  BY DEF Stored, Groups
<1>2. PICK keep : keep = {i \in DOMAIN q : q[i].id \in DOMAIN p /\ p[q[i].id] = c}
  OBVIOUS
<1>3. PICK a : a = Filtered(q, keep)
  OBVIOUS
<1>4. Pending(x, c) = a
  BY <1>1, <1>2, <1>3 DEF Pending
<1>5. keep \in SUBSET DOMAIN q
  BY <1>2
<1>6. a \in Seq(StreamEntry) /\ \E f : Picks(q, keep, a, f)
  BY <1>3, <1>5, FilteredFacts
<1>7. PICK f : /\ f \in [1..Len(a) -> keep]
               /\ \A k \in 1..Len(a) : a[k] = q[f[k]]
               /\ \A j, k \in 1..Len(a) : j < k => f[j] < f[k]
  BY <1>6 DEF Picks
<1>8. /\ r \in Seq(StreamEntry) /\ Len(r) \in 0..Len(a)
      /\ \A k \in 1..Len(r) : r[k] = a[k]
  BY <1>4, <1>6, FirstOfFacts
<1>9. PICK l \in Nat, h \in Nat, d \in Nat :
        l = Len(r) /\ h = Len(q) /\ DOMAIN q = 1..h /\ d = Len(a) /\ l <= d
  BY <1>6, <1>8
<1>10. \A k \in 1..l : k \in 1..d /\ f[k] \in keep /\ f[k] \in 1..h /\ r[k] = q[f[k]]
  BY <1>5, <1>7, <1>8, <1>9
<1>11. Drawn(q, r)
  <2>1. PICK g : g = [k \in 1..l |-> f[k]]
    OBVIOUS
  <2>2. g \in [1..l -> 1..h] /\ \A k \in 1..l : g[k] = f[k]
    BY <1>10, <2>1
  <2>3. \A j, k \in 1..l : j < k => g[j] < g[k]
    BY <1>7, <1>9, <1>10, <2>2
  <2>4. \A k \in 1..l : r[k] = q[g[k]]
    BY <1>10, <2>2
  <2> QED
    BY <1>9, <2>2, <2>3, <2>4 DEF Drawn
<1>12. \A k \in 1..l : r[k].id \in DOMAIN p
  BY <1>2, <1>10
<1> QED
  BY <1>1, <1>8, <1>9, <1>11, <1>12

(***************************************************************************)
(* The streams to visit: those with something planned, each once.          *)
(***************************************************************************)
LEMMA TodoFacts ==
  ASSUME NEW found \in SUBSET StreamKeys, NEW todo,
         todo = Filtered(StreamOrder, {i \in DOMAIN StreamOrder : StreamOrder[i] \in found})
  PROVE  todo \in Seq(StreamKeys) /\ IsInjective(todo) /\ Range(todo) = found
<1>1. StreamOrder \in Seq(StreamKeys) /\ IsInjective(StreamOrder)
  BY StreamsAssumption DEF StreamKeys, Range
<1>2. PICK q \in Seq(StreamKeys) : q = StreamOrder
  BY <1>1
<1>3. PICK keep : keep = {i \in DOMAIN q : q[i] \in found}
  OBVIOUS
<1>4. keep \in SUBSET DOMAIN q
  BY <1>3
<1>5. todo = Filtered(q, keep)
  BY <1>2, <1>3
<1>6. Filtered(q, keep) \in Seq(StreamKeys) /\ \E f : Picks(q, keep, Filtered(q, keep), f)
  BY <1>4, FilteredFacts
<1>7. PICK td \in Seq(StreamKeys) : td = todo /\ \E f : Picks(q, keep, td, f)
  BY <1>5, <1>6
<1>8. PICK f : /\ f \in [1..Len(td) -> keep]
               /\ \A k \in 1..Len(td) : td[k] = q[f[k]]
               /\ \A j, k \in 1..Len(td) : j < k => f[j] < f[k]
               /\ \A i \in keep : \E k \in 1..Len(td) : f[k] = i
  BY <1>7 DEF Picks
<1>9. PICK l \in Nat : l = Len(td) /\ DOMAIN td = 1..l
  OBVIOUS
<1>10. PICK h \in Nat : DOMAIN q = 1..h
  OBVIOUS
<1>11. \A k \in 1..l : f[k] \in keep /\ f[k] \in 1..h /\ td[k] = q[f[k]]
  BY <1>4, <1>8, <1>9, <1>10
<1>12. \A j, k \in 1..l : f[j] = f[k] => j = k
  BY <1>8, <1>9, <1>11
<1>13. IsInjective(td)
  <2>1. \A i, j \in 1..h : q[i] = q[j] => i = j
    BY <1>1, <1>2, <1>10 DEF IsInjective
  <2>2. \A j, k \in 1..l : td[j] = td[k] => j = k
    BY <1>11, <1>12, <2>1
  <2> QED
    BY <1>9, <2>2 DEF IsInjective
<1>14. ASSUME NEW s \in found PROVE \E k \in DOMAIN td : td[k] = s
  <2>1. PICK i \in DOMAIN q : q[i] = s
    BY <1>2 DEF StreamKeys, Range
  <2>2. i \in keep
    BY <1>3, <1>14, <2>1
  <2>3. PICK k \in 1..l : f[k] = i
    BY <1>8, <1>9, <2>2
  <2> QED
    BY <1>9, <1>11, <2>1, <2>3
<1>15. \A k \in DOMAIN td : td[k] \in found
  BY <1>3, <1>9, <1>11
<1> QED
  BY <1>7, <1>13, <1>14, <1>15 DEF Range

(***************************************************************************)
(* Entries drawn from a stream are in order, and are entries of it.        *)
(***************************************************************************)
LEMMA DrawnRises ==
  ASSUME NEW q \in Seq(StreamEntry), NEW r \in Seq(StreamEntry), Drawn(q, r),
         \A i, j \in DOMAIN q : i < j => compareID(q[i].id, q[j].id)
  PROVE  /\ \A i, j \in DOMAIN r : i < j => compareID(r[i].id, r[j].id)
         /\ \A i \in DOMAIN r : \E k \in DOMAIN q : r[i] = q[k]
<1>1. PICK f \in [1..Len(r) -> 1..Len(q)] :
        /\ \A k \in 1..Len(r) : r[k] = q[f[k]]
        /\ \A j, k \in 1..Len(r) : j < k => f[j] < f[k]
  BY DEF Drawn
<1>2. PICK l \in Nat, h \in Nat : l = Len(r) /\ DOMAIN r = 1..l /\ h = Len(q) /\ DOMAIN q = 1..h
  OBVIOUS
<1>3. \A k \in 1..l : f[k] \in 1..h /\ r[k] = q[f[k]]
  BY <1>1, <1>2
<1>4. \A i, j \in 1..l : i < j => compareID(q[f[i]].id, q[f[j]].id)
  BY <1>1, <1>2, <1>3
<1> QED
  BY <1>2, <1>3, <1>4

(***************************************************************************)
(* What XReadGroupPlan finds, and the delivery that starts with it.        *)
(***************************************************************************)
PlanFound(plan, keys, new) ==
  /\ plan \in [keys -> Seq(StreamEntry)]
  /\ \A s \in keys :
       /\ Drawn(st[s].entries, plan[s])
       /\ plan[s] # <<>> => ~st[s].expired
       /\ (plan[s] # <<>> /\ new) => Begins(st[s], plan[s])
       /\ ~new => \A k \in 1..Len(plan[s]) : plan[s][k].id \in DOMAIN st[s].group.pending

(***************************************************************************)
(* A plan has, for every stream, entries that are there, in their order.   *)
(***************************************************************************)
LEMMA PlanFacts ==
  ASSUME st \in [StreamKeys -> Stored], NEW c, NEW keys \in SUBSET StreamKeys, NEW n \in Nat \ {0},
         NEW new \in BOOLEAN, NEW plan, plan = XReadGroupPlan(c, keys, n, new)
  PROVE  PlanFound(plan, keys, new)
<1>1. \A s \in keys : plan[s] = IF st[s].expired THEN <<>>
                        ELSE FirstOf(IF new THEN Unread(st[s]) ELSE Pending(st[s], c), n)
  BY DEF XReadGroupPlan
<1>2. plan = [s \in keys |-> plan[s]]
  BY DEF XReadGroupPlan
<1> DEFINE P(s) ==
       /\ plan[s] \in Seq(StreamEntry)
       /\ Drawn(st[s].entries, plan[s])
       /\ plan[s] # <<>> => ~st[s].expired
       /\ (plan[s] # <<>> /\ new) => Begins(st[s], plan[s])
       /\ ~new => \A k \in 1..Len(plan[s]) : plan[s][k].id \in DOMAIN st[s].group.pending
<1>3. ASSUME NEW s \in keys PROVE P(s)
  <2>1. PICK x \in Stored : x = st[s]
    OBVIOUS
  <2>2. PICK r : r = plan[s]
    OBVIOUS
  <2>3. CASE x.expired
    <3>0. r = <<>>
      BY <1>1, <2>1, <2>2, <2>3, Zenon
    <3>1. Len(r) = 0 /\ r \in Seq(StreamEntry)
      BY <3>0
    <3>2. PICK f : f = [k \in 1..Len(r) |-> 1]
      OBVIOUS
    <3>3. 1..Len(r) = {}
      BY <3>1
    <3>4. Drawn(x.entries, r)
      <4>1. f \in [1..Len(r) -> 1..Len(x.entries)]
        BY <3>2, <3>3
      <4> QED
        BY <3>3, <4>1 DEF Drawn
    <3> QED
      BY <2>1, <2>2, <3>0, <3>1, <3>3, <3>4
  <2>4. CASE ~x.expired /\ new
    <3>1. r = FirstOf(Unread(x), n)
      BY <1>1, <2>1, <2>2, <2>4
    <3>2. r \in Seq(StreamEntry) /\ Drawn(x.entries, r) /\ Begins(x, r)
      BY <3>1, UnreadPlanned
    <3> QED
      BY <2>1, <2>2, <2>4, <3>2
  <2>5. CASE ~x.expired /\ ~new
    <3>1. r = FirstOf(Pending(x, c), n)
      BY <1>1, <2>1, <2>2, <2>5
    <3>2. /\ r \in Seq(StreamEntry) /\ Drawn(x.entries, r)
          /\ \A k \in 1..Len(r) : r[k].id \in DOMAIN x.group.pending
      BY <3>1, PendingPlanned
    <3> QED
      BY <2>1, <2>2, <2>5, <3>2
  <2> QED
    BY <2>3, <2>4, <2>5
<1> HIDE DEF P
<1>4. plan \in [keys -> Seq(StreamEntry)]
  <2>1. \A s \in keys : plan[s] \in Seq(StreamEntry)
    BY <1>3 DEF P
  <2> QED
    BY <1>2, <2>1
<1> QED
  BY <1>3, <1>4 DEF P, PlanFound

-----------------------------------------------------------------------------
(***************************************************************************)
(* What is in a map of pending entries, and how such maps come about.      *)
(***************************************************************************)
LEMMA PendingMapFacts ==
  /\ <<>> \in PendingMaps /\ DOMAIN <<>> = {}
  /\ \A p \in PendingMaps : DOMAIN p \in SUBSET IDs /\ \A i \in DOMAIN p : p[i] \in Consumers
<1>1. <<>> \in [{} -> Consumers]
  OBVIOUS
<1>2. {} \in SUBSET IDs
  OBVIOUS
<1>3. DOMAIN <<>> = {}
  OBVIOUS
<1>4. <<>> \in PendingMaps
  BY <1>1, <1>2 DEF PendingMaps
<1>5. ASSUME NEW p \in PendingMaps
      PROVE  DOMAIN p \in SUBSET IDs /\ \A i \in DOMAIN p : p[i] \in Consumers
  BY DEF PendingMaps
<1> QED
  BY <1>3, <1>4, <1>5

(***************************************************************************)
(* Taking IDs makes the consumer their owner and leaves the others alone.  *)
(***************************************************************************)
LEMMA TakeFacts ==
  ASSUME NEW p \in PendingMaps, NEW ids \in SUBSET IDs, NEW c \in Consumers
  PROVE  /\ Take(p, ids, c) \in PendingMaps
         /\ DOMAIN Take(p, ids, c) = DOMAIN p \cup ids
         /\ \A i \in DOMAIN p \cup ids : Take(p, ids, c)[i] = IF i \in ids THEN c ELSE p[i]
<1>1. DOMAIN p \in SUBSET IDs /\ \A i \in DOMAIN p : p[i] \in Consumers
  BY PendingMapFacts
<1>2. PICK t : t = Take(p, ids, c)
  OBVIOUS
<1>3. t = [i \in DOMAIN p \cup ids |-> IF i \in ids THEN c ELSE p[i]]
  BY <1>2 DEF Take
<1>4. t \in [DOMAIN p \cup ids -> Consumers]
  BY <1>1, <1>3
<1>5. DOMAIN p \cup ids \in SUBSET IDs
  BY <1>1
<1>6. t \in PendingMaps
  BY <1>4, <1>5 DEF PendingMaps
<1> QED
  BY <1>2, <1>3, <1>6

(***************************************************************************)
(* A pending map without some of its IDs.                                  *)
(***************************************************************************)
LEMMA WithoutFacts ==
  ASSUME NEW p \in PendingMaps, NEW ids, NEW t, t = [i \in DOMAIN p \ ids |-> p[i]]
  PROVE  /\ t \in PendingMaps /\ DOMAIN t = DOMAIN p \ ids
         /\ \A i \in DOMAIN p \ ids : t[i] = p[i]
<1>1. DOMAIN p \in SUBSET IDs /\ \A i \in DOMAIN p : p[i] \in Consumers
  BY PendingMapFacts
<1>2. t \in [DOMAIN p \ ids -> Consumers]
  BY <1>1
<1>3. DOMAIN p \ ids \in SUBSET IDs
  BY <1>1
<1>4. t \in PendingMaps
  BY <1>2, <1>3 DEF PendingMaps
<1> QED
  BY <1>4

(***************************************************************************)
(* The shapes of what is stored.                                           *)
(***************************************************************************)
LEMMA AbsentStored ==
  /\ Nobody \in Groups /\ Absent \in Stored
  /\ Absent.entries = <<>> /\ Absent.group = Nobody /\ Absent.other = FALSE
  /\ Absent.expired = FALSE /\ Absent.made = FALSE
  /\ Nobody.exists = FALSE /\ Nobody.last = Zero /\ DOMAIN Nobody.pending = {}
<1>1. Nobody \in Groups
  BY PendingMapFacts, IDOrder DEF Nobody, Groups
<1>2. <<>> \in Seq(StreamEntry)
  OBVIOUS
<1>3. Absent \in Stored
  BY <1>1, <1>2 DEF Absent, Stored
<1> QED
  BY <1>1, <1>3, PendingMapFacts DEF Absent, Nobody

(***************************************************************************)
(* The fields of what is stored under a key.                               *)
(***************************************************************************)
LEMMA StoredFields ==
  ASSUME NEW x \in Stored
  PROVE  /\ x.made \in BOOLEAN /\ x.other \in BOOLEAN /\ x.expired \in BOOLEAN
         /\ x.entries \in Seq(StreamEntry) /\ x.seq \in Nat /\ x.group \in Groups
         /\ x.group.exists \in BOOLEAN /\ x.group.last \in IDs /\ x.group.pending \in PendingMaps
         /\ DOMAIN x.group.pending \in SUBSET IDs
         /\ \A i \in DOMAIN x.entries : x.entries[i] \in StreamEntry /\ x.entries[i].id \in IDs
                                        /\ x.entries[i].val \in Entries
<1>1. /\ x.made \in BOOLEAN /\ x.other \in BOOLEAN /\ x.expired \in BOOLEAN
      /\ x.entries \in Seq(StreamEntry) /\ x.seq \in Nat /\ x.group \in Groups
  BY DEF Stored
<1>2. PICK g \in Groups : g = x.group
  BY <1>1
<1>3. g.exists \in BOOLEAN /\ g.last \in IDs /\ g.pending \in PendingMaps
  BY DEF Groups
<1>4. DOMAIN g.pending \in SUBSET IDs
  BY <1>3, PendingMapFacts
<1>5. PICK q \in Seq(StreamEntry) : q = x.entries
  BY <1>1
<1>6. \A i \in DOMAIN q : q[i] \in StreamEntry
  OBVIOUS
<1>7. \A i \in DOMAIN q : q[i].id \in IDs /\ q[i].val \in Entries
  BY <1>6 DEF StreamEntry
<1> QED
  BY <1>1, <1>2, <1>3, <1>4, <1>5, <1>6, <1>7

(***************************************************************************)
(* An expired key counts as absent.                                        *)
(***************************************************************************)
LEMMA ExpiredStored ==
  ASSUME NEW x \in Stored
  PROVE  /\ expiredKeyLocked(x) \in Stored
         /\ expiredKeyLocked(x) = Absent \/ (expiredKeyLocked(x) = x /\ ~x.expired)
BY AbsentStored DEF expiredKeyLocked

(***************************************************************************)
(* r is what is left of q when some of its first elements are dropped.     *)
(***************************************************************************)
Rest(q, r) ==
  \E m \in 0..Len(q) : Len(r) = Len(q) - m /\ \A k \in 1..(Len(q) - m) : r[k] = q[m + k]

(***************************************************************************)
(* The entries that are left were there, once and in the same order.       *)
(***************************************************************************)
LEMMA RestFacts ==
  ASSUME NEW q \in Seq(StreamEntry), NEW r \in Seq(StreamEntry), Rest(q, r)
  PROVE  /\ \A k \in DOMAIN r : \E i \in DOMAIN q : r[k] = q[i]
         /\ Vals(r) \subseteq Vals(q)
         /\ (\A i, j \in DOMAIN q : i < j => compareID(q[i].id, q[j].id)) =>
              \A i, j \in DOMAIN r : i < j => compareID(r[i].id, r[j].id)
         /\ (\A i, j \in DOMAIN q : q[i].val = q[j].val => i = j) =>
              \A i, j \in DOMAIN r : r[i].val = r[j].val => i = j
         /\ r # <<>> => q # <<>> /\ r[Len(r)] = q[Len(q)]
<1>1. PICK l \in Nat, h \in Nat : l = Len(r) /\ DOMAIN r = 1..l /\ h = Len(q) /\ DOMAIN q = 1..h
  OBVIOUS
<1>2. PICK m \in 0..h : l = h - m /\ \A k \in 1..(h - m) : r[k] = q[m + k]
  BY <1>1 DEF Rest
<1>3. \A k \in 1..l : m + k \in 1..h /\ r[k] = q[m + k]
  BY <1>1, <1>2
<1>4. \A k \in DOMAIN r : \E i \in DOMAIN q : r[k] = q[i]
  BY <1>1, <1>3
<1>5. ASSUME \A i, j \in DOMAIN q : i < j => compareID(q[i].id, q[j].id),
             NEW i \in 1..l, NEW j \in 1..l, i < j
      PROVE  compareID(r[i].id, r[j].id)
  <2>1. m + i < m + j
    BY <1>2, <1>5
  <2> QED
    BY <1>1, <1>3, <1>5, <2>1
<1>6. ASSUME \A i, j \in DOMAIN q : q[i].val = q[j].val => i = j,
             NEW i \in 1..l, NEW j \in 1..l, r[i].val = r[j].val
      PROVE  i = j
  <2>0. q[m + i].val = q[m + j].val /\ m + i \in DOMAIN q /\ m + j \in DOMAIN q
    BY <1>1, <1>3, <1>6
  <2>1. m + i = m + j
    BY <1>6, <2>0
  <2> QED
    BY <1>2, <2>1
<1>7. ASSUME r # <<>> PROVE q # <<>> /\ r[l] = q[h]
  <2>1. l \in 1..l /\ m + l = h
    BY <1>1, <1>2, <1>7
  <2> QED
    BY <1>1, <1>3, <2>1
<1>8. Vals(r) \subseteq Vals(q)
  BY <1>4 DEF Vals
<1> QED
  BY <1>1, <1>4, <1>5, <1>6, <1>7, <1>8

(***************************************************************************)
(* Nothing dropped, and everything dropped.                                *)
(***************************************************************************)
LEMMA RestSame ==
  ASSUME NEW q \in Seq(StreamEntry)
  PROVE  Rest(q, q) /\ Rest(q, <<>>)
<1>1. PICK h \in Nat : h = Len(q)
  OBVIOUS
<1>2. Rest(q, q)
  <2>1. 0 \in 0..h /\ h = h - 0 /\ \A k \in 1..(h - 0) : q[k] = q[0 + k]
    BY <1>1
  <2> QED
    BY <1>1, <2>1 DEF Rest
<1>3. Rest(q, <<>>)
  <2>1. h \in 0..h /\ 0 = h - h /\ 1..(h - h) = {} /\ Len(<<>>) = 0
    BY <1>1
  <2> QED
    BY <1>1, <2>1 DEF Rest
<1> QED
  BY <1>2, <1>3

(***************************************************************************)
(* The last ID stays when the first entries are dropped, but not all.      *)
(***************************************************************************)
LEMMA RestLast ==
  ASSUME NEW x \in Stored, NEW y \in Stored, Rest(x.entries, y.entries), y.entries # <<>>
  PROVE  lastIDLocked(y) = lastIDLocked(x)
<1>1. PICK q \in Seq(StreamEntry), r \in Seq(StreamEntry) : q = x.entries /\ r = y.entries
  BY DEF Stored
<1>2. q # <<>> /\ r[Len(r)] = q[Len(q)] /\ r # <<>>
  BY <1>1, RestFacts
<1> QED
  BY <1>1, <1>2 DEF lastIDLocked, Last

(***************************************************************************)
(* A new ID comes after the last one.                                      *)
(***************************************************************************)
LEMMA NewIDAfter ==
  ASSUME NEW x \in Stored, NEW arg \in IDArgs, NEW ms \in Millis, Prepared(x, arg),
         lastIDLocked(x) \in IDs
  PROVE  /\ NewID(x, arg, ms) \in IDs /\ NewID(x, arg, ms)[2] \in Nat
         /\ compareID(lastIDLocked(x), NewID(x, arg, ms))
         /\ compareID(Zero, NewID(x, arg, ms))
<1>1. PICK l \in IDs : l = lastIDLocked(x)
  OBVIOUS
<1>2. l[1] \in Nat /\ l[2] \in Nat
  BY DEF IDs
<1>3. PICK id : id = NewID(x, arg, ms)
  OBVIOUS
<1>4. id \in IDs /\ compareID(l, id)
  <2>1. CASE arg # Star
    <3>1. id = arg /\ arg \in ExplicitIDs
      BY <1>3, <2>1 DEF NewID, IDArgs
    <3>2. compareID(l, arg)
      BY <1>1, <2>1 DEF Prepared
    <3> QED
      BY <3>1, <3>2, StreamsAssumption DEF IDs
  <2>2. CASE arg = Star /\ ms <= l[1]
    <3>1. id = <<l[1], l[2] + 1>>
      BY <1>1, <1>3, <2>2 DEF NewID
    <3> QED
      BY <1>2, <3>1 DEF IDs, compareID
  <2>3. CASE arg = Star /\ ~(ms <= l[1])
    <3>1. id = <<ms, x.seq + 1>>
      BY <1>1, <1>3, <2>3 DEF NewID
    <3>2. ms \in Nat /\ x.seq \in Nat
      BY StreamsAssumption, StoredFields
    <3> QED
      BY <1>2, <2>3, <3>1, <3>2 DEF IDs, compareID
  <2> QED
    BY <2>1, <2>2, <2>3
<1>5. compareID(Zero, id)
  <2>1. Zero = l \/ compareID(Zero, l)
    BY <1>1, IDOrder
  <2> QED
    BY <1>4, <2>1, IDOrder
<1>6. id[2] \in Nat
  BY <1>4 DEF IDs
<1> QED
  BY <1>1, <1>3, <1>4, <1>5, <1>6

(***************************************************************************)
(* Appending an entry: y is x with one more, at position n.                *)
(***************************************************************************)
Longer(x, y, n, id, v) ==
  /\ y \in Stored /\ y.group = x.group /\ y.other = x.other /\ y.expired = x.expired
  /\ lastIDLocked(y) = id
  /\ n \in Nat \ {0} /\ DOMAIN y.entries = 1..n /\ DOMAIN x.entries = 1..(n - 1)
  /\ \A i \in 1..(n - 1) : y.entries[i] = x.entries[i] /\ i \in 1..n /\ i # n
  /\ \A i \in 1..n : i = n \/ i \in 1..(n - 1)
  /\ y.entries[n].id = id /\ y.entries[n].val = v

(***************************************************************************)
(* XADD appends one entry and leaves the group alone.                      *)
(***************************************************************************)
LEMMA WithEntryFacts ==
  ASSUME NEW x \in Stored, NEW id \in IDs, NEW v \in Entries
  PROVE  \E n : Longer(x, WithEntry(x, id, v), n, id, v)
<1>0. PICK y : y = WithEntry(x, id, v)
  OBVIOUS
<1>1. PICK q \in Seq(StreamEntry), h \in Nat : q = x.entries /\ h = Len(q) /\ DOMAIN q = 1..h
  BY StoredFields
<1>2. PICK e \in StreamEntry : e = [id |-> id, val |-> v]
  BY DEF StreamEntry
<1>3. PICK a : a = Append(q, e)
  OBVIOUS
<1>4. /\ a \in Seq(StreamEntry) /\ Len(a) = h + 1 /\ DOMAIN a = 1..(h + 1) /\ a[h + 1] = e
      /\ \A i \in 1..h : a[i] = q[i] /\ i # h + 1
  BY <1>1, <1>2, <1>3, AppendProperties
<1>5. y = [x EXCEPT !.made = TRUE, !.seq = id[2], !.entries = a]
  BY <1>0, <1>1, <1>2, <1>3 DEF WithEntry
<1>6. id[2] \in Nat
  BY DEF IDs
<1>7. y \in Stored
  BY <1>4, <1>5, <1>6 DEF Stored
<1>8. y.group = x.group /\ y.other = x.other /\ y.expired = x.expired /\ y.entries = a /\ y.made = TRUE
  BY <1>5 DEF Stored
<1>9. a # <<>> /\ Last(a) = e
  BY <1>4 DEF Last
<1>10. lastIDLocked(y) = id
  BY <1>2, <1>8, <1>9 DEF lastIDLocked
<1>11. PICK n \in Nat \ {0} : n = h + 1 /\ n - 1 = h
  OBVIOUS
<1>12. \A i \in 1..n : i = n \/ i \in 1..(n - 1)
  OBVIOUS
<1>13. Longer(x, y, n, id, v)
  BY <1>1, <1>2, <1>4, <1>7, <1>8, <1>10, <1>11, <1>12 DEF Longer
<1> QED
  BY <1>0, <1>13

-----------------------------------------------------------------------------
(***************************************************************************)
(* A change of what is stored under a key that adds no entry and reads     *)
(* none: entries are dropped from the front, the group stays where it is,  *)
(* goes with the entries, or has fewer entries pending.                    *)
(***************************************************************************)
Quiet(x, y) ==
  /\ Rest(x.entries, y.entries)
  /\ \/ y.entries = <<>> /\ y.group = Nobody
     \/ y.group = x.group
     \/ /\ x.group.exists /\ y.group.exists /\ y.group.last = x.group.last
        /\ DOMAIN y.group.pending \subseteq DOMAIN x.group.pending
  /\ \/ y.other
     \/ y.group = Nobody
     \/ ~x.other /\ lastIDLocked(y) = lastIDLocked(x)

(***************************************************************************)
(* The same, with no entry settled or claimed.                             *)
(***************************************************************************)
Still(x, y) == Quiet(x, y) /\ (y.group = Nobody \/ y.group = x.group)

(***************************************************************************)
(* Deleting a key and leaving it alone are quiet.                          *)
(***************************************************************************)
LEMMA QuietAbsent ==
  ASSUME NEW x \in Stored
  PROVE  Still(x, Absent) /\ Still(x, x)
<1>1. PICK q \in Seq(StreamEntry) : q = x.entries
  BY StoredFields
<1>2. Rest(q, q) /\ Rest(q, <<>>)
  BY RestSame
<1>3. x.other \in BOOLEAN
  BY StoredFields
<1> QED
  BY <1>1, <1>2, <1>3, AbsentStored DEF Still, Quiet

(***************************************************************************)
(* A record that differs from x in fields that do not matter.              *)
(***************************************************************************)
LEMMA QuietFields ==
  ASSUME NEW x \in Stored, NEW y, y.entries = x.entries, y.group = x.group,
         y.other \/ y.other = x.other
  PROVE  Still(x, y)
<1>1. PICK q \in Seq(StreamEntry) : q = x.entries
  BY StoredFields
<1>2. Rest(q, q)
  BY RestSame
<1>3. lastIDLocked(y) = lastIDLocked(x)
  BY DEF lastIDLocked
<1>4. x.other \in BOOLEAN
  BY StoredFields
<1> QED
  BY <1>1, <1>2, <1>3, <1>4 DEF Still, Quiet

(***************************************************************************)
(* NextStreamID stores a sequence number, no entry.                        *)
(***************************************************************************)
LEMMA PreparedQuiet ==
  ASSUME NEW x \in Stored, NEW n \in Nat, NEW y, y = [expiredKeyLocked(x) EXCEPT !.seq = n]
  PROVE  y \in Stored /\ Still(x, y)
<1>1. PICK z \in Stored : z = expiredKeyLocked(x)
  BY ExpiredStored
<1>2. y \in Stored /\ y.entries = z.entries /\ y.group = z.group /\ y.other = z.other
  BY <1>1 DEF Stored
<1>3. CASE z = x
  BY <1>2, <1>3, QuietFields
<1>4. CASE z = Absent
  <2>1. y.entries = <<>> /\ y.group = Nobody
    BY <1>2, <1>4, AbsentStored
  <2>2. PICK q \in Seq(StreamEntry) : q = x.entries
    BY StoredFields
  <2>3. Rest(q, <<>>)
    BY RestSame
  <2> QED
    BY <1>2, <2>1, <2>2, <2>3 DEF Still, Quiet
<1> QED
  BY <1>1, <1>2, <1>3, <1>4, ExpiredStored

(***************************************************************************)
(* Expiry.                                                                 *)
(***************************************************************************)
LEMMA LapseQuiet ==
  ASSUME NEW x \in Stored, NEW y, y = [x EXCEPT !.expired = TRUE]
  PROVE  y \in Stored /\ Still(x, y)
<1>1. y \in Stored /\ y.entries = x.entries /\ y.group = x.group /\ y.other = x.other
  BY DEF Stored
<1> QED
  BY <1>1, QuietFields

(***************************************************************************)
(* SET overwrites the stream and leaves the group behind.                  *)
(***************************************************************************)
LEMMA SetQuiet ==
  ASSUME NEW x \in Stored, NEW y, y = [Absent EXCEPT !.other = TRUE, !.group = x.group]
  PROVE  y \in Stored /\ Still(x, y)
<1>1. Absent \in Stored /\ Absent.entries = <<>> /\ x.group \in Groups
  BY AbsentStored, StoredFields
<1>2. y \in Stored /\ y.entries = <<>> /\ y.group = x.group /\ y.other = TRUE
  BY <1>1 DEF Stored
<1>3. PICK q \in Seq(StreamEntry) : q = x.entries
  BY StoredFields
<1>4. Rest(q, <<>>)
  BY RestSame
<1> QED
  BY <1>2, <1>3, <1>4 DEF Still, Quiet

(***************************************************************************)
(* A group whose pending entries change in value or get fewer.             *)
(***************************************************************************)
WithPending(x, p) == [x EXCEPT !.group.pending = p]

(***************************************************************************)
(* A change of the pending entries.                                        *)
(***************************************************************************)
LEMMA PendingQuiet ==
  ASSUME NEW x \in Stored, x.group.exists, NEW p \in PendingMaps,
         DOMAIN p \subseteq DOMAIN x.group.pending, NEW y, y = WithPending(x, p)
  PROVE  /\ y \in Stored /\ Quiet(x, y)
         /\ y.entries = x.entries /\ y.group.pending = p /\ y.group.last = x.group.last
         /\ y.group.exists /\ y.other = x.other
<1>1. PICK g \in Groups : g = x.group
  BY StoredFields
<1>2. PICK h : h = [g EXCEPT !.pending = p]
  OBVIOUS
<1>3. h \in Groups /\ h.pending = p /\ h.last = g.last /\ h.exists = g.exists
  BY <1>2 DEF Groups
<1>4. y = [x EXCEPT !.group = h]
  BY <1>1, <1>2 DEF WithPending
<1>5. y \in Stored /\ y.entries = x.entries /\ y.group = h /\ y.other = x.other
  BY <1>3, <1>4 DEF Stored
<1>6. PICK q \in Seq(StreamEntry) : q = x.entries
  BY StoredFields
<1>7. Rest(q, q)
  BY RestSame
<1>8. lastIDLocked(y) = lastIDLocked(x)
  BY <1>5 DEF lastIDLocked
<1>9. x.other \in BOOLEAN
  BY StoredFields
<1>10. h.exists
  BY <1>1, <1>3
<1> QED
  BY <1>1, <1>3, <1>5, <1>6, <1>7, <1>8, <1>9, <1>10 DEF Quiet

(***************************************************************************)
(* XTRIM drops entries from the front.                                     *)
(***************************************************************************)
LEMMA TrimQuiet ==
  ASSUME NEW x \in Stored, NEW r \in Seq(StreamEntry), Rest(x.entries, r),
         NEW y, y = [x EXCEPT !.entries = r]
  PROVE  /\ y \in Stored /\ Rest(x.entries, y.entries) /\ y.group = x.group
         /\ r # <<>> => Still(x, y)
<1>1. y \in Stored /\ y.entries = r /\ y.group = x.group /\ y.other = x.other
  BY DEF Stored
<1>2. ASSUME r # <<>> PROVE Still(x, y)
  <2>1. lastIDLocked(y) = lastIDLocked(x)
    BY <1>1, <1>2, RestLast
  <2>2. x.other \in BOOLEAN
    BY StoredFields
  <2> QED
    BY <1>1, <2>1, <2>2 DEF Still, Quiet
<1> QED
  BY <1>1, <1>2

(***************************************************************************)
(* XTRIM keeps the last n entries.                                         *)
(***************************************************************************)
LEMMA SuffixFacts ==
  ASSUME NEW q \in Seq(StreamEntry), NEW n \in Nat, Len(q) > n
  PROVE  LET r == SubSeq(q, Len(q) - n + 1, Len(q)) IN
         r \in Seq(StreamEntry) /\ Rest(q, r) /\ (n # 0 => r # <<>>)
<1>1. PICK h \in Nat : h = Len(q) /\ DOMAIN q = 1..h
  OBVIOUS
<1>2. PICK m \in 0..h : m = h - n
  BY <1>1
<1>3. PICK r : r = SubSeq(q, m + 1, h)
  OBVIOUS
<1>4. m + 1 = Len(q) - n + 1
  BY <1>1, <1>2
<1>5. r = [k \in 1..n |-> q[m + k]]
  BY <1>1, <1>2, <1>3
<1>6. \A k \in 1..n : m + k \in 1..h
  BY <1>1, <1>2
<1>7. \A k \in 1..n : q[m + k] \in StreamEntry
  BY <1>1, <1>6
<1>8. r \in Seq(StreamEntry) /\ Len(r) = n
  BY <1>5, <1>7
<1>9. Rest(q, r)
  <2>1. n = h - m /\ \A k \in 1..n : r[k] = q[m + k]
    BY <1>2, <1>5
  <2> QED
    BY <1>1, <1>8, <2>1 DEF Rest
<1>10. n # 0 => r # <<>>
  BY <1>8
<1> QED
  BY <1>1, <1>3, <1>4, <1>8, <1>9, <1>10

-----------------------------------------------------------------------------
(***************************************************************************)
(* One key is written.                                                     *)
(***************************************************************************)
LEMMA KeyWritten ==
  ASSUME st \in [StreamKeys -> Stored], NEW s \in StreamKeys, NEW y \in Stored,
         st' = [st EXCEPT ![s] = y]
  PROVE  /\ st' \in [StreamKeys -> Stored] /\ st'[s] = y
         /\ \A t \in StreamKeys : t # s => st'[t] = st[t]
OBVIOUS

(***************************************************************************)
(* Streams that only lose entries keep their order, and sleepers still     *)
(* have seen what is in them.                                              *)
(***************************************************************************)
Shrinks ==
  /\ st' \in [StreamKeys -> Stored]
  /\ \A s \in StreamKeys : Rest(st[s].entries, st'[s].entries)

(***************************************************************************)
(* A sleeper that saw all entries has seen all that are left.              *)
(***************************************************************************)
LEMMA ShrinksFacts ==
  ASSUME st \in [StreamKeys -> Stored], IDsRise, Shrinks
  PROVE  IDsRise' /\ \A s \in StreamKeys : Vals(st'[s].entries) \subseteq Vals(st[s].entries)
<1>1. ASSUME NEW s \in StreamKeys
      PROVE  /\ \A i, j \in DOMAIN st'[s].entries :
                  i < j => compareID(st'[s].entries[i].id, st'[s].entries[j].id)
             /\ Vals(st'[s].entries) \subseteq Vals(st[s].entries)
  <2>1. st[s] \in Stored /\ st'[s] \in Stored
    BY DEF Shrinks
  <2>2. PICK q \in Seq(StreamEntry), r \in Seq(StreamEntry) : q = st[s].entries /\ r = st'[s].entries
    BY <2>1, StoredFields
  <2>3. Rest(q, r) /\ \A i, j \in DOMAIN q : i < j => compareID(q[i].id, q[j].id)
    BY <2>2 DEF Shrinks, IDsRise
  <2>4. Vals(r) \subseteq Vals(q) /\ \A i, j \in DOMAIN r : i < j => compareID(r[i].id, r[j].id)
    BY <2>3, RestFacts
  <2> QED
    BY <2>2, <2>4
<1> QED
  BY <1>1 DEF IDsRise

(***************************************************************************)
(* The waiters' part of the invariant, when no entry is added.             *)
(***************************************************************************)
LEMMA WaitersStay ==
  ASSUME st \in [StreamKeys -> Stored], IDsRise, Shrinks, WaitInv, UNCHANGED <<waits, pc, call, seen>>
  PROVE  WaitInv'
<1>1. \A s \in StreamKeys : Vals(st'[s].entries) \subseteq Vals(st[s].entries)
  BY ShrinksFacts
<1>2. CallTypes' /\ (DOMAIN seen = Callers)' /\ NoStaleWaiter'
  BY DEF WaitInv, CallTypes, NoStaleWaiter
<1>3. SleepersSaw'
  BY <1>1 DEF WaitInv, SleepersSaw
<1> QED
  BY <1>2, <1>3 DEF WaitInv

(***************************************************************************)
(* The same for a change of one key.                                       *)
(***************************************************************************)
LEMMA KeyShrinks ==
  ASSUME BaseInv, NEW s \in StreamKeys, NEW y \in Stored, st' = [st EXCEPT ![s] = y],
         Rest(st[s].entries, y.entries)
  PROVE  Shrinks /\ IDsRise'
<1>1. st \in [StreamKeys -> Stored] /\ IDsRise
  BY DEF BaseInv, StoreTypes
<1>2. /\ st' \in [StreamKeys -> Stored] /\ st'[s] = y
      /\ \A t \in StreamKeys : t # s => st'[t] = st[t]
  BY <1>1, KeyWritten
<1>3. ASSUME NEW t \in StreamKeys PROVE Rest(st[t].entries, st'[t].entries)
  <2>1. CASE t = s
    BY <1>2, <2>1
  <2>2. CASE t # s
    <3>1. PICK q \in Seq(StreamEntry) : q = st[t].entries
      BY <1>1, StoredFields
    <3>2. Rest(q, q)
      BY RestSame
    <3> QED
      BY <1>2, <2>2, <3>1, <3>2
  <2> QED
    BY <2>1, <2>2
<1>4. Shrinks
  BY <1>2, <1>3 DEF Shrinks
<1> QED
  BY <1>1, <1>4, ShrinksFacts

(***************************************************************************)
(* What the actions that add nothing write.                                *)
(***************************************************************************)
LEMMA PrepareWrites ==
  ASSUME BaseInv, NEW s \in StreamKeys, NEW arg \in IDArgs, NEW ms \in Millis,
         NextStreamID(s, arg, ms)
  PROVE  \E y \in Stored : st' = [st EXCEPT ![s] = y] /\ Still(st[s], y)
<1>1. PICK x \in Stored : x = st[s]
  BY DEF BaseInv, StoreTypes
<1>2. PICK z \in Stored : z = expiredKeyLocked(x)
  BY ExpiredStored
<1>3. \A i, j \in DOMAIN z.entries : i < j => compareID(z.entries[i].id, z.entries[j].id)
  BY <1>1, <1>2, ExpiredStored, AbsentStored DEF BaseInv, IDsRise
<1>4. lastIDLocked(z) \in IDs
  BY <1>3, LastIsLast
<1>5. Prepared(z, arg)
  BY <1>1, <1>2 DEF NextStreamID
<1>6. PICK n \in Nat : n = NewID(z, arg, ms)[2]
  BY <1>4, <1>5, NewIDAfter
<1>7. PICK y : y = [z EXCEPT !.seq = n]
  OBVIOUS
<1>8. y \in Stored /\ Still(x, y)
  BY <1>2, <1>7, PreparedQuiet
<1>9. st' = [st EXCEPT ![s] = y]
  BY <1>1, <1>2, <1>6, <1>7 DEF NextStreamID
<1> QED
  BY <1>1, <1>8, <1>9

(***************************************************************************)
(* What XACK writes.                                                       *)
(***************************************************************************)
LEMMA AckWrites ==
  ASSUME BaseInv, NEW s \in StreamKeys, NEW ids, XAck(s, ids)
  PROVE  \E y \in Stored : /\ st' = [st EXCEPT ![s] = y] /\ Quiet(st[s], y)
                           /\ y.entries = st[s].entries /\ y.group.last = st[s].group.last
                           /\ y.group.exists /\ y.other = st[s].other
                           /\ DOMAIN y.group.pending = DOMAIN st[s].group.pending \ ids
                           /\ \A i \in DOMAIN y.group.pending : y.group.pending[i] = st[s].group.pending[i]
<1>1. PICK x \in Stored : x = st[s] /\ x.group.exists
  BY DEF BaseInv, StoreTypes, XAck
<1>2. PICK p \in PendingMaps : p = x.group.pending
  BY StoredFields
<1>3. PICK t : t = [i \in DOMAIN p \ ids |-> p[i]]
  OBVIOUS
<1>4. t \in PendingMaps /\ DOMAIN t = DOMAIN p \ ids /\ \A i \in DOMAIN p \ ids : t[i] = p[i]
  BY <1>3, WithoutFacts
<1>5. PICK y : y = WithPending(x, t)
  OBVIOUS
<1>6. DOMAIN t \subseteq DOMAIN x.group.pending
  BY <1>2, <1>4
<1>7. /\ y \in Stored /\ Quiet(x, y)
      /\ y.entries = x.entries /\ y.group.pending = t /\ y.group.last = x.group.last
      /\ y.group.exists /\ y.other = x.other
  BY <1>1, <1>4, <1>5, <1>6, PendingQuiet
<1>8. y = Forget(x, ids)
  BY <1>2, <1>3, <1>5 DEF Forget, WithPending
<1>9. st' = [st EXCEPT ![s] = y]
  BY <1>1, <1>8 DEF XAck
<1> QED
  BY <1>1, <1>2, <1>4, <1>7, <1>9

(***************************************************************************)
(* What XCLAIM and XAUTOCLAIM write.                                       *)
(***************************************************************************)
LEMMA ClaimWrites ==
  ASSUME BaseInv, NEW s \in StreamKeys, NEW c \in Consumers, st[s].group.exists,
         NEW ids \in SUBSET DOMAIN st[s].group.pending, NEW ripe, Claim(s, c, ids, ripe)
  PROVE  \E y \in Stored : /\ st' = [st EXCEPT ![s] = y] /\ Quiet(st[s], y)
                           /\ y.entries = st[s].entries /\ y.group.last = st[s].group.last
                           /\ y.group.exists /\ y.other = st[s].other
                           /\ DOMAIN y.group.pending = DOMAIN st[s].group.pending
                           /\ \A i \in DOMAIN y.group.pending :
                                y.group.pending[i] = IF i \in ids \cap ripe THEN c
                                                     ELSE st[s].group.pending[i]
<1>1. PICK x \in Stored : x = st[s] /\ x.group.exists
  BY DEF BaseInv, StoreTypes
<1>2. PICK p \in PendingMaps : p = x.group.pending /\ DOMAIN p \in SUBSET IDs
  BY StoredFields
<1>3. PICK d \in SUBSET IDs : d = ids \cap ripe /\ d \subseteq DOMAIN p
  BY <1>1, <1>2
<1>4. PICK t : t = Take(p, d, c)
  OBVIOUS
<1>5. /\ t \in PendingMaps /\ DOMAIN t = DOMAIN p \cup d
      /\ \A i \in DOMAIN p \cup d : t[i] = IF i \in d THEN c ELSE p[i]
  BY <1>4, TakeFacts
<1>6. DOMAIN t = DOMAIN p
  BY <1>3, <1>5
<1>7. PICK y : y = WithPending(x, t)
  OBVIOUS
<1>8. DOMAIN t \subseteq DOMAIN x.group.pending
  BY <1>2, <1>6
<1>9. /\ y \in Stored /\ Quiet(x, y)
      /\ y.entries = x.entries /\ y.group.pending = t /\ y.group.last = x.group.last
      /\ y.group.exists /\ y.other = x.other
  BY <1>1, <1>5, <1>7, <1>8, PendingQuiet
<1>10. st' = [st EXCEPT ![s] = y]
  BY <1>1, <1>2, <1>3, <1>4, <1>7 DEF Claim, WithPending
<1> QED
  BY <1>1, <1>2, <1>3, <1>5, <1>6, <1>9, <1>10

(***************************************************************************)
(* What expiry, deletion and SET write.                                    *)
(***************************************************************************)
LEMMA KeyActionWrites ==
  ASSUME BaseInv, NEW s \in StreamKeys,
         Lapse(s) \/ deleteKeyLocked(s) \/ Set(s) \/ st' = [st EXCEPT ![s] = expiredKeyLocked(@)]
  PROVE  \E y \in Stored : st' = [st EXCEPT ![s] = y] /\ Still(st[s], y)
<1>1. PICK x \in Stored : x = st[s]
  BY DEF BaseInv, StoreTypes
<1>2. CASE Lapse(s)
  <2>1. PICK y : y = [x EXCEPT !.expired = TRUE]
    OBVIOUS
  <2>2. y \in Stored /\ Still(x, y)
    BY <2>1, LapseQuiet
  <2>3. st' = [st EXCEPT ![s] = y]
    BY <1>1, <1>2, <2>1 DEF Lapse
  <2> QED
    BY <1>1, <2>2, <2>3
<1>3. CASE deleteKeyLocked(s)
  BY <1>1, <1>3, QuietAbsent, AbsentStored DEF deleteKeyLocked
<1>4. CASE Set(s)
  <2>1. PICK y : y = [Absent EXCEPT !.other = TRUE, !.group = x.group]
    OBVIOUS
  <2>2. y \in Stored /\ Still(x, y)
    BY <2>1, SetQuiet
  <2>3. st' = [st EXCEPT ![s] = y]
    BY <1>1, <1>4, <2>1 DEF Set
  <2> QED
    BY <1>1, <2>2, <2>3
<1>5. CASE st' = [st EXCEPT ![s] = expiredKeyLocked(@)]
  <2>1. PICK y \in Stored : y = expiredKeyLocked(x) /\ (y = Absent \/ y = x)
    BY ExpiredStored
  <2>2. Still(x, y)
    BY <2>1, QuietAbsent
  <2>3. st' = [st EXCEPT ![s] = y]
    BY <1>1, <1>5, <2>1
  <2> QED
    BY <1>1, <2>2, <2>3
<1> QED
  BY <1>2, <1>3, <1>4, <1>5

(***************************************************************************)
(* What XTRIM writes.                                                      *)
(***************************************************************************)
LEMMA TrimWrites ==
  ASSUME BaseInv, NEW s \in StreamKeys, NEW n \in TrimLens, XTrim(s, n)
  PROVE  \E y \in Stored : /\ st' = [st EXCEPT ![s] = y] /\ Rest(st[s].entries, y.entries)
                           /\ n # 0 => Still(st[s], y)
<1>1. PICK x \in Stored : x = st[s]
  BY DEF BaseInv, StoreTypes
<1>2. PICK q \in Seq(StreamEntry) : q = x.entries
  BY StoredFields
<1>3. n \in Nat /\ Len(q) > n
  BY <1>1, <1>2, StreamsAssumption DEF XTrim
<1>4. PICK r \in Seq(StreamEntry) :
        r = SubSeq(q, Len(q) - n + 1, Len(q)) /\ Rest(q, r) /\ (n # 0 => r # <<>>)
  BY <1>3, SuffixFacts
<1>5. PICK y : y = [x EXCEPT !.entries = r]
  OBVIOUS
<1>6. y \in Stored /\ Rest(x.entries, y.entries) /\ (r # <<>> => Still(x, y))
  BY <1>2, <1>4, <1>5, TrimQuiet
<1>7. st' = [st EXCEPT ![s] = y]
  BY <1>1, <1>2, <1>4, <1>5 DEF XTrim
<1> QED
  BY <1>1, <1>4, <1>6, <1>7

(***************************************************************************)
(* What FLUSHDB writes.                                                    *)
(***************************************************************************)
LEMMA FlushWrites ==
  ASSUME BaseInv, FlushDB
  PROVE  /\ st' \in [StreamKeys -> Stored] /\ Shrinks
         /\ \A s \in StreamKeys : st'[s] = Absent /\ Still(st[s], st'[s])
<1>1. st' = [s \in StreamKeys |-> Absent] /\ Absent \in Stored
  BY AbsentStored DEF FlushDB
<1>2. ASSUME NEW s \in StreamKeys PROVE Still(st[s], Absent) /\ Rest(st[s].entries, Absent.entries)
  <2>1. st[s] \in Stored
    BY DEF BaseInv, StoreTypes
  <2> QED
    BY <2>1, QuietAbsent DEF Still, Quiet
<1> QED
  BY <1>1, <1>2 DEF Shrinks

(***************************************************************************)
(* A stream gets one more entry, with an ID after its last one.            *)
(***************************************************************************)
Appends(s, x, id, v) ==
  /\ x \in Stored /\ (x = st[s] \/ x = Absent) /\ id \in IDs /\ v \in Entries
  /\ compareID(lastIDLocked(x), id)
  /\ st' = [st EXCEPT ![s] = WithEntry(x, id, v)]
  /\ WakeAll(s)

(***************************************************************************)
(* An append keeps the order of the IDs and wakes everybody who sleeps.    *)
(***************************************************************************)
LEMMA AppendWrites ==
  ASSUME BaseInv, NEW s \in StreamKeys, NEW x, NEW id, NEW v, Appends(s, x, id, v),
         UNCHANGED <<call, seen>>
  PROVE  st' \in [StreamKeys -> Stored] /\ WaitInv' /\ IDsRise'
<1>1. x \in Stored /\ id \in IDs /\ v \in Entries /\ compareID(lastIDLocked(x), id)
  BY DEF Appends
<1>2. PICK y : y = WithEntry(x, id, v)
  OBVIOUS
<1>3. PICK n : Longer(x, y, n, id, v)
  BY <1>1, <1>2, WithEntryFacts
<1>4. PICK h \in Nat :
      /\ y \in Stored
      /\ DOMAIN y.entries = 1..(h + 1) /\ DOMAIN x.entries = 1..h
      /\ \A i \in 1..h : y.entries[i] = x.entries[i] /\ i # h + 1
      /\ y.entries[h + 1].id = id
  <2>1. PICK h \in Nat : h = n - 1 /\ n = h + 1
    BY <1>3 DEF Longer
  <2> QED
    BY <1>3, <2>1 DEF Longer
<1>5. /\ st' \in [StreamKeys -> Stored] /\ st'[s] = y
      /\ \A t \in StreamKeys : t # s => st'[t] = st[t]
  <2>1. st' = [st EXCEPT ![s] = y] /\ st \in [StreamKeys -> Stored]
    BY <1>2 DEF Appends, BaseInv, StoreTypes
  <2> QED
    BY <1>4, <2>1, KeyWritten
<1>6. \A i, j \in 1..h : i < j => compareID(x.entries[i].id, x.entries[j].id)
  <2>1. CASE x = st[s]
    BY <1>4, <2>1 DEF BaseInv, IDsRise
  <2>2. CASE x = Absent
    BY <1>4, <2>2, AbsentStored
  <2> QED
    BY <2>1, <2>2 DEF Appends
<1>7. \A i \in 1..h : x.entries[i].id \in IDs /\ UpTo(x.entries[i].id, lastIDLocked(x))
  BY <1>1, <1>4, <1>6, LastIsLast, StoredFields
<1>8. lastIDLocked(x) \in IDs
  BY <1>1, <1>4, <1>6, LastIsLast
<1>9. \A i \in 1..h : compareID(x.entries[i].id, id)
  BY <1>1, <1>7, <1>8, IDOrder DEF UpTo
<1>10. \A i, j \in DOMAIN y.entries : i < j => compareID(y.entries[i].id, y.entries[j].id)
  <2> SUFFICES ASSUME NEW i \in 1..(h + 1), NEW j \in 1..(h + 1), i < j
               PROVE  compareID(y.entries[i].id, y.entries[j].id)
    BY <1>4
  <2>1. i \in 1..h
    OBVIOUS
  <2>2. CASE j = h + 1
    BY <1>4, <1>9, <2>1, <2>2
  <2>3. CASE j \in 1..h
    BY <1>4, <1>6, <2>1, <2>3
  <2> QED
    BY <2>2, <2>3
<1>11. IDsRise'
  BY <1>5, <1>10 DEF IDsRise, BaseInv
<1>12. /\ waits' = [waits EXCEPT ![s] = {}]
       /\ pc' = [c \in Callers |-> IF c \in waits[s] /\ pc[c] = "asleep" THEN "awake" ELSE pc[c]]
  BY DEF Appends, WakeAll
<1>13. /\ waits \in [StreamKeys -> SUBSET Callers]
       /\ pc \in [Callers -> {"idle", "gap", "asleep", "awake", "back"}]
       /\ SleepersSaw /\ NoStaleWaiter
  BY DEF BaseInv, WaitInv, CallTypes
<1>14. /\ waits' \in [StreamKeys -> SUBSET Callers] /\ waits'[s] = {}
       /\ \A t \in StreamKeys : t # s => waits'[t] = waits[t]
       /\ pc' \in [Callers -> {"idle", "gap", "asleep", "awake", "back"}]
       /\ \A c \in Callers : /\ pc'[c] = "asleep" => pc[c] = "asleep"
                             /\ pc[c] \in {"asleep", "awake"} => pc'[c] \in {"asleep", "awake"}
  BY <1>12, <1>13
<1>15. CallTypes' /\ (DOMAIN seen = Callers)'
  BY <1>14 DEF BaseInv, WaitInv, CallTypes
<1>16. SleepersSaw'
  <2> SUFFICES ASSUME NEW t \in StreamKeys, NEW c \in waits'[t], pc'[c] = "asleep"
               PROVE  Vals(st'[t].entries) \subseteq seen'[c]
    BY DEF SleepersSaw
  <2>1. t # s /\ c \in waits[t] /\ c \in Callers
    BY <1>13, <1>14
  <2> QED
    BY <1>5, <1>13, <1>14, <2>1 DEF SleepersSaw
<1>17. NoStaleWaiter'
  <2> SUFFICES ASSUME NEW t \in StreamKeys, NEW c \in waits'[t] PROVE pc'[c] \in {"asleep", "awake"}
    BY DEF NoStaleWaiter
  <2>1. t # s /\ c \in waits[t] /\ c \in Callers
    BY <1>13, <1>14
  <2> QED
    BY <1>13, <1>14, <2>1 DEF NoStaleWaiter
<1> QED
  BY <1>5, <1>11, <1>15, <1>16, <1>17 DEF WaitInv

(***************************************************************************)
(* XADD, in its second critical section or from a link, appends.           *)
(***************************************************************************)
LEMMA PreparedAppends ==
  ASSUME BaseInv, busy \in Adding, ~Refused(busy.stream),
         st' = [st EXCEPT ![busy.stream] = WithEntry(@, busy.id, busy.val)], WakeAll(busy.stream)
  PROVE  Appends(busy.stream, st[busy.stream], busy.id, busy.val)
<1>1. busy.stream \in StreamKeys /\ busy.id \in IDs /\ busy.val \in Entries
  BY DEF Adding
<1>2. st[busy.stream] \in Stored /\ st \in [StreamKeys -> Stored]
  BY <1>1 DEF BaseInv, StoreTypes
<1>3. compareID(lastIDLocked(st[busy.stream]), busy.id)
  BY DEF Refused
<1>4. st' = [st EXCEPT ![busy.stream] = WithEntry(st[busy.stream], busy.id, busy.val)]
  BY <1>1, <1>2
<1> QED
  BY <1>1, <1>2, <1>3, <1>4 DEF Appends

(***************************************************************************)
(* XAdd of a link appends with an ID after the last one.                   *)
(***************************************************************************)
LEMMA LinkAppends ==
  ASSUME BaseInv, NEW s \in StreamKeys, NEW arg \in IDArgs, NEW ms \in Millis, XAdd(s, arg, ms)
  PROVE  \E x, id : /\ Appends(s, x, id, added + 1) /\ compareID(Zero, id) /\ ~x.other
                    /\ x = Absent \/ (x = st[s] /\ ~st[s].expired)
                    /\ added' = added + 1 /\ added + 1 \in Entries
<1>1. st[s] \in Stored /\ st \in [StreamKeys -> Stored]
  BY DEF BaseInv, StoreTypes
<1>2. PICK x \in Stored : x = expiredKeyLocked(st[s]) /\ (x = Absent \/ (x = st[s] /\ ~st[s].expired))
  BY <1>1, ExpiredStored
<1>3. \A i, j \in DOMAIN x.entries : i < j => compareID(x.entries[i].id, x.entries[j].id)
  BY <1>2, AbsentStored DEF BaseInv, IDsRise
<1>4. lastIDLocked(x) \in IDs
  BY <1>3, LastIsLast
<1>5. Prepared(x, arg) /\ ~x.other
  BY <1>2 DEF XAdd
<1>6. PICK id \in IDs : /\ id = NewID(x, arg, ms) /\ compareID(lastIDLocked(x), id)
                        /\ compareID(Zero, id)
  BY <1>4, <1>5, NewIDAfter
<1>7. added + 1 \in Entries /\ added' = added + 1
  BY StreamsAssumption DEF XAdd, BaseInv, StoreTypes, Entries
<1>8. st' = [st EXCEPT ![s] = WithEntry(x, id, added + 1)] /\ WakeAll(s)
  BY <1>2, <1>6 DEF XAdd
<1>9. Appends(s, x, id, added + 1)
  BY <1>2, <1>6, <1>7, <1>8 DEF Appends
<1> QED
  BY <1>2, <1>5, <1>6, <1>7, <1>9

(***************************************************************************)
(* A delivery: what the handler has in hand, and what it does to a group.  *)
(***************************************************************************)
LEMMA DeliveringFields ==
  ASSUME busy \in Delivering
  PROVE  /\ busy.op = "deliver" /\ busy.consumer \in Consumers /\ busy.plan \in Plans
         /\ busy.new \in BOOLEAN /\ busy.todo \in Seq(StreamKeys)
         /\ DOMAIN busy.plan \in SUBSET StreamKeys
         /\ \A s \in DOMAIN busy.plan : busy.plan[s] \in Seq(StreamEntry)
         /\ Found(busy.plan) \in SUBSET StreamKeys /\ Found(busy.plan) \subseteq DOMAIN busy.plan
<1>1. /\ busy.op = "deliver" /\ busy.consumer \in Consumers /\ busy.plan \in Plans
      /\ busy.new \in BOOLEAN /\ busy.todo \in Seq(StreamKeys)
  BY DEF Delivering
<1>2. PICK p \in Plans : p = busy.plan
  BY <1>1
<1>3. DOMAIN p \in SUBSET StreamKeys /\ \A s \in DOMAIN p : p[s] \in Seq(StreamEntry)
  BY DEF Plans
<1> QED
  BY <1>1, <1>2, <1>3 DEF Found

(***************************************************************************)
(* XGroupDeliver changes the group only: pending IDs and its last ID.      *)
(***************************************************************************)
LEMMA DeliverFacts ==
  ASSUME NEW x \in Stored, NEW c \in Consumers, NEW q \in Seq(StreamEntry), q # <<>>,
         NEW y, y = XGroupDeliver(x, c, q)
  PROVE  /\ y \in Stored /\ y.entries = x.entries /\ y.other = x.other /\ y.expired = x.expired
         /\ y.made = x.made
         /\ y.group.exists = x.group.exists /\ Last(q).id \in IDs /\ Last(q) = q[Len(q)]
         /\ y.group.last = Later(x.group.last, Last(q).id)
         /\ DOMAIN y.group.pending = DOMAIN x.group.pending \cup ToIDs(q)
         /\ \A i \in DOMAIN y.group.pending :
              y.group.pending[i] = IF i \in ToIDs(q) THEN c ELSE x.group.pending[i]
<1>1. PICK g \in Groups : g = x.group /\ g.last \in IDs /\ g.pending \in PendingMaps
  BY StoredFields
<1>2. \A i \in DOMAIN q : q[i] \in StreamEntry
  OBVIOUS
<1>3. \A i \in DOMAIN q : q[i].id \in IDs
  BY <1>2 DEF StreamEntry
<1>4. ToIDs(q) \in SUBSET IDs
  BY <1>3 DEF ToIDs
<1>5. Len(q) \in DOMAIN q
  OBVIOUS
<1>6. PICK l \in IDs : l = Last(q).id /\ Last(q) = q[Len(q)]
  BY <1>3, <1>5 DEF Last
<1>7. PICK d \in SUBSET IDs : d = ToIDs(q)
  BY <1>4
<1>8. PICK p : p = Take(g.pending, d, c)
  OBVIOUS
<1>9. PICK old \in PendingMaps : old = g.pending
  BY <1>1
<1>10. /\ p \in PendingMaps /\ DOMAIN p = DOMAIN old \cup d
       /\ \A i \in DOMAIN old \cup d : p[i] = IF i \in d THEN c ELSE old[i]
  BY <1>8, <1>9, TakeFacts
<1>11. PICK n \in IDs : n = Later(g.last, l)
  BY <1>1 DEF Later
<1>12. PICK h : h = [[g EXCEPT !.pending = p] EXCEPT !.last = n]
  OBVIOUS
<1>13. h \in Groups /\ h.exists = g.exists /\ h.last = n /\ h.pending = p
  BY <1>10, <1>12 DEF Groups
<1>14. y = [x EXCEPT !.group = h]
  <2>1. y = [[x EXCEPT !.group.pending = p] EXCEPT !.group.last = n]
    BY <1>1, <1>6, <1>7, <1>8, <1>11 DEF XGroupDeliver, Stored, Groups
  <2> QED
    BY <1>1, <1>12, <2>1 DEF Stored
<1>15. /\ y \in Stored /\ y.entries = x.entries /\ y.other = x.other /\ y.expired = x.expired
       /\ y.made = x.made /\ y.group = h
  BY <1>13, <1>14 DEF Stored
<1> QED
  BY <1>1, <1>6, <1>7, <1>9, <1>10, <1>11, <1>13, <1>15

(***************************************************************************)
(* The handler's state at the start of a delivery.                         *)
(***************************************************************************)
LEMMA DeliveryTyped ==
  ASSUME NEW plan \in Plans, NEW c \in Consumers, NEW new \in BOOLEAN,
         NEW b, b = Delivery(c, plan, new)
  PROVE  /\ b \in Delivering /\ b.plan = plan /\ b.consumer = c /\ b.new = new
         /\ IsInjective(b.todo) /\ Range(b.todo) = Found(plan)
<1>1. DOMAIN plan \in SUBSET StreamKeys
  BY DEF Plans
<1>2. PICK found \in SUBSET StreamKeys : found = Found(plan)
  BY <1>1 DEF Found
<1>3. PICK todo :
        todo = Filtered(StreamOrder, {i \in DOMAIN StreamOrder : StreamOrder[i] \in found})
  OBVIOUS
<1>4. todo \in Seq(StreamKeys) /\ IsInjective(todo) /\ Range(todo) = found
  BY <1>3, TodoFacts
<1>5. b = [op |-> "deliver", consumer |-> c, plan |-> plan, new |-> new, todo |-> todo]
  BY <1>2, <1>3 DEF Delivery
<1> QED
  BY <1>2, <1>4, <1>5 DEF Delivering

(***************************************************************************)
(* Types of the histories.                                                 *)
(***************************************************************************)
LEMMA HistoryTypes ==
  ASSUME StoreTypes
  PROVE  /\ \A c \in Consumers \cup {"lost"} : \A es :
              Learned(c, es) \in [Entries -> Consumers \cup {"nobody", "lost"}]
         /\ \A s \in StreamKeys : \A ids : ValsAt(st[s], ids) \subseteq Entries
<1>1. knows \in [Entries -> Consumers \cup {"nobody", "lost"}] /\ st \in [StreamKeys -> Stored]
  BY DEF StoreTypes
<1>2. ASSUME NEW c \in Consumers \cup {"lost"}, NEW es
      PROVE  Learned(c, es) \in [Entries -> Consumers \cup {"nobody", "lost"}]
  BY <1>1 DEF Learned
<1>3. ASSUME NEW s \in StreamKeys, NEW ids PROVE ValsAt(st[s], ids) \subseteq Entries
  <2>1. st[s] \in Stored
    BY <1>1
  <2>2. \A i \in DOMAIN st[s].entries : st[s].entries[i].val \in Entries
    BY <2>1, StoredFields
  <2> QED
    BY <2>2 DEF ValsAt
<1> QED
  BY <1>2, <1>3

(***************************************************************************)
(* Steps that write one key and let no entry in.                           *)
(***************************************************************************)
LEMMA QuietBase ==
  ASSUME BaseInv, NEW s \in StreamKeys, NEW y \in Stored, st' = [st EXCEPT ![s] = y],
         Rest(st[s].entries, y.entries), UNCHANGED <<waits, pc, call, seen>>, HandlerTypes',
         added' \in 0..MaxEntries, lapses' \in 0..MaxLapses, handed' \in [Entries -> Nat],
         crossed' \subseteq Entries, knows' \in [Entries -> Consumers \cup {"nobody", "lost"}]
  PROVE  BaseInv'
<1>1. Shrinks /\ IDsRise'
  BY KeyShrinks
<1>2. st' \in [StreamKeys -> Stored]
  BY <1>1 DEF Shrinks
<1>3. WaitInv'
  BY <1>1, WaitersStay DEF BaseInv, StoreTypes
<1> QED
  BY <1>1, <1>2, <1>3 DEF BaseInv, StoreTypes

(***************************************************************************)
(* The handler's state is told by its op.                                  *)
(***************************************************************************)
LEMMA BusyKinds ==
  ASSUME HandlerTypes
  PROVE  /\ busy.op = "xadd" => busy \in Adding
         /\ busy.op = "deliver" => busy \in Delivering
         /\ busy.op \in {"none", "xadd", "deliver"}
BY DEF HandlerTypes, Free, Adding, Delivering

(***************************************************************************)
(* NextStreamID: types, and an ID after the last one.                      *)
(***************************************************************************)
LEMMA PrepareBase ==
  ASSUME BaseInv, NEW s \in StreamKeys, NEW arg \in IDArgs, NEW ms \in Millis,
         NextStreamID(s, arg, ms)
  PROVE  /\ BaseInv' /\ busy' \in Adding
         /\ busy'.stream = s /\ busy'.val = added + 1
         /\ \E x \in Stored : /\ x = expiredKeyLocked(st[s]) /\ ~x.other
                              /\ compareID(lastIDLocked(x), busy'.id)
                              /\ compareID(Zero, busy'.id)
<1>1. PICK y \in Stored : st' = [st EXCEPT ![s] = y] /\ Still(st[s], y)
  BY PrepareWrites
<1>2. st[s] \in Stored
  BY DEF BaseInv, StoreTypes
<1>3. PICK x \in Stored : x = expiredKeyLocked(st[s]) /\ (x = st[s] \/ x = Absent)
  BY <1>2, ExpiredStored
<1>4. \A i, j \in DOMAIN x.entries : i < j => compareID(x.entries[i].id, x.entries[j].id)
  BY <1>3, AbsentStored DEF BaseInv, IDsRise
<1>5. lastIDLocked(x) \in IDs
  BY <1>4, LastIsLast
<1>6. Prepared(x, arg) /\ ~x.other
  BY <1>3 DEF NextStreamID
<1>7. PICK id \in IDs : /\ id = NewID(x, arg, ms) /\ compareID(lastIDLocked(x), id)
                        /\ compareID(Zero, id)
  BY <1>5, <1>6, NewIDAfter
<1>8. added' = added + 1 /\ added + 1 \in Entries /\ added' \in 0..MaxEntries
  BY StreamsAssumption DEF NextStreamID, BaseInv, StoreTypes, Entries
<1>9. busy' = [op |-> "xadd", stream |-> s, id |-> id, val |-> added + 1]
  BY <1>3, <1>7 DEF NextStreamID
<1>10. busy' \in Adding /\ busy'.stream = s /\ busy'.val = added + 1 /\ busy'.id = id
  BY <1>8, <1>9 DEF Adding
<1>11. Rest(st[s].entries, y.entries)
  BY <1>1 DEF Still, Quiet
<1>12. BaseInv'
  <2>1. HandlerTypes'
    BY <1>10 DEF HandlerTypes
  <2>2. UNCHANGED <<waits, pc, call, seen, lapses, handed, crossed, knows>>
    BY DEF NextStreamID, callVars, histVars
  <2> QED
    BY <1>1, <1>8, <1>11, <2>1, <2>2, QuietBase DEF BaseInv, StoreTypes
<1> QED
  BY <1>3, <1>6, <1>7, <1>10, <1>12

(***************************************************************************)
(* The second half of XADD, refused or not.                                *)
(***************************************************************************)
LEMMA FreeTyped ==
  ASSUME busy' = Free
  PROVE  HandlerTypes'
BY DEF HandlerTypes

(***************************************************************************)
(* XAddPrepared, whether it refuses or appends.                            *)
(***************************************************************************)
LEMMA AddBase ==
  ASSUME BaseInv, XAddPrepared
  PROVE  BaseInv' /\ busy \in Adding /\ busy.stream \in StreamKeys
<1>1. busy \in Adding /\ busy.stream \in StreamKeys
  BY BusyKinds DEF BaseInv, XAddPrepared, Adding
<1>2. PICK s \in StreamKeys : s = busy.stream
  BY <1>1
<1>3. HandlerTypes' /\ UNCHANGED <<call, seen, added, lapses, handed, knows, crossed>>
  BY FreeTyped DEF XAddPrepared, histVars
<1>4. CASE st' = [st EXCEPT ![s] = expiredKeyLocked(@)] /\ UNCHANGED <<waits, pc>>
  <2>1. PICK y \in Stored : st' = [st EXCEPT ![s] = y] /\ Still(st[s], y)
    BY <1>4, KeyActionWrites
  <2>2. Rest(st[s].entries, y.entries)
    BY <2>1 DEF Still, Quiet
  <2> QED
    BY <1>1, <1>3, <1>4, <2>1, <2>2, QuietBase DEF BaseInv, StoreTypes
<1>5. CASE /\ ~Refused(s) /\ st' = [st EXCEPT ![s] = WithEntry(@, busy.id, busy.val)]
           /\ WakeAll(s)
  <2>1. Appends(s, st[s], busy.id, busy.val)
    BY <1>1, <1>2, <1>5, PreparedAppends
  <2>2. PICK x, id, v : Appends(s, x, id, v)
    BY <2>1
  <2>3. st' \in [StreamKeys -> Stored] /\ WaitInv' /\ IDsRise'
    BY <1>3, <2>2, AppendWrites
  <2> QED
    BY <1>1, <1>3, <2>3 DEF BaseInv, StoreTypes
<1> QED
  BY <1>2, <1>4, <1>5 DEF XAddPrepared

(***************************************************************************)
(* XAdd of a link.                                                         *)
(***************************************************************************)
LEMMA LinkBase ==
  ASSUME BaseInv, NEW s \in StreamKeys, NEW arg \in IDArgs, NEW ms \in Millis, XAdd(s, arg, ms)
  PROVE  BaseInv'
<1>1. PICK x, id : Appends(s, x, id, added + 1) /\ added' = added + 1 /\ added + 1 \in Entries
  BY LinkAppends
<1>2. UNCHANGED <<busy, call, lapses, seen, handed, knows, crossed>>
  BY DEF XAdd, histVars
<1>3. PICK v : v = added + 1
  OBVIOUS
<1>4. st' \in [StreamKeys -> Stored] /\ WaitInv' /\ IDsRise'
  BY <1>1, <1>2, <1>3, AppendWrites
<1>5. HandlerTypes'
  BY <1>2 DEF BaseInv, HandlerTypes
<1>6. added' \in 0..MaxEntries
  BY <1>1, StreamsAssumption DEF Entries
<1> QED
  BY <1>2, <1>4, <1>5, <1>6 DEF BaseInv, StoreTypes

(***************************************************************************)
(* XGROUP CREATE puts a new group into the stream, at its end or at its    *)
(* beginning.                                                              *)
(***************************************************************************)
LEMMA CreateWrites ==
  ASSUME BaseInv, NEW s \in StreamKeys, NEW start, NEW mkstream, XGroupCreate(s, start, mkstream)
  PROVE  \E x \in Stored, y \in Stored :
           /\ x = Absent \/ x = st[s]
           /\ ~x.other /\ ~x.group.exists
           /\ st' = [st EXCEPT ![s] = y]
           /\ y.entries = x.entries /\ y.other = x.other
           /\ y.group.exists /\ DOMAIN y.group.pending = {}
           /\ y.group.last = Zero \/ y.group.last = lastIDLocked(x)
<1>1. st[s] \in Stored /\ st \in [StreamKeys -> Stored]
  BY DEF BaseInv, StoreTypes
<1>2. PICK x \in Stored : x = expiredKeyLocked(st[s]) /\ (x = st[s] \/ x = Absent)
  BY <1>1, ExpiredStored
<1>3. \A i, j \in DOMAIN x.entries : i < j => compareID(x.entries[i].id, x.entries[j].id)
  BY <1>2, AbsentStored DEF BaseInv, IDsRise
<1>4. PICK l \in IDs : l = IF start = "$" THEN lastIDLocked(x) ELSE Zero
  BY <1>3, LastIsLast, IDOrder
<1>5. PICK g : g = [exists |-> TRUE, pending |-> <<>>, last |-> l]
  OBVIOUS
<1>6. g \in Groups /\ g.exists = TRUE /\ g.last = l /\ g.pending = <<>>
  BY <1>5, PendingMapFacts DEF Groups
<1>7. PICK y : y = [x EXCEPT !.group = g]
  OBVIOUS
<1>8. y \in Stored /\ y.entries = x.entries /\ y.other = x.other /\ y.group = g
  BY <1>6, <1>7 DEF Stored
<1>9. st' = [st EXCEPT ![s] = y] /\ ~x.other /\ ~x.group.exists
  BY <1>2, <1>4, <1>5, <1>7 DEF XGroupCreate
<1> QED
  BY <1>2, <1>4, <1>6, <1>8, <1>9, PendingMapFacts

(***************************************************************************)
(* XGROUP CREATE.                                                          *)
(***************************************************************************)
LEMMA CreateBase ==
  ASSUME BaseInv, NEW s \in StreamKeys, NEW start, NEW mkstream, XGroupCreate(s, start, mkstream)
  PROVE  BaseInv'
<1>1. PICK x \in Stored, y \in Stored :
           /\ x = Absent \/ x = st[s]
           /\ st' = [st EXCEPT ![s] = y] /\ y.entries = x.entries
  BY CreateWrites
<1>2. st[s] \in Stored
  BY DEF BaseInv, StoreTypes
<1>3. Rest(st[s].entries, y.entries)
  BY <1>1, <1>2, QuietAbsent DEF Still, Quiet
<1>4. UNCHANGED <<busy, waits, pc, call, added, lapses, seen, handed, knows, crossed>>
  BY DEF XGroupCreate, histVars, callVars
<1>5. HandlerTypes'
  BY <1>4 DEF BaseInv, HandlerTypes
<1> QED
  BY <1>1, <1>3, <1>4, <1>5, QuietBase DEF BaseInv, StoreTypes

(***************************************************************************)
(* Acknowledgements, claims, trimming and the writes of the keyspace.      *)
(***************************************************************************)
LEMMA AckBase ==
  ASSUME BaseInv, NEW s \in StreamKeys, NEW ids, XAckHandler(s, ids) \/ PeerXAck(s, ids)
  PROVE  BaseInv'
<1>1. XAck(s, ids)
  BY DEF XAckHandler, PeerXAck
<1>2. PICK y \in Stored : st' = [st EXCEPT ![s] = y] /\ Quiet(st[s], y)
  BY <1>1, AckWrites
<1>3. Rest(st[s].entries, y.entries)
  BY <1>2 DEF Quiet
<1>4. UNCHANGED <<busy, waits, pc, call, added, seen, handed, knows>>
  BY <1>1 DEF XAck, callVars
<1>5. HandlerTypes'
  BY <1>4 DEF BaseInv, HandlerTypes
<1>6. crossed' \subseteq Entries /\ lapses' \in 0..MaxLapses
  <2>1. CASE XAckHandler(s, ids)
    BY <2>1 DEF XAckHandler, BaseInv, StoreTypes
  <2>2. CASE PeerXAck(s, ids)
    <3>1. ValsAt(st[s], ids \cap Rereading(s)) \subseteq Entries
      BY HistoryTypes DEF BaseInv
    <3>2. lapses \in 0..MaxLapses /\ MaxLapses \in Nat /\ crossed \subseteq Entries
      BY StreamsAssumption DEF BaseInv, StoreTypes
    <3>3. lapses < MaxLapses /\ lapses' = lapses + 1
      BY <2>2 DEF PeerXAck
    <3>4. lapses' \in 0..MaxLapses
      BY <3>2, <3>3
    <3> QED
      BY <2>2, <3>1, <3>2, <3>4 DEF PeerXAck
  <2> QED
    BY <2>1, <2>2
<1> QED
  BY <1>2, <1>3, <1>4, <1>5, <1>6, QuietBase DEF BaseInv, StoreTypes

(***************************************************************************)
(* A claim, of given entries or of the next ones in turn.                  *)
(***************************************************************************)
Claims(s, c) ==
  /\ busy = Free /\ st[s].group.exists
  /\ \E ids \in SUBSET DOMAIN st[s].group.pending : \E ripe : Claim(s, c, ids, ripe)
  /\ UNCHANGED <<busy, callVars, added, lapses, handed, seen, crossed>>

(***************************************************************************)
(* XCLAIM and XAUTOCLAIM claim pending IDs.                                *)
(***************************************************************************)
LEMMA BothClaim ==
  ASSUME BaseInv, NEW s \in StreamKeys, NEW c \in Consumers, NEW ripe,
         \/ \E ids \in Pendings(s) : XClaim(s, c, ids, ripe)
         \/ \E start \in DOMAIN st[s].group.pending, n \in Counts : XAutoClaim(s, c, start, n, ripe)
  PROVE  Claims(s, c)
<1>1. ASSUME NEW ids \in Pendings(s), XClaim(s, c, ids, ripe) PROVE Claims(s, c)
  BY <1>1 DEF Claims, XClaim, Pendings
<1>2. ASSUME NEW start, NEW n, XAutoClaim(s, c, start, n, ripe) PROVE Claims(s, c)
  <2>1. PICK ids : ids = Visited(st[s], start, n, ripe)
    OBVIOUS
  <2>2. ids \in SUBSET DOMAIN st[s].group.pending
    BY <2>1 DEF Visited
  <2> QED
    BY <1>2, <2>1, <2>2 DEF Claims, XAutoClaim
<1> QED
  BY <1>1, <1>2

(***************************************************************************)
(* XCLAIM and XAUTOCLAIM.                                                  *)
(***************************************************************************)
LEMMA ClaimBase ==
  ASSUME BaseInv, NEW s \in StreamKeys, NEW c \in Consumers, Claims(s, c)
  PROVE  BaseInv'
<1>1. PICK ids, ripe : ids \in SUBSET DOMAIN st[s].group.pending /\ Claim(s, c, ids, ripe)
  BY DEF Claims
<1>2. PICK y \in Stored : st' = [st EXCEPT ![s] = y] /\ Quiet(st[s], y)
  BY <1>1, ClaimWrites DEF Claims
<1>3. Rest(st[s].entries, y.entries)
  BY <1>2 DEF Quiet
<1>4. UNCHANGED <<busy, waits, pc, call, added, lapses, seen, handed, crossed>>
  BY DEF Claims, callVars
<1>5. HandlerTypes'
  BY <1>4 DEF BaseInv, HandlerTypes
<1>6. knows' \in [Entries -> Consumers \cup {"nobody", "lost"}]
  <2>1. PICK es : es = ValsAt(st[s], ids \cap ripe)
    OBVIOUS
  <2>2. knows' = Learned(c, es)
    BY <1>1, <2>1 DEF Claim
  <2> QED
    BY <2>2, HistoryTypes DEF BaseInv
<1> QED
  BY <1>2, <1>3, <1>4, <1>5, <1>6, QuietBase DEF BaseInv, StoreTypes

(***************************************************************************)
(* XTRIM.                                                                  *)
(***************************************************************************)
LEMMA TrimBase ==
  ASSUME BaseInv, NEW s \in StreamKeys, NEW n \in TrimLens, XTrim(s, n)
  PROVE  BaseInv'
<1>1. PICK y \in Stored : st' = [st EXCEPT ![s] = y] /\ Rest(st[s].entries, y.entries)
  BY TrimWrites
<1>2. UNCHANGED <<busy, waits, pc, call, added, lapses, seen, handed, knows, crossed>>
  BY DEF XTrim, callVars, histVars
<1>3. HandlerTypes'
  BY <1>2 DEF BaseInv, HandlerTypes
<1> QED
  BY <1>1, <1>2, <1>3, QuietBase DEF BaseInv, StoreTypes

(***************************************************************************)
(* Expiry, deletion and SET.                                               *)
(***************************************************************************)
LEMMA KeyBase ==
  ASSUME BaseInv, NEW s \in StreamKeys, Lapse(s) \/ deleteKeyLocked(s) \/ Set(s)
  PROVE  BaseInv'
<1>1. PICK y \in Stored : st' = [st EXCEPT ![s] = y] /\ Still(st[s], y)
  BY KeyActionWrites
<1>2. Rest(st[s].entries, y.entries)
  BY <1>1 DEF Still, Quiet
<1>3. UNCHANGED <<busy, waits, pc, call, added, seen, handed, knows, crossed>>
  BY DEF Lapse, deleteKeyLocked, Set, callVars, histVars
<1>4. HandlerTypes'
  BY <1>3 DEF BaseInv, HandlerTypes
<1>5. lapses' \in 0..MaxLapses
  <2>1. lapses \in 0..MaxLapses /\ MaxLapses \in Nat
    BY StreamsAssumption DEF BaseInv, StoreTypes
  <2>2. lapses' = lapses \/ (lapses < MaxLapses /\ lapses' = lapses + 1)
    BY DEF Lapse, deleteKeyLocked, Set
  <2> QED
    BY <2>1, <2>2
<1> QED
  BY <1>1, <1>2, <1>3, <1>4, <1>5, QuietBase DEF BaseInv, StoreTypes

(***************************************************************************)
(* FLUSHDB, which drops the waiters too.                                   *)
(***************************************************************************)
LEMMA FlushBase ==
  ASSUME BaseInv, FlushDB
  PROVE  BaseInv'
<1>1. st' \in [StreamKeys -> Stored] /\ Shrinks
  BY FlushWrites
<1>2. st \in [StreamKeys -> Stored] /\ IDsRise /\ WaitInv
  BY DEF BaseInv, StoreTypes
<1>3. IDsRise'
  BY <1>1, <1>2, ShrinksFacts
<1>4. UNCHANGED <<busy, pc, call, added, seen, handed, knows, crossed>>
  BY DEF FlushDB, histVars
<1>5. waits' = [s \in StreamKeys |-> {}]
  BY DEF FlushDB
<1>6. WaitInv'
  BY <1>2, <1>4, <1>5 DEF WaitInv, CallTypes, SleepersSaw, NoStaleWaiter
<1>7. lapses' \in 0..MaxLapses
  BY StreamsAssumption DEF FlushDB, BaseInv, StoreTypes
<1>8. HandlerTypes'
  BY <1>4 DEF BaseInv, HandlerTypes
<1> QED
  BY <1>1, <1>3, <1>4, <1>6, <1>7, <1>8 DEF BaseInv, StoreTypes

(***************************************************************************)
(* Deliveries.                                                             *)
(***************************************************************************)
LEMMA PlanTyped ==
  ASSUME BaseInv, NEW c \in Consumers, NEW keys \in SUBSET StreamKeys, NEW n \in Nat \ {0},
         NEW new \in BOOLEAN, NEW plan, plan = XReadGroupPlan(c, keys, n, new)
  PROVE  PlanFound(plan, keys, new) /\ plan \in Plans
<1>1. PlanFound(plan, keys, new)
  BY PlanFacts DEF BaseInv, StoreTypes
<1>2. plan \in [keys -> Seq(StreamEntry)]
  BY <1>1 DEF PlanFound
<1> QED
  BY <1>1, <1>2 DEF Plans

(***************************************************************************)
(* XREADGROUP that found something.                                        *)
(***************************************************************************)
LEMMA ReadBase ==
  ASSUME BaseInv, NEW c \in Consumers, NEW a \in ReadArgs, NEW new \in BOOLEAN,
         XReadGroup(c, a.streams, a.count, new)
  PROVE  BaseInv'
<1>1. PICK keys \in SUBSET StreamKeys, n \in Nat \ {0} : keys = a.streams /\ n = a.count
  BY StreamsAssumption DEF StreamKeys
<1>2. PICK plan : plan = XReadGroupPlan(c, keys, n, new)
  OBVIOUS
<1>3. busy' = Delivery(c, plan, new)
  BY <1>1, <1>2 DEF XReadGroup
<1>4. busy' \in Delivering
  <2>1. plan \in Plans
    BY <1>2, PlanTyped
  <2> QED
    BY <1>3, <2>1, DeliveryTyped
<1>5. UNCHANGED <<st, waits, pc, call, added, lapses, seen, handed, knows, crossed>>
  BY DEF XReadGroup, callVars, histVars
<1> QED
  BY <1>4, <1>5 DEF BaseInv, StoreTypes, HandlerTypes, WaitInv, CallTypes, SleepersSaw,
                    NoStaleWaiter, IDsRise

(***************************************************************************)
(* XREADGROUP after its wait.                                              *)
(***************************************************************************)
LEMMA ResumeBase ==
  ASSUME BaseInv, NEW c \in Callers, XReadGroupResumes(c)
  PROVE  BaseInv'
<1>1. PICK keys \in SUBSET StreamKeys, n \in Nat \ {0} : keys = call[c].streams /\ n = call[c].count
  BY DEF BaseInv, WaitInv, CallTypes
<1>2. PICK plan : plan = XReadGroupPlan(c, keys, n, TRUE)
  OBVIOUS
<1>3. busy' = Free \/ busy' = Delivery(c, plan, TRUE)
  BY <1>1, <1>2 DEF XReadGroupResumes
<1>4. c \in Consumers
  BY StreamsAssumption
<1>5. HandlerTypes'
  <2>1. PICK new \in BOOLEAN : new = TRUE
    OBVIOUS
  <2>2. plan = XReadGroupPlan(c, keys, n, new) /\ (busy' = Free \/ busy' = Delivery(c, plan, new))
    BY <1>2, <1>3, <2>1, Zenon
  <2>3. PICK b : b = Delivery(c, plan, new)
    OBVIOUS
  <2>4. b \in Delivering
    <3>1. plan \in Plans
      BY <1>4, <2>2, PlanTyped
    <3> QED
      BY <1>4, <2>3, <3>1, DeliveryTyped
  <2>5. busy' = Free \/ busy' \in Delivering
    BY <2>2, <2>3, <2>4
  <2> QED
    BY <2>5 DEF HandlerTypes
<1>6. UNCHANGED <<st, waits, added, lapses, seen, handed, knows, crossed>>
  BY DEF XReadGroupResumes, callVars, histVars
<1>7. /\ pc' = [pc EXCEPT ![c] = "idle"] /\ call' = [call EXCEPT ![c] = NoCall]
      /\ pc[c] = "back"
  BY DEF XReadGroupResumes
<1>8. StoreTypes' /\ IDsRise'
  BY <1>6 DEF BaseInv, StoreTypes, IDsRise
<1>9. CallTypes'
  <2>1. NoCall.streams \subseteq StreamKeys /\ NoCall.count \in Nat \ {0}
    BY DEF NoCall
  <2>2. PICK k : k = NoCall
    OBVIOUS
  <2> QED
    BY <1>6, <1>7, <2>1, <2>2 DEF BaseInv, WaitInv, CallTypes
<1>10. \A d \in Callers : d # c => pc'[d] = pc[d]
  BY <1>7 DEF BaseInv, WaitInv, CallTypes
<1>11. \A s \in StreamKeys : waits[s] \subseteq Callers /\ c \notin waits[s]
  BY <1>7 DEF BaseInv, WaitInv, CallTypes, NoStaleWaiter
<1>12. SleepersSaw' /\ NoStaleWaiter'
  BY <1>6, <1>10, <1>11 DEF BaseInv, WaitInv, SleepersSaw, NoStaleWaiter
<1> QED
  BY <1>5, <1>6, <1>8, <1>9, <1>12 DEF BaseInv, WaitInv

(***************************************************************************)
(* The steps of a caller that change neither the store nor the handler.    *)
(***************************************************************************)
LEMMA CallBase ==
  ASSUME BaseInv, NEW c \in Callers,
         \/ \E a \in ReadArgs : XReadGroupBlocks(c, a.streams, a.count)
         \/ \E keys \in XReadKeys : XReadBlocks(c, keys)
         \/ XReadReturns(c)
  PROVE  BaseInv'
<1>1. \E new, k : /\ pc' = [pc EXCEPT ![c] = new] /\ new \in {"gap", "idle"}
                  /\ call' = [call EXCEPT ![c] = k]
                  /\ k.streams \subseteq StreamKeys /\ k.count \in Nat \ {0}
  <2>1. ASSUME NEW a \in ReadArgs, XReadGroupBlocks(c, a.streams, a.count)
        PROVE  \E k : /\ pc' = [pc EXCEPT ![c] = "gap"] /\ call' = [call EXCEPT ![c] = k]
                      /\ k.streams \subseteq StreamKeys /\ k.count \in Nat \ {0}
    <3>1. a.streams \in SUBSET StreamKeys /\ a.count \in Nat \ {0}
      BY StreamsAssumption DEF StreamKeys
    <3>2. PICK k : k = [group |-> TRUE, streams |-> a.streams, count |-> a.count, after |-> <<>>]
      OBVIOUS
    <3>3. k.streams = a.streams /\ k.count = a.count
      BY <3>2
    <3>4. pc' = [pc EXCEPT ![c] = "gap"] /\ call' = [call EXCEPT ![c] = k]
      BY <2>1, <3>2 DEF XReadGroupBlocks
    <3> QED
      BY <3>1, <3>3, <3>4
  <2>2. ASSUME NEW keys \in XReadKeys, XReadBlocks(c, keys)
        PROVE  \E k : /\ pc' = [pc EXCEPT ![c] = "gap"] /\ call' = [call EXCEPT ![c] = k]
                      /\ k.streams \subseteq StreamKeys /\ k.count \in Nat \ {0}
    <3>1. keys \subseteq StreamKeys
      BY StreamsAssumption DEF StreamKeys
    <3>2. PICK k : k = [group |-> FALSE, streams |-> keys, count |-> 1,
                        after |-> [s \in keys |-> LastID(s)]]
      OBVIOUS
    <3>3. k.streams = keys /\ k.count \in Nat \ {0}
      BY <3>2
    <3>4. pc' = [pc EXCEPT ![c] = "gap"] /\ call' = [call EXCEPT ![c] = k]
      BY <2>2, <3>2 DEF XReadBlocks
    <3> QED
      BY <3>1, <3>3, <3>4
  <2>3. CASE XReadReturns(c)
    <3>1. PICK k : k = NoCall
      OBVIOUS
    <3>2. k.streams \subseteq StreamKeys /\ k.count \in Nat \ {0}
      BY <3>1 DEF NoCall
    <3>3. pc' = [pc EXCEPT ![c] = "idle"] /\ call' = [call EXCEPT ![c] = k]
      BY <2>3, <3>1 DEF XReadReturns
    <3> QED
      BY <3>2, <3>3
  <2> QED
    BY <2>1, <2>2, <2>3
<1>2. PICK new, k : /\ pc' = [pc EXCEPT ![c] = new] /\ new \in {"gap", "idle"}
                    /\ call' = [call EXCEPT ![c] = k]
                    /\ k.streams \subseteq StreamKeys /\ k.count \in Nat \ {0}
  BY <1>1
<1>3. pc[c] \in {"idle", "back"}
  BY DEF XReadGroupBlocks, XReadBlocks, XReadReturns
<1>4. UNCHANGED <<st, busy, waits, added, lapses, seen, handed, knows, crossed>>
  BY DEF XReadGroupBlocks, XReadBlocks, XReadReturns, callVars, histVars
<1>5. StoreTypes' /\ IDsRise' /\ HandlerTypes'
  BY <1>4 DEF BaseInv, StoreTypes, IDsRise, HandlerTypes
<1>6. CallTypes'
  BY <1>2, <1>4 DEF BaseInv, WaitInv, CallTypes
<1>7. \A d \in Callers : d # c => pc'[d] = pc[d]
  BY <1>2 DEF BaseInv, WaitInv, CallTypes
<1>8. \A s \in StreamKeys : waits[s] \subseteq Callers /\ c \notin waits[s]
  BY <1>3 DEF BaseInv, WaitInv, CallTypes, NoStaleWaiter
<1>9. SleepersSaw' /\ NoStaleWaiter'
  BY <1>4, <1>7, <1>8 DEF BaseInv, WaitInv, SleepersSaw, NoStaleWaiter
<1> QED
  BY <1>4, <1>5, <1>6, <1>9 DEF BaseInv, WaitInv

(***************************************************************************)
(* Registering a waiter and removing it.                                   *)
(***************************************************************************)
LEMMA WaitBase ==
  ASSUME BaseInv, NEW c \in Callers, Wait(c) \/ removeWaiter(c)
  PROVE  BaseInv'
<1>1. UNCHANGED <<st, busy, call, added, lapses, handed, knows, crossed>>
  BY DEF Wait, removeWaiter
<1>2. StoreTypes' /\ IDsRise' /\ HandlerTypes'
  BY <1>1 DEF BaseInv, StoreTypes, IDsRise, HandlerTypes
<1>3. /\ CallTypes /\ DOMAIN seen = Callers /\ SleepersSaw /\ NoStaleWaiter
      /\ waits \in [StreamKeys -> SUBSET Callers]
      /\ pc \in [Callers -> {"idle", "gap", "asleep", "awake", "back"}]
  BY DEF BaseInv, WaitInv, CallTypes
<1>4. CASE Wait(c)
  <2>1. /\ pc[c] = "gap" /\ pc' = [pc EXCEPT ![c] = "asleep"]
        /\ waits' = [s \in StreamKeys |-> IF s \in call[c].streams THEN waits[s] \cup {c}
                                    ELSE waits[s]]
        /\ seen' = [seen EXCEPT ![c] = UNION {Vals(st[s].entries) : s \in call[c].streams}]
    BY <1>4 DEF Wait
  <2>2. CallTypes' /\ (DOMAIN seen = Callers)'
    BY <1>1, <1>3, <2>1 DEF CallTypes
  <2>3. \A d \in Callers : d # c => pc'[d] = pc[d] /\ seen'[d] = seen[d]
    BY <1>3, <2>1
  <2>4. pc'[c] = "asleep" /\ \A s \in call[c].streams : Vals(st[s].entries) \subseteq seen'[c]
    BY <1>3, <2>1
  <2>5. \A s \in StreamKeys : c \notin waits[s]
    BY <1>3, <2>1 DEF NoStaleWaiter
  <2>6. \A s \in StreamKeys : /\ c \in waits'[s] => s \in call[c].streams
                              /\ \A d \in waits'[s] : d # c => d \in waits[s] /\ d \in Callers
    BY <1>3, <2>1, <2>5
  <2>7. SleepersSaw'
    BY <1>1, <1>3, <2>3, <2>4, <2>6 DEF SleepersSaw
  <2>8. NoStaleWaiter'
    BY <1>1, <1>3, <2>3, <2>4, <2>6 DEF NoStaleWaiter
  <2> QED
    BY <1>2, <2>2, <2>7, <2>8 DEF BaseInv, WaitInv
<1>5. CASE removeWaiter(c)
  <2>1. /\ pc' = [pc EXCEPT ![c] = "back"]
        /\ waits' = [s \in StreamKeys |-> waits[s] \ {c}]
        /\ seen' = [seen EXCEPT ![c] = {}]
    BY <1>5 DEF removeWaiter
  <2>2. CallTypes' /\ (DOMAIN seen = Callers)'
    BY <1>1, <1>3, <2>1 DEF CallTypes
  <2>3. \A d \in Callers : d # c => pc'[d] = pc[d] /\ seen'[d] = seen[d]
    BY <1>3, <2>1
  <2>4. \A s \in StreamKeys : \A d \in waits'[s] : d # c /\ d \in waits[s] /\ d \in Callers
    BY <1>3, <2>1
  <2>5. SleepersSaw'
    BY <1>1, <1>3, <2>3, <2>4 DEF SleepersSaw
  <2>6. NoStaleWaiter'
    BY <1>1, <1>3, <2>3, <2>4 DEF NoStaleWaiter
  <2> QED
    BY <1>2, <2>2, <2>5, <2>6 DEF BaseInv, WaitInv
<1> QED
  BY <1>4, <1>5

(***************************************************************************)
(* An error half-way through a delivery.                                   *)
(***************************************************************************)
LEMMA FailBase ==
  ASSUME BaseInv, busy \in Delivering, Fail, UNCHANGED <<callVars, added, lapses, seen, crossed>>
  PROVE  BaseInv'
<1>1. PICK es : knows' = Learned("lost", es)
  BY DEF Fail
<1>2. knows' \in [Entries -> Consumers \cup {"nobody", "lost"}]
  BY <1>1, HistoryTypes DEF BaseInv
<1>3. UNCHANGED <<st, handed, waits, pc, call, added, lapses, seen, crossed>> /\ HandlerTypes'
  BY FreeTyped DEF Fail, callVars
<1> QED
  BY <1>2, <1>3 DEF BaseInv, StoreTypes, WaitInv, CallTypes, SleepersSaw, NoStaleWaiter, IDsRise

(***************************************************************************)
(* A delivery to the next stream, and what it writes.                      *)
(***************************************************************************)
Delivers(s, q, y) ==
  /\ s = Head(busy.todo) /\ q = busy.plan[s] /\ st[s].group.exists
  /\ s \in StreamKeys /\ s \in Range(busy.todo) /\ s \in DOMAIN busy.plan
  /\ q \in Seq(StreamEntry) /\ q # <<>>
  /\ y \in Stored /\ y = XGroupDeliver(st[s], busy.consumer, q)
  /\ st' = [st EXCEPT ![s] = y]
  /\ handed' = [e \in Entries |-> IF busy.new /\ e \in Vals(q) THEN handed[e] + 1 ELSE handed[e]]
  /\ \/ /\ Len(busy.todo) > 1 /\ busy' = [busy EXCEPT !.todo = Tail(@)] /\ UNCHANGED knows
     \/ /\ Len(busy.todo) = 1 /\ busy' = Free
        /\ knows' = Learned(busy.consumer, Planned(Found(busy.plan)))
  /\ UNCHANGED <<callVars, added, lapses, seen, crossed>>

(***************************************************************************)
(* One XGroupDeliver: it fails for want of a group, or it delivers.        *)
(***************************************************************************)
LEMMA DeliverWrites ==
  ASSUME BaseInv, TodoVisits, DeliverNext
  PROVE  /\ busy \in Delivering
         /\ \/ Fail /\ UNCHANGED <<callVars, added, lapses, seen, crossed>>
            \/ \E s, q, y : Delivers(s, q, y)
<1>1. busy.op = "deliver" /\ busy \in Delivering
  BY BusyKinds DEF BaseInv, DeliverNext
<1>2. PICK todo \in Seq(StreamKeys) : todo = busy.todo /\ todo # <<>>
  BY <1>1, DeliveringFields DEF TodoVisits
<1>3. PICK s \in StreamKeys : s = Head(busy.todo) /\ s \in Range(busy.todo)
  BY <1>2 DEF Range
<1>4. s \in DOMAIN busy.plan /\ busy.plan[s] \in Seq(StreamEntry) /\ busy.plan[s] # <<>>
  BY <1>1, <1>3, DeliveringFields DEF TodoVisits, Found
<1>5. PICK q \in Seq(StreamEntry) : q = busy.plan[s] /\ q # <<>>
  BY <1>4
<1>6. PICK y : y = XGroupDeliver(st[s], busy.consumer, q)
  OBVIOUS
<1>7. y \in Stored
  <2>1. PICK c \in Consumers, x \in Stored : c = busy.consumer /\ x = st[s]
    BY <1>1, DeliveringFields DEF BaseInv, StoreTypes
  <2> QED
    BY <1>5, <1>6, <2>1, DeliverFacts
<1>8. CASE ~st[s].group.exists /\ Fail
  BY <1>1, <1>8 DEF DeliverNext
<1>9. CASE /\ st[s].group.exists
           /\ st' = [st EXCEPT ![s] = XGroupDeliver(@, busy.consumer, busy.plan[s])]
           /\ handed' = [e \in Entries |-> IF busy.new /\ e \in Vals(busy.plan[s])
                                           THEN handed[e] + 1 ELSE handed[e]]
           /\ \/ /\ Len(busy.todo) > 1
                 /\ busy' = [busy EXCEPT !.todo = Tail(@)]
                 /\ UNCHANGED knows
              \/ /\ Len(busy.todo) = 1
                 /\ busy' = Free
                 /\ knows' = Learned(busy.consumer, Planned(Found(busy.plan)))
  <2>1. st' = [st EXCEPT ![s] = y]
    BY <1>5, <1>6, <1>9 DEF BaseInv, StoreTypes
  <2>2. UNCHANGED <<callVars, added, lapses, seen, crossed>>
    BY DEF DeliverNext
  <2>3. Delivers(s, q, y)
    BY <1>3, <1>4, <1>5, <1>6, <1>7, <1>9, <2>1, <2>2 DEF Delivers
  <2> QED
    BY <1>1, <2>3
<1> QED
  BY <1>3, <1>8, <1>9 DEF DeliverNext

(***************************************************************************)
(* The streams left after one delivery.                                    *)
(***************************************************************************)
LEMMA TodoShrinks ==
  ASSUME busy \in Delivering, IsInjective(busy.todo), Len(busy.todo) > 1,
         busy' = [busy EXCEPT !.todo = Tail(@)]
  PROVE  /\ busy' \in Delivering /\ busy'.op = "deliver" /\ busy'.plan = busy.plan
         /\ busy'.consumer = busy.consumer /\ busy'.new = busy.new
         /\ busy'.todo # <<>> /\ IsInjective(busy'.todo)
         /\ Range(busy'.todo) = Range(busy.todo) \ {Head(busy.todo)}
<1>1. PICK td \in Seq(StreamKeys) : td = busy.todo
  BY DeliveringFields
<1>2. PICK n \in Nat : n = Len(td) /\ n > 1 /\ DOMAIN td = 1..n
  BY <1>1
<1>3. PICK r : r = Tail(td)
  OBVIOUS
<1>4. PICK l \in Nat : l = n - 1 /\ l > 0 /\ n = l + 1
  BY <1>2
<1>5. r \in Seq(StreamKeys) /\ Len(r) = l /\ DOMAIN r = 1..l /\ \A i \in 1..l : r[i] = td[i + 1]
  BY <1>2, <1>3, <1>4
<1>6. \A i, j \in 1..n : td[i] = td[j] => i = j
  BY <1>1, <1>2 DEF IsInjective
<1>7. \A i, j \in DOMAIN r : r[i] = r[j] => i = j
  <2> SUFFICES ASSUME NEW i \in 1..l, NEW j \in 1..l, r[i] = r[j] PROVE i = j
    BY <1>5
  <2>1. i + 1 \in 1..n /\ j + 1 \in 1..n /\ td[i + 1] = td[j + 1]
    BY <1>4, <1>5
  <2>2. i + 1 = j + 1
    BY <1>6, <2>1
  <2> QED
    BY <2>2
<1>8. Head(td) = td[1]
  OBVIOUS
<1>9. ASSUME NEW i \in 1..l PROVE \E k \in 1..n : k # 1 /\ r[i] = td[k]
  BY <1>4, <1>5
<1>10. ASSUME NEW k \in 1..n, k # 1 PROVE \E i \in 1..l : r[i] = td[k]
  <2>0. k - 1 \in 1..l /\ k = (k - 1) + 1
    BY <1>4, <1>10
  <2>1. PICK i \in 1..l : k = i + 1
    BY <2>0
  <2> QED
    BY <1>5, <2>1
<1>11. {r[i] : i \in 1..l} = {td[k] : k \in 1..n} \ {td[1]}
  <2>1. 1 \in 1..n
    BY <1>2
  <2>2. ASSUME NEW i \in 1..l PROVE r[i] \in {td[k] : k \in 1..n} \ {td[1]}
    <3>1. PICK k \in 1..n : k # 1 /\ r[i] = td[k]
      BY <1>9
    <3> QED
      BY <1>6, <2>1, <3>1
  <2>3. ASSUME NEW k \in 1..n, td[k] # td[1] PROVE td[k] \in {r[i] : i \in 1..l}
    BY <1>10, <2>3
  <2> QED
    BY <2>2, <2>3
<1>12. busy' = [busy EXCEPT !.todo = r]
  BY <1>1, <1>3
<1>13. /\ busy' \in Delivering /\ busy'.op = "deliver" /\ busy'.plan = busy.plan
       /\ busy'.consumer = busy.consumer /\ busy'.new = busy.new /\ busy'.todo = r
  BY <1>5, <1>12 DEF Delivering
<1>14. IsInjective(r) /\ r # <<>>
  BY <1>4, <1>5, <1>7 DEF IsInjective
<1>15. Range(r) = Range(td) \ {Head(td)}
  BY <1>2, <1>5, <1>8, <1>11 DEF Range
<1> QED
  BY <1>1, <1>13, <1>14, <1>15

(***************************************************************************)
(* A delivery.                                                             *)
(***************************************************************************)
LEMMA DeliverBase ==
  ASSUME BaseInv, TodoVisits, busy \in Delivering, NEW s, NEW q, NEW y, Delivers(s, q, y)
  PROVE  BaseInv'
<1>1. s \in StreamKeys /\ y \in Stored /\ st' = [st EXCEPT ![s] = y]
  BY DEF Delivers
<1>2. Rest(st[s].entries, y.entries)
  <2>1. PICK c \in Consumers, x \in Stored : c = busy.consumer /\ x = st[s]
    BY <1>1, DeliveringFields DEF BaseInv, StoreTypes
  <2>2. q \in Seq(StreamEntry) /\ q # <<>> /\ y = XGroupDeliver(x, c, q)
    BY <2>1 DEF Delivers
  <2>3. y.entries = x.entries
    BY <2>2, DeliverFacts
  <2>4. Rest(x.entries, x.entries)
    BY QuietAbsent DEF Still, Quiet
  <2> QED
    BY <2>1, <2>3, <2>4
<1>3. UNCHANGED <<waits, pc, call, added, lapses, seen, crossed>>
  BY DEF Delivers, callVars
<1>4. HandlerTypes'
  <2>1. IsInjective(busy.todo)
    BY DeliveringFields DEF TodoVisits
  <2> QED
    BY <2>1, TodoShrinks, FreeTyped DEF Delivers, HandlerTypes
<1>5. handed' \in [Entries -> Nat]
  BY DEF Delivers, BaseInv, StoreTypes
<1>6. knows' \in [Entries -> Consumers \cup {"nobody", "lost"}]
  <2>1. CASE UNCHANGED knows
    BY <2>1 DEF BaseInv, StoreTypes
  <2>2. CASE knows' = Learned(busy.consumer, Planned(Found(busy.plan)))
    <3>1. PICK c, es : c \in Consumers /\ c = busy.consumer /\ es = Planned(Found(busy.plan))
      BY DeliveringFields
    <3> QED
      BY <2>2, <3>1, HistoryTypes DEF BaseInv
  <2> QED
    BY <2>1, <2>2 DEF Delivers
<1> QED
  BY <1>1, <1>2, <1>3, <1>4, <1>5, <1>6, QuietBase DEF BaseInv, StoreTypes

(***************************************************************************)
(* The streams left to visit.                                              *)
(***************************************************************************)
LEMMA TodoStays ==
  ASSUME TodoVisits, busy' = busy \/ busy' = Free \/ busy' \in Adding
  PROVE  TodoVisits'
<1>1. CASE busy' = busy
  BY <1>1 DEF TodoVisits
<1>2. CASE busy' = Free \/ busy' \in Adding
  <2>1. busy'.op # "deliver"
    BY <1>2 DEF Free, Adding
  <2> QED
    BY <2>1 DEF TodoVisits
<1> QED
  BY <1>1, <1>2

(***************************************************************************)
(* At the start every stream where something was found is to be visited.   *)
(***************************************************************************)
LEMMA TodoBegins ==
  ASSUME NEW plan, busy'.plan = plan, IsInjective(busy'.todo), Range(busy'.todo) = Found(plan),
         Found(plan) # {}
  PROVE  TodoVisits'
<1>1. busy'.todo # <<>>
  BY DEF Range
<1> QED
  BY <1>1 DEF TodoVisits

(***************************************************************************)
(* XREADGROUP that found something.                                        *)
(***************************************************************************)
LEMMA ReadTodo ==
  ASSUME BaseInv, NEW c \in Consumers, NEW a \in ReadArgs, NEW new \in BOOLEAN,
         XReadGroup(c, a.streams, a.count, new)
  PROVE  TodoVisits'
<1>1. PICK keys \in SUBSET StreamKeys, n \in Nat \ {0} : keys = a.streams /\ n = a.count
  BY StreamsAssumption DEF StreamKeys
<1>2. PICK plan : plan = XReadGroupPlan(c, keys, n, new)
  OBVIOUS
<1>3. busy' = Delivery(c, plan, new) /\ Found(plan) # {}
  BY <1>1, <1>2 DEF XReadGroup
<1>4. busy'.plan = plan /\ IsInjective(busy'.todo) /\ Range(busy'.todo) = Found(plan)
  <2>1. PICK b : b = Delivery(c, plan, new)
    OBVIOUS
  <2>2. plan \in Plans
    BY <1>2, PlanTyped
  <2>3. b.plan = plan /\ IsInjective(b.todo) /\ Range(b.todo) = Found(plan)
    BY <2>1, <2>2, DeliveryTyped
  <2> QED
    BY <1>3, <2>1, <2>3
<1> QED
  BY <1>3, <1>4, TodoBegins

(***************************************************************************)
(* XREADGROUP after its wait.                                              *)
(***************************************************************************)
LEMMA ResumeTodo ==
  ASSUME BaseInv, TodoVisits, NEW c \in Callers, XReadGroupResumes(c)
  PROVE  TodoVisits'
<1>1. PICK keys \in SUBSET StreamKeys, n \in Nat \ {0} : keys = call[c].streams /\ n = call[c].count
  BY DEF BaseInv, WaitInv, CallTypes
<1>2. PICK new \in BOOLEAN : new = TRUE
  OBVIOUS
<1>3. PICK plan : plan = XReadGroupPlan(c, keys, n, TRUE)
  OBVIOUS
<1>4. c \in Consumers
  BY StreamsAssumption
<1>5. CASE busy' = Free
  BY <1>5, TodoStays
<1>6. CASE busy' = Delivery(c, plan, TRUE) /\ Found(plan) # {}
  <2>1. plan = XReadGroupPlan(c, keys, n, new) /\ busy' = Delivery(c, plan, new)
    BY <1>2, <1>3, <1>6, Zenon
  <2>2. PICK b : b = Delivery(c, plan, new)
    OBVIOUS
  <2>3. plan \in Plans
    BY <1>4, <2>1, PlanTyped
  <2>4. b.plan = plan /\ IsInjective(b.todo) /\ Range(b.todo) = Found(plan)
    BY <1>4, <2>2, <2>3, DeliveryTyped
  <2>5. busy'.plan = plan /\ IsInjective(busy'.todo) /\ Range(busy'.todo) = Found(plan)
    BY <2>1, <2>2, <2>4
  <2> QED
    BY <1>6, <2>5, TodoBegins
<1> QED
  BY <1>1, <1>3, <1>5, <1>6 DEF XReadGroupResumes

(***************************************************************************)
(* A delivery.                                                             *)
(***************************************************************************)
LEMMA DeliverTodo ==
  ASSUME BaseInv, TodoVisits, busy \in Delivering, NEW s, NEW q, NEW y, Delivers(s, q, y)
  PROVE  TodoVisits'
<1>1. CASE busy' = Free
  BY <1>1, TodoStays
<1>2. CASE Len(busy.todo) > 1 /\ busy' = [busy EXCEPT !.todo = Tail(@)]
  <2>1. IsInjective(busy.todo) /\ Range(busy.todo) \subseteq Found(busy.plan)
    BY DeliveringFields DEF TodoVisits
  <2>2. /\ busy'.plan = busy.plan /\ busy'.todo # <<>> /\ IsInjective(busy'.todo)
        /\ Range(busy'.todo) = Range(busy.todo) \ {Head(busy.todo)}
    BY <1>2, <2>1, TodoShrinks
  <2> QED
    BY <2>1, <2>2 DEF TodoVisits
<1> QED
  BY <1>1, <1>2 DEF Delivers

(***************************************************************************)
(* Types, order and waiters together are inductive.                        *)
(***************************************************************************)
CoreInv == BaseInv /\ TodoVisits

(***************************************************************************)
(* It holds at the start.                                                  *)
(***************************************************************************)
LEMMA CoreInit ==
  ASSUME Init
  PROVE  CoreInv
<1>1. StoreTypes
  BY AbsentStored, StreamsAssumption DEF Init, StoreTypes
<1>2. busy = Free /\ HandlerTypes /\ TodoVisits
  BY DEF Init, HandlerTypes, TodoVisits, Free
<1>3. \A c \in Callers : call[c].streams \subseteq StreamKeys /\ call[c].count \in Nat \ {0}
  BY DEF Init, NoCall
<1>4. WaitInv
  BY <1>3 DEF Init, WaitInv, CallTypes, SleepersSaw, NoStaleWaiter
<1>5. IDsRise
  BY AbsentStored DEF Init, IDsRise
<1> QED
  BY <1>1, <1>2, <1>4, <1>5 DEF CoreInv, BaseInv

(***************************************************************************)
(* Every step keeps it.                                                    *)
(***************************************************************************)
LEMMA CoreNext ==
  ASSUME CoreInv, [Next]_vars
  PROVE  CoreInv'
<1> USE DEF CoreInv
<1>1. ASSUME NEW s \in StreamKeys, NEW arg \in IDArgs, NEW ms \in Millis, NextStreamID(s, arg, ms)
      PROVE  CoreInv'
  BY <1>1, PrepareBase, TodoStays
<1>2. ASSUME NEW s \in StreamKeys, NEW arg \in IDArgs, NEW ms \in Millis, XAdd(s, arg, ms)
      PROVE  CoreInv'
  <2>1. busy' = busy
    BY <1>2 DEF XAdd
  <2> QED
    BY <1>2, <2>1, LinkBase, TodoStays
<1>3. CASE XAddPrepared
  <2>1. busy' = Free
    BY <1>3 DEF XAddPrepared
  <2> QED
    BY <1>3, <2>1, AddBase, TodoStays
<1>4. ASSUME busy \in Delivering, Fail, UNCHANGED <<callVars, added, lapses, seen, crossed>>
      PROVE  CoreInv'
  <2>1. busy' = Free
    BY <1>4 DEF Fail
  <2> QED
    BY <1>4, <2>1, FailBase, TodoStays
<1>5. CASE DeliverNext
  <2>1. busy \in Delivering
    BY <1>5, DeliverWrites
  <2>2. ASSUME NEW s, NEW q, NEW y, Delivers(s, q, y) PROVE CoreInv'
    BY <2>1, <2>2, DeliverBase, DeliverTodo
  <2> QED
    BY <1>4, <1>5, <2>1, <2>2, DeliverWrites
<1>6. CASE AppendFails
  <2>1. CASE busy.op = "xadd" /\ busy' = Free /\ UNCHANGED <<st, handed, knows>>
    <3>1. UNCHANGED <<st, handed, knows, waits, pc, call, added, lapses, seen, crossed>>
      BY <1>6, <2>1 DEF AppendFails, callVars
    <3>2. HandlerTypes' /\ TodoVisits'
      BY <2>1, FreeTyped, TodoStays
    <3> QED
      BY <3>1, <3>2 DEF BaseInv, StoreTypes, WaitInv, CallTypes, SleepersSaw, NoStaleWaiter,
                        IDsRise
  <2>2. CASE busy.op = "deliver" /\ Fail
    <3>1. busy \in Delivering
      BY <2>2, BusyKinds DEF BaseInv
    <3> QED
      BY <1>4, <1>6, <2>2, <3>1 DEF AppendFails
  <2> QED
    BY <1>6, <2>1, <2>2 DEF AppendFails
<1>7. ASSUME NEW s \in StreamKeys, NEW start, NEW mkstream, XGroupCreate(s, start, mkstream)
      PROVE  CoreInv'
  <2>1. busy' = busy
    BY <1>7 DEF XGroupCreate
  <2> QED
    BY <1>7, <2>1, CreateBase, TodoStays
<1>8. ASSUME NEW s \in StreamKeys, NEW ids, XAckHandler(s, ids) \/ PeerXAck(s, ids)
      PROVE  CoreInv'
  <2>1. busy' = busy
    BY <1>8 DEF XAckHandler, PeerXAck, XAck
  <2> QED
    BY <1>8, <2>1, AckBase, TodoStays
<1>9. ASSUME NEW s \in StreamKeys, NEW c \in Consumers, Claims(s, c) PROVE CoreInv'
  <2>1. busy' = busy
    BY <1>9 DEF Claims
  <2> QED
    BY <1>9, <2>1, ClaimBase, TodoStays
<1>10. ASSUME NEW s \in StreamKeys, NEW n \in TrimLens, XTrim(s, n) PROVE CoreInv'
  <2>1. busy' = busy
    BY <1>10 DEF XTrim
  <2> QED
    BY <1>10, <2>1, TrimBase, TodoStays
<1>11. ASSUME NEW s \in StreamKeys, Lapse(s) \/ deleteKeyLocked(s) \/ Set(s) PROVE CoreInv'
  <2>1. busy' = busy
    BY <1>11 DEF Lapse, deleteKeyLocked, Set
  <2> QED
    BY <1>11, <2>1, KeyBase, TodoStays
<1>12. ASSUME NEW c \in Consumers, NEW a \in ReadArgs, NEW new \in BOOLEAN,
              XReadGroup(c, a.streams, a.count, new)
       PROVE  CoreInv'
  BY <1>12, ReadBase, ReadTodo
<1>13. ASSUME NEW c \in Callers,
              \/ \E a \in ReadArgs : XReadGroupBlocks(c, a.streams, a.count)
              \/ \E keys \in XReadKeys : XReadBlocks(c, keys)
              \/ XReadReturns(c)
       PROVE  CoreInv'
  <2>1. busy' = busy
    BY <1>13 DEF XReadGroupBlocks, XReadBlocks, XReadReturns
  <2> QED
    BY <1>13, <2>1, CallBase, TodoStays
<1>14. ASSUME NEW c \in Callers, Wait(c) \/ removeWaiter(c) PROVE CoreInv'
  <2>1. busy' = busy
    BY <1>14 DEF Wait, removeWaiter
  <2> QED
    BY <1>14, <2>1, WaitBase, TodoStays
<1>15. ASSUME NEW c \in Callers, XReadGroupResumes(c) PROVE CoreInv'
  BY <1>15, ResumeBase, ResumeTodo
<1>16. CASE FlushDB
  <2>1. busy' = busy
    BY <1>16 DEF FlushDB
  <2> QED
    BY <1>16, <2>1, FlushBase, TodoStays
<1>17. CASE UNCHANGED vars
  BY <1>17 DEF vars, callVars, histVars, BaseInv, StoreTypes, HandlerTypes, WaitInv, CallTypes,
               SleepersSaw, NoStaleWaiter, IDsRise, TodoVisits
<1> HIDE DEF CoreInv
<1>18. ASSUME NEW s \in StreamKeys, NEW c \in Consumers, NEW ripe,
              \/ \E ids \in Pendings(s) : XClaim(s, c, ids, ripe)
              \/ \E start \in DOMAIN st[s].group.pending, n \in Counts :
                   XAutoClaim(s, c, start, n, ripe)
       PROVE  CoreInv'
  BY <1>9, <1>18, BothClaim DEF CoreInv
<1> QED
  BY <1>1, <1>2, <1>3, <1>5, <1>6, <1>7, <1>8, <1>10, <1>11, <1>12, <1>13, <1>14, <1>15, <1>16,
     <1>17, <1>18 DEF Next

(***************************************************************************)
(* What a sleeper would be given are entries of the stream.                *)
(***************************************************************************)
LEMMA WantedThere ==
  ASSUME BaseInv, NEW s \in StreamKeys, NEW c
  PROVE  Wanted(c, s) \subseteq Vals(st[s].entries)
<1>1. PICK q \in Seq(StreamEntry) : q = st[s].entries
  BY StoredFields DEF BaseInv, StoreTypes
<1>2. ASSUME NEW id PROVE Vals(After(q, id)) \subseteq Vals(q)
  <2>1. PICK a : a = After(q, id)
    OBVIOUS
  <2>2. PICK m \in 0..Len(q) :
           /\ a \in Seq(StreamEntry) /\ Len(a) = Len(q) - m
           /\ \A k \in 1..(Len(q) - m) : a[k] = q[m + k]
    BY <2>1, AfterFacts
  <2>3. PICK h \in Nat : h = Len(q) /\ DOMAIN q = 1..h
    OBVIOUS
  <2>4. DOMAIN a = 1..(h - m) /\ \A k \in 1..(h - m) : m + k \in 1..h
    BY <2>2, <2>3
  <2>5. \A k \in DOMAIN a : \E i \in DOMAIN q : a[k] = q[i]
    BY <2>2, <2>3, <2>4
  <2> QED
    BY <2>1, <2>5 DEF Vals
<1>3. Vals(<<>>) = {}
  BY DEF Vals
<1> QED
  BY <1>1, <1>2, <1>3 DEF Wanted, EntriesAfter, Unread

(***************************************************************************)
(* It gives the types, the order of IDs and the care of waiters.           *)
(***************************************************************************)
LEMMA CoreGivesInv ==
  ASSUME CoreInv
  PROVE  Inv /\ IDsRise
<1>1. BaseInv
  BY DEF CoreInv
<1>2. ASSUME NEW s \in StreamKeys
      PROVE  /\ st[s].made \in BOOLEAN /\ st[s].other \in BOOLEAN /\ st[s].expired \in BOOLEAN
             /\ st[s].entries \in Seq([id : IDs, val : Entries])
             /\ st[s].seq \in Nat
             /\ st[s].group.exists \in BOOLEAN /\ st[s].group.last \in IDs
             /\ DOMAIN st[s].group.pending \subseteq IDs
             /\ \A i \in DOMAIN st[s].group.pending : st[s].group.pending[i] \in Consumers
  <2>1. PICK x \in Stored : x = st[s]
    BY <1>1 DEF BaseInv, StoreTypes
  <2>2. /\ x.made \in BOOLEAN /\ x.other \in BOOLEAN /\ x.expired \in BOOLEAN
        /\ x.entries \in Seq(StreamEntry) /\ x.seq \in Nat
        /\ x.group.exists \in BOOLEAN /\ x.group.last \in IDs /\ x.group.pending \in PendingMaps
        /\ DOMAIN x.group.pending \in SUBSET IDs
    BY StoredFields
  <2>3. \A i \in DOMAIN x.group.pending : x.group.pending[i] \in Consumers
    BY <2>2, PendingMapFacts
  <2> QED
    BY <2>1, <2>2, <2>3 DEF StreamEntry
<1>3. busy.op \in {"none", "xadd", "deliver"}
  BY <1>1, BusyKinds DEF BaseInv
<1>4. TypeOK
  <2>1. /\ waits \in [StreamKeys -> SUBSET Callers]
        /\ pc \in [Callers -> {"idle", "gap", "asleep", "awake", "back"}]
        /\ added \in 0..MaxEntries /\ lapses \in 0..MaxLapses
        /\ handed \in [Entries -> Nat]
        /\ crossed \subseteq Entries /\ knows \in [Entries -> Consumers \cup {"nobody", "lost"}]
    BY <1>1 DEF BaseInv, StoreTypes, WaitInv, CallTypes
  <2> QED
    BY <1>2, <1>3, <2>1 DEF TypeOK
<1>5. SleepersNoticed
  BY <1>1, WantedThere DEF SleepersNoticed, BaseInv, WaitInv, SleepersSaw
<1> QED
  BY <1>1, <1>4, <1>5 DEF Inv, BaseInv, WaitInv

(***************************************************************************)
(* It holds always.                                                        *)
(***************************************************************************)
LEMMA CoreAlways == Spec => []CoreInv
<1>1. Init => CoreInv
  BY CoreInit
<1>2. CoreInv /\ [Next]_vars => CoreInv'
  BY CoreNext
<1> QED
  BY <1>1, <1>2, PTL DEF Spec

(***************************************************************************)
(* Store.Wait and XADD for any streams, callers and bounds: no XADD after  *)
(* a reader registered goes unnoticed, and no waiter outlives its call.    *)
(***************************************************************************)
THEOREM StreamsSafe == Spec => []Inv
<1>1. CoreInv => Inv
  BY CoreGivesInv
<1> QED
  BY <1>1, CoreAlways, PTL

(***************************************************************************)
(* The IDs of a stream rise strictly whatever comes between the two halves *)
(* of XADD, so that the binary searches of XREAD and XREADGROUP find what  *)
(* they look for.                                                          *)
(***************************************************************************)
THEOREM StreamsOrdered == Spec => []IDsRise
<1>1. CoreInv => IDsRise
  BY CoreGivesInv
<1> QED
  BY <1>1, CoreAlways, PTL

-----------------------------------------------------------------------------
(***************************************************************************)
(* What is left of a key after a quiet change.                             *)
(***************************************************************************)
LEMMA QuietEffects ==
  ASSUME NEW x \in Stored, NEW y \in Stored, Quiet(x, y)
  PROVE  /\ \A k \in DOMAIN y.entries : \E i \in DOMAIN x.entries : y.entries[k] = x.entries[i]
         /\ (\A i, j \in DOMAIN x.entries : x.entries[i].val = x.entries[j].val => i = j) =>
              \A i, j \in DOMAIN y.entries : y.entries[i].val = y.entries[j].val => i = j
         /\ DOMAIN y.group.pending \subseteq DOMAIN x.group.pending
         /\ \/ y.group = Nobody
            \/ /\ y.group.last = x.group.last /\ y.group.exists = x.group.exists
               /\ y.group = x.group \/ y.group.exists
         /\ y.group.exists => /\ x.group.exists /\ y.group.last = x.group.last
                              /\ ~y.other => ~x.other /\ lastIDLocked(y) = lastIDLocked(x)
         /\ DOMAIN y.entries # {} => /\ y.group.last = x.group.last
                                     /\ y.group.exists = x.group.exists
<1>1. PICK q \in Seq(StreamEntry), r \in Seq(StreamEntry) : q = x.entries /\ r = y.entries
  BY StoredFields
<1>2. Rest(q, r)
  BY <1>1 DEF Quiet
<1>3. /\ \A k \in DOMAIN r : \E i \in DOMAIN q : r[k] = q[i]
      /\ (\A i, j \in DOMAIN q : q[i].val = q[j].val => i = j) =>
              \A i, j \in DOMAIN r : r[i].val = r[j].val => i = j
  BY <1>2, RestFacts
<1>4. x.group.exists \in BOOLEAN /\ y.group.exists \in BOOLEAN
  BY StoredFields
<1>5. ASSUME x.group.exists, y.group.exists PROVE y.group.exists = x.group.exists
  BY <1>4, <1>5, Zenon
<1>6. Nobody.exists = FALSE /\ DOMAIN Nobody.pending = {}
  BY AbsentStored
<1>7. DOMAIN <<>> = {}
  OBVIOUS
<1>8. \/ y.group = Nobody
      \/ /\ y.group.last = x.group.last /\ y.group.exists = x.group.exists
         /\ y.group = x.group \/ y.group.exists
  BY <1>5 DEF Quiet
<1>9. DOMAIN y.group.pending \subseteq DOMAIN x.group.pending
  BY <1>6 DEF Quiet
<1>10. y.group.exists => x.group.exists /\ y.group.last = x.group.last
  BY <1>6 DEF Quiet
<1>11. ASSUME y.group.exists, ~y.other PROVE ~x.other /\ lastIDLocked(y) = lastIDLocked(x)
  BY <1>6, <1>11 DEF Quiet
<1>12. ASSUME y.entries # <<>>
       PROVE  y.group.last = x.group.last /\ y.group.exists = x.group.exists
  BY <1>5, <1>12 DEF Quiet
<1> QED
  BY <1>1, <1>3, <1>7, <1>8, <1>9, <1>10, <1>11, <1>12

(***************************************************************************)
(* A step in which keys change quietly, and the handler goes on, finishes, *)
(* or is a new XADD.                                                       *)
(***************************************************************************)
QuietStep ==
  /\ st' \in [StreamKeys -> Stored]
  /\ \A s \in StreamKeys : Quiet(st[s], st'[s])

Calm ==
  \/ busy' = busy /\ added' = added
  \/ busy' = Free /\ added' = added
  \/ /\ busy' \in Adding /\ busy'.val = added + 1 /\ added' = added + 1
     /\ compareID(st'[busy'.stream].group.last, busy'.id) /\ compareID(Zero, busy'.id)

(***************************************************************************)
(* What a calm step does to the handler.                                   *)
(***************************************************************************)
LEMMA CalmFacts ==
  ASSUME Calm, CoreInv
  PROVE  /\ added \in Nat /\ added' \in Nat /\ added <= added'
         /\ busy'.op = "deliver" => busy' = busy
         /\ busy'.op = "xadd" =>
              \/ busy' = busy /\ added' = added
              \/ /\ busy'.val = added + 1 /\ added' = added + 1
                 /\ compareID(st'[busy'.stream].group.last, busy'.id)
                 /\ compareID(Zero, busy'.id)
<1>1. added \in Nat /\ MaxEntries \in Nat
  BY StreamsAssumption DEF CoreInv, BaseInv, StoreTypes
<1>2. CASE busy' = busy /\ added' = added
  BY <1>1, <1>2
<1>3. CASE busy' = Free /\ added' = added
  BY <1>1, <1>3 DEF Free
<1>4. CASE /\ busy' \in Adding /\ busy'.val = added + 1 /\ added' = added + 1
           /\ compareID(st'[busy'.stream].group.last, busy'.id) /\ compareID(Zero, busy'.id)
  <2>1. busy'.op = "xadd"
    BY <1>4 DEF Adding
  <2> QED
    BY <1>1, <1>4, <2>1
<1> QED
  BY <1>2, <1>3, <1>4 DEF Calm

(***************************************************************************)
(* The parts of the invariant that such a step keeps.                      *)
(***************************************************************************)
LEMMA QuietBehind ==
  ASSUME CoreInv, GroupsBehind, QuietStep
  PROVE  GroupsBehind'
<1> SUFFICES ASSUME NEW s \in StreamKeys
             PROVE  /\ ~st'[s].other => UpTo(st'[s].group.last, lastIDLocked(st'[s]))
                    /\ \A i \in DOMAIN st'[s].group.pending : UpTo(i, st'[s].group.last)
                    /\ ~st'[s].group.exists => st'[s].group = Nobody
  BY DEF GroupsBehind
<1>1. PICK x \in Stored, y \in Stored : x = st[s] /\ y = st'[s] /\ Quiet(x, y)
  BY DEF QuietStep, CoreInv, BaseInv, StoreTypes
<1>2. /\ DOMAIN y.group.pending \subseteq DOMAIN x.group.pending
      /\ \/ y.group = Nobody
         \/ /\ y.group.last = x.group.last /\ y.group.exists = x.group.exists
            /\ y.group = x.group \/ y.group.exists
  BY <1>1, QuietEffects
<1>3. /\ ~x.other => UpTo(x.group.last, lastIDLocked(x))
      /\ \A i \in DOMAIN x.group.pending : UpTo(i, x.group.last)
      /\ ~x.group.exists => x.group = Nobody
  BY <1>1 DEF GroupsBehind
<1>4. Nobody.last = Zero /\ DOMAIN Nobody.pending = {}
  BY AbsentStored
<1>5. \A i, j \in DOMAIN y.entries : i < j => compareID(y.entries[i].id, y.entries[j].id)
  <2>1. PICK q \in Seq(StreamEntry), r \in Seq(StreamEntry) : q = x.entries /\ r = y.entries
    BY StoredFields
  <2>2. \A i, j \in DOMAIN q : i < j => compareID(q[i].id, q[j].id)
    BY <1>1, <2>1 DEF CoreInv, BaseInv, IDsRise
  <2>3. Rest(q, r)
    BY <1>1, <2>1 DEF Quiet
  <2> QED
    BY <2>1, <2>2, <2>3, RestFacts
<1>6. UpTo(Zero, lastIDLocked(y))
  BY <1>5, LastIsLast, IDOrder DEF UpTo
<1>7. ASSUME ~y.other PROVE UpTo(y.group.last, lastIDLocked(y))
  BY <1>1, <1>2, <1>3, <1>4, <1>6, <1>7 DEF Quiet
<1> QED
  BY <1>1, <1>2, <1>3, <1>4, <1>7

(***************************************************************************)
(* The ID of an XADD under way stays ahead of the group.                   *)
(***************************************************************************)
LEMMA CalmAhead ==
  ASSUME CoreInv, XAddAhead, QuietStep, Calm
  PROVE  XAddAhead'
<1> SUFFICES ASSUME busy'.op = "xadd"
             PROVE  /\ compareID(st'[busy'.stream].group.last, busy'.id)
                    /\ compareID(Zero, busy'.id)
  BY DEF XAddAhead
<1>1. CASE busy' = busy
  <2>1. compareID(st[busy.stream].group.last, busy.id) /\ compareID(Zero, busy.id)
    BY <1>1 DEF XAddAhead
  <2>2. PICK s \in StreamKeys : s = busy.stream
    BY <1>1, BusyKinds DEF CoreInv, BaseInv, Adding
  <2>3. PICK x \in Stored, y \in Stored : x = st[s] /\ y = st'[s] /\ Quiet(x, y)
    BY DEF QuietStep, CoreInv, BaseInv, StoreTypes
  <2>4. y.group = Nobody \/ y.group.last = x.group.last
    BY <2>3, QuietEffects
  <2>5. Nobody.last = Zero
    BY AbsentStored
  <2>6. y.group.last = Zero \/ y.group.last = x.group.last
    BY <2>4, <2>5
  <2> QED
    BY <1>1, <2>1, <2>2, <2>3, <2>6
<1> QED
  BY <1>1, CalmFacts

(***************************************************************************)
(* Every entry is in one place.                                            *)
(***************************************************************************)
LEMMA CalmDistinct ==
  ASSUME CoreInv, Distinct, QuietStep, Calm
  PROVE  Distinct'
<1>1. /\ added \in Nat /\ added' \in Nat /\ added <= added'
      /\ busy'.op = "xadd" => \/ busy' = busy /\ added' = added
                              \/ busy'.val = added + 1 /\ added' = added + 1
  BY CalmFacts
<1>2. ASSUME NEW s \in StreamKeys
      PROVE  /\ \A k \in DOMAIN st'[s].entries :
                  \E i \in DOMAIN st[s].entries : st'[s].entries[k] = st[s].entries[i]
             /\ \A i, j \in DOMAIN st'[s].entries :
                  st'[s].entries[i].val = st'[s].entries[j].val => i = j
  <2>1. PICK x \in Stored, y \in Stored : x = st[s] /\ y = st'[s] /\ Quiet(x, y)
    BY DEF QuietStep, CoreInv, BaseInv, StoreTypes
  <2>2. \A i, j \in DOMAIN x.entries : x.entries[i].val = x.entries[j].val => i = j
    BY <2>1 DEF Distinct
  <2> QED
    BY <2>1, <2>2, QuietEffects
<1>3. ASSUME NEW s \in StreamKeys, NEW k \in DOMAIN st[s].entries
      PROVE  /\ st[s].entries[k].val \in Nat /\ st[s].entries[k].val <= added
             /\ busy.op = "xadd" => st[s].entries[k].val # busy.val
  <2>1. st[s] \in Stored
    BY DEF CoreInv, BaseInv, StoreTypes
  <2>2. st[s].entries[k].val \in Entries
    BY <2>1, StoredFields
  <2> QED
    BY <2>2 DEF Distinct, Entries
<1>4. ASSUME NEW s \in StreamKeys, NEW k \in DOMAIN st'[s].entries
      PROVE  /\ st'[s].entries[k].val <= added'
             /\ busy'.op = "xadd" => st'[s].entries[k].val # busy'.val
  <2>1. PICK i \in DOMAIN st[s].entries : st'[s].entries[k] = st[s].entries[i]
    BY <1>2
  <2>2. PICK v \in Nat : /\ v = st'[s].entries[k].val /\ v <= added
                         /\ busy.op = "xadd" => v # busy.val
    BY <1>3, <2>1
  <2> QED
    BY <1>1, <2>2
<1>5. busy'.op = "xadd" => busy'.val <= added'
  BY <1>1 DEF Distinct
<1>6. ASSUME NEW s \in StreamKeys, NEW t \in StreamKeys, NEW i \in DOMAIN st'[s].entries,
             NEW j \in DOMAIN st'[t].entries, st'[s].entries[i].val = st'[t].entries[j].val
      PROVE  s = t /\ i = j
  <2>1. PICK a \in DOMAIN st[s].entries : st'[s].entries[i] = st[s].entries[a]
    BY <1>2
  <2>2. PICK b \in DOMAIN st[t].entries : st'[t].entries[j] = st[t].entries[b]
    BY <1>2
  <2>3. s = t
    BY <1>6, <2>1, <2>2 DEF Distinct
  <2> QED
    BY <1>2, <1>6, <2>3
<1> QED
  BY <1>4, <1>5, <1>6 DEF Distinct

(***************************************************************************)
(* The plan stays in order.                                                *)
(***************************************************************************)
LEMMA CalmPlan ==
  ASSUME CoreInv, PlanInOrder, Calm
  PROVE  PlanInOrder'
<1> SUFFICES ASSUME busy'.op = "deliver" PROVE PlanInOrder'
  BY DEF PlanInOrder
<1>1. busy' = busy /\ added \in Nat /\ added' \in Nat /\ added <= added'
  BY CalmFacts
<1>2. busy \in Delivering
  BY <1>1, BusyKinds DEF CoreInv, BaseInv
<1>3. ASSUME NEW s \in DOMAIN busy.plan, NEW i \in DOMAIN busy.plan[s]
      PROVE  busy.plan[s][i].val <= added'
  <2>1. busy.plan[s] \in Seq(StreamEntry)
    BY <1>2, DeliveringFields
  <2>2. busy.plan[s][i] \in StreamEntry
    BY <2>1
  <2>3. PICK v \in Nat : v = busy.plan[s][i].val
    BY <2>2 DEF StreamEntry, Entries
  <2>4. v <= added
    BY <1>1, <2>3 DEF PlanInOrder
  <2> QED
    BY <1>1, <2>3, <2>4
<1> QED
  BY <1>1, <1>3 DEF PlanInOrder

(***************************************************************************)
(* What was planned is still what the stream has.                          *)
(***************************************************************************)
LEMMA CalmHolds ==
  ASSUME CoreInv, PlanHolds, QuietStep, Calm
  PROVE  PlanHolds'
<1> SUFFICES ASSUME busy'.op = "deliver" PROVE PlanHolds'
  BY DEF PlanHolds
<1>1. busy' = busy
  BY CalmFacts
<1>2. busy \in Delivering
  BY <1>1, BusyKinds DEF CoreInv, BaseInv
<1> SUFFICES ASSUME NEW s \in DOMAIN busy.plan, NEW j \in DOMAIN busy.plan[s], NEW p,
                    p = busy.plan[s][j]
             PROVE
      /\ \A t \in StreamKeys : \A k \in DOMAIN st'[t].entries :
           st'[t].entries[k].val = p.val => t = s /\ st'[t].entries[k].id = p.id
      /\ st'[s].group.exists =>
           /\ \A k \in DOMAIN st'[s].entries :
                st'[s].entries[k].id = p.id => st'[s].entries[k].val = p.val
           /\ ~st'[s].other => UpTo(p.id, lastIDLocked(st'[s]))
  BY <1>1 DEF PlanHolds
<1>3. s \in StreamKeys
  BY <1>2, DeliveringFields
<1>4. /\ \A t \in StreamKeys : \A k \in DOMAIN st[t].entries :
           st[t].entries[k].val = p.val => t = s /\ st[t].entries[k].id = p.id
      /\ st[s].group.exists =>
           /\ \A k \in DOMAIN st[s].entries :
                st[s].entries[k].id = p.id => st[s].entries[k].val = p.val
           /\ ~st[s].other => UpTo(p.id, lastIDLocked(st[s]))
  BY <1>1 DEF PlanHolds
<1>5. ASSUME NEW t \in StreamKeys
      PROVE  /\ \A k \in DOMAIN st'[t].entries :
                  \E i \in DOMAIN st[t].entries : st'[t].entries[k] = st[t].entries[i]
             /\ st'[t].group.exists =>
                  /\ st[t].group.exists
                  /\ ~st'[t].other => ~st[t].other /\ lastIDLocked(st'[t]) = lastIDLocked(st[t])
  <2>1. PICK x \in Stored, y \in Stored : x = st[t] /\ y = st'[t] /\ Quiet(x, y)
    BY DEF QuietStep, CoreInv, BaseInv, StoreTypes
  <2> QED
    BY <2>1, QuietEffects
<1>6. ASSUME NEW t \in StreamKeys, NEW k \in DOMAIN st'[t].entries, st'[t].entries[k].val = p.val
      PROVE  t = s /\ st'[t].entries[k].id = p.id
  <2>1. PICK i \in DOMAIN st[t].entries : st'[t].entries[k] = st[t].entries[i]
    BY <1>5
  <2> QED
    BY <1>4, <1>6, <2>1
<1>7. ASSUME st'[s].group.exists, NEW k \in DOMAIN st'[s].entries, st'[s].entries[k].id = p.id
      PROVE  st'[s].entries[k].val = p.val
  <2>1. PICK i \in DOMAIN st[s].entries : st'[s].entries[k] = st[s].entries[i]
    BY <1>3, <1>5
  <2> QED
    BY <1>3, <1>4, <1>5, <1>7, <2>1
<1>8. ASSUME st'[s].group.exists, ~st'[s].other PROVE UpTo(p.id, lastIDLocked(st'[s]))
  <2>1. st[s].group.exists /\ ~st[s].other /\ lastIDLocked(st'[s]) = lastIDLocked(st[s])
    BY <1>3, <1>5, <1>8
  <2> QED
    BY <1>4, <2>1
<1> QED
  BY <1>6, <1>7, <1>8

(***************************************************************************)
(* New entries that are planned stay unread.                               *)
(***************************************************************************)
LEMMA CalmNew ==
  ASSUME CoreInv, NewUnread, QuietStep, Calm, handed' = handed
  PROVE  NewUnread'
<1> SUFFICES ASSUME busy'.op = "deliver", busy'.new PROVE NewUnread'
  BY DEF NewUnread
<1>1. busy' = busy
  BY CalmFacts
<1>2. busy \in Delivering
  BY <1>1, BusyKinds DEF CoreInv, BaseInv
<1> SUFFICES ASSUME NEW s \in Range(busy.todo)
    PROVE
      /\ \A j \in DOMAIN busy.plan[s] : handed[busy.plan[s][j].val] = 0
      /\ st'[s].group.exists =>
           /\ \A j \in DOMAIN busy.plan[s] : compareID(st'[s].group.last, busy.plan[s][j].id)
           /\ \A k \in DOMAIN st'[s].entries :
                compareID(st'[s].group.last, st'[s].entries[k].id) =>
                  \/ st'[s].entries[k].id \in ToIDs(busy.plan[s])
                  \/ compareID(Last(busy.plan[s]).id, st'[s].entries[k].id)
  BY <1>1 DEF NewUnread
<1>3. s \in StreamKeys
  BY <1>2, DeliveringFields DEF Range
<1>4. /\ \A j \in DOMAIN busy.plan[s] : handed[busy.plan[s][j].val] = 0
      /\ st[s].group.exists =>
           /\ \A j \in DOMAIN busy.plan[s] : compareID(st[s].group.last, busy.plan[s][j].id)
           /\ \A k \in DOMAIN st[s].entries :
                compareID(st[s].group.last, st[s].entries[k].id) =>
                  \/ st[s].entries[k].id \in ToIDs(busy.plan[s])
                  \/ compareID(Last(busy.plan[s]).id, st[s].entries[k].id)
  BY <1>1 DEF NewUnread
<1>5. /\ \A k \in DOMAIN st'[s].entries :
           \E i \in DOMAIN st[s].entries : st'[s].entries[k] = st[s].entries[i]
      /\ st'[s].group.exists => st[s].group.exists /\ st'[s].group.last = st[s].group.last
  <2>1. PICK x \in Stored, y \in Stored : x = st[s] /\ y = st'[s] /\ Quiet(x, y)
    BY <1>3 DEF QuietStep, CoreInv, BaseInv, StoreTypes
  <2> QED
    BY <2>1, QuietEffects
<1>6. ASSUME st'[s].group.exists, NEW k \in DOMAIN st'[s].entries,
             compareID(st'[s].group.last, st'[s].entries[k].id)
      PROVE  \/ st'[s].entries[k].id \in ToIDs(busy.plan[s])
             \/ compareID(Last(busy.plan[s]).id, st'[s].entries[k].id)
  <2>1. PICK i \in DOMAIN st[s].entries : st'[s].entries[k] = st[s].entries[i]
    BY <1>5
  <2> QED
    BY <1>4, <1>5, <1>6, <2>1
<1> QED
  BY <1>4, <1>5, <1>6

(***************************************************************************)
(* What is unread has not been handed out.                                 *)
(***************************************************************************)
LEMMA CalmHanded ==
  ASSUME CoreInv, UnreadNotHanded, QuietStep, Calm, handed' = handed
  PROVE  UnreadNotHanded'
<1>1. /\ added \in Nat /\ added' \in Nat /\ added <= added'
      /\ busy'.op = "xadd" => \/ busy' = busy /\ added' = added
                              \/ busy'.val = added + 1 /\ added' = added + 1
  BY CalmFacts
<1>2. ASSUME NEW v \in Entries, v > added' \/ (busy'.op = "xadd" /\ busy'.val = v)
      PROVE  handed[v] = 0
  <2>1. v \in Nat
    BY DEF Entries
  <2>2. v > added \/ (busy.op = "xadd" /\ busy.val = v)
    BY <1>1, <1>2, <2>1
  <2> QED
    BY <2>2 DEF UnreadNotHanded
<1>3. ASSUME NEW s \in StreamKeys, NEW k \in DOMAIN st'[s].entries,
             ~st'[s].group.exists \/ compareID(st'[s].group.last, st'[s].entries[k].id)
      PROVE  handed[st'[s].entries[k].val] = 0
  <2>1. PICK x \in Stored, y \in Stored : x = st[s] /\ y = st'[s] /\ Quiet(x, y)
    BY DEF QuietStep, CoreInv, BaseInv, StoreTypes
  <2>2. /\ \E i \in DOMAIN x.entries : y.entries[k] = x.entries[i]
        /\ y.group.last = x.group.last /\ y.group.exists = x.group.exists
    BY <2>1, QuietEffects
  <2> QED
    BY <1>3, <2>1, <2>2 DEF UnreadNotHanded
<1> QED
  BY <1>2, <1>3 DEF UnreadNotHanded

(***************************************************************************)
(* Where no entry is settled or claimed, owners and rereads stay too.      *)
(***************************************************************************)
StillStep ==
  /\ st' \in [StreamKeys -> Stored]
  /\ \A s \in StreamKeys : Still(st[s], st'[s])

(***************************************************************************)
(* What such a step leaves of a stream.                                    *)
(***************************************************************************)
LEMMA StillEffects ==
  ASSUME CoreInv, StillStep, NEW s \in StreamKeys
  PROVE  /\ \A k \in DOMAIN st'[s].entries :
              \E i \in DOMAIN st[s].entries : st'[s].entries[k] = st[s].entries[i]
         /\ st'[s].group.exists => st'[s].group = st[s].group
         /\ \A i \in DOMAIN st'[s].group.pending : st'[s].group = st[s].group
<1>1. PICK x \in Stored, y \in Stored : x = st[s] /\ y = st'[s] /\ Quiet(x, y)
                                        /\ (y.group = Nobody \/ y.group = x.group)
  BY DEF StillStep, Still, CoreInv, BaseInv, StoreTypes
<1>2. \A k \in DOMAIN y.entries : \E i \in DOMAIN x.entries : y.entries[k] = x.entries[i]
  BY <1>1, QuietEffects
<1>3. Nobody.exists = FALSE /\ DOMAIN Nobody.pending = {}
  BY AbsentStored
<1>4. y.group.exists => y.group = x.group
  BY <1>1, <1>3
<1>5. \A i \in DOMAIN y.group.pending : y.group = x.group
  BY <1>1, <1>3
<1> QED
  BY <1>1, <1>2, <1>4, <1>5

(***************************************************************************)
(* Entries to be read again stay pending.                                  *)
(***************************************************************************)
LEMMA CalmRereads ==
  ASSUME CoreInv, RereadsPending, StillStep, Calm, crossed' = crossed
  PROVE  RereadsPending'
<1> SUFFICES ASSUME busy'.op = "deliver", ~busy'.new PROVE RereadsPending'
  BY DEF RereadsPending
<1>1. busy' = busy
  BY CalmFacts
<1>2. busy \in Delivering
  BY <1>1, BusyKinds DEF CoreInv, BaseInv
<1> SUFFICES ASSUME NEW s \in Range(busy.todo), st'[s].group.exists
    PROVE
      /\ \A i \in ToIDs(busy.plan[s]) : UpTo(i, st'[s].group.last)
      /\ \A k \in DOMAIN st'[s].entries :
           st'[s].entries[k].id \in ToIDs(busy.plan[s]) =>
             \/ st'[s].entries[k].id \in DOMAIN st'[s].group.pending
             \/ st'[s].entries[k].val \in crossed
  BY <1>1 DEF RereadsPending
<1>3. s \in StreamKeys
  BY <1>2, DeliveringFields DEF Range
<1>4. /\ st'[s].group = st[s].group
      /\ \A k \in DOMAIN st'[s].entries :
           \E i \in DOMAIN st[s].entries : st'[s].entries[k] = st[s].entries[i]
  BY <1>3, StillEffects
<1>5. /\ \A i \in ToIDs(busy.plan[s]) : UpTo(i, st[s].group.last)
      /\ \A k \in DOMAIN st[s].entries :
           st[s].entries[k].id \in ToIDs(busy.plan[s]) =>
             \/ st[s].entries[k].id \in DOMAIN st[s].group.pending
             \/ st[s].entries[k].val \in crossed
  BY <1>1, <1>4 DEF RereadsPending
<1>6. ASSUME NEW k \in DOMAIN st'[s].entries, st'[s].entries[k].id \in ToIDs(busy.plan[s])
      PROVE  \/ st'[s].entries[k].id \in DOMAIN st'[s].group.pending
             \/ st'[s].entries[k].val \in crossed
  <2>1. PICK i \in DOMAIN st[s].entries : st'[s].entries[k] = st[s].entries[i]
    BY <1>4
  <2> QED
    BY <1>4, <1>5, <1>6, <2>1
<1> QED
  BY <1>4, <1>5, <1>6

(***************************************************************************)
(* Owners stay the ones that were told.                                    *)
(***************************************************************************)
LEMMA CalmOwners ==
  ASSUME CoreInv, OwnersTold, DoneHeld, StillStep, Calm, knows' = knows,
         busy' = busy \/ busy.op # "deliver"
  PROVE  OwnersTold' /\ DoneHeld'
<1>1. Done' = Done /\ (busy' = busy \/ Done = {})
  <2>1. CASE busy' = busy
    BY <2>1 DEF Done
  <2>2. CASE busy.op # "deliver" /\ busy' # busy
    <3>1. busy'.op # "deliver"
      BY <2>2, CalmFacts
    <3> QED
      BY <2>2, <3>1 DEF Done
  <2> QED
    BY <2>1, <2>2
<1>2. ASSUME NEW s \in StreamKeys, NEW k \in DOMAIN st'[s].entries, NEW i,
             i = st'[s].entries[k].id, i \in DOMAIN st'[s].group.pending
      PROVE  \/ knows[st'[s].entries[k].val] \in {st'[s].group.pending[i], "lost"}
             \/ s \in Done /\ i \in ToIDs(busy.plan[s])
  <2>1. st'[s].group = st[s].group
    BY <1>2, StillEffects
  <2>2. PICK j \in DOMAIN st[s].entries : st'[s].entries[k] = st[s].entries[j]
    BY StillEffects
  <2> QED
    BY <1>2, <2>1, <2>2 DEF OwnersTold
<1>3. OwnersTold'
  BY <1>1, <1>2 DEF OwnersTold
<1>4. ASSUME NEW s \in Done, NEW i \in ToIDs(busy.plan[s]) \cap DOMAIN st'[s].group.pending
      PROVE  st'[s].group.pending[i] = busy.consumer
  <2>1. s \in StreamKeys
    <3>1. busy.op = "deliver" /\ s \in Found(busy.plan)
      BY DEF Done
    <3> QED
      BY <3>1, BusyKinds, DeliveringFields DEF CoreInv, BaseInv
  <2>2. st'[s].group = st[s].group
    BY <2>1, StillEffects
  <2> QED
    BY <2>2 DEF DoneHeld
<1>5. DoneHeld'
  BY <1>1, <1>4 DEF DoneHeld
<1> QED
  BY <1>3, <1>5

(***************************************************************************)
(* Together: a step of this kind keeps the whole invariant.                *)
(***************************************************************************)
LEMMA StillDeep ==
  ASSUME CoreInv, DeepInv, StillStep, Calm, UNCHANGED <<handed, knows, crossed>>,
         busy' = busy \/ busy.op # "deliver"
  PROVE  DeepInv'
<1>1. QuietStep
  BY DEF StillStep, QuietStep, Still
<1> QED
  BY <1>1, QuietBehind, CalmAhead, CalmDistinct, CalmPlan, CalmHolds, CalmNew, CalmHanded,
     CalmRereads, CalmOwners DEF DeepInv

(***************************************************************************)
(* Expiry, deletion, SET, trimming, flushing and the first half of XADD    *)
(* are steps of this kind.                                                 *)
(***************************************************************************)
LEMMA StillWritten ==
  ASSUME CoreInv, NEW s \in StreamKeys, NEW y \in Stored, st' = [st EXCEPT ![s] = y], Still(st[s], y)
  PROVE  StillStep
<1>1. st \in [StreamKeys -> Stored]
  BY DEF CoreInv, BaseInv, StoreTypes
<1>2. /\ st' \in [StreamKeys -> Stored] /\ st'[s] = y
      /\ \A t \in StreamKeys : t # s => st'[t] = st[t]
  BY <1>1, KeyWritten
<1>3. \A t \in StreamKeys : Still(st[t], st[t])
  BY <1>1, QuietAbsent
<1> QED
  BY <1>2, <1>3 DEF StillStep

(***************************************************************************)
(* A step that leaves the store alone.                                     *)
(***************************************************************************)
LEMMA UnchangedStill ==
  ASSUME CoreInv, st' = st
  PROVE  StillStep
<1>1. st \in [StreamKeys -> Stored]
  BY DEF CoreInv, BaseInv, StoreTypes
<1>2. \A t \in StreamKeys : Still(st[t], st[t])
  BY <1>1, QuietAbsent
<1> QED
  BY <1>1, <1>2 DEF StillStep

(***************************************************************************)
(* Expiry, deletion and SET.                                               *)
(***************************************************************************)
LEMMA KeyDeep ==
  ASSUME CoreInv, DeepInv, NEW s \in StreamKeys, Lapse(s) \/ deleteKeyLocked(s) \/ Set(s)
  PROVE  DeepInv'
<1>1. PICK y \in Stored : st' = [st EXCEPT ![s] = y] /\ Still(st[s], y)
  BY KeyActionWrites DEF CoreInv
<1>2. StillStep
  BY <1>1, StillWritten
<1>3. UNCHANGED <<busy, added, handed, knows, crossed>>
  BY DEF Lapse, deleteKeyLocked, Set, histVars
<1> QED
  BY <1>2, <1>3, StillDeep DEF Calm

(***************************************************************************)
(* XTRIM that keeps an entry.                                              *)
(***************************************************************************)
LEMMA TrimDeep ==
  ASSUME CoreInv, DeepInv, NEW s \in StreamKeys, NEW n \in TrimLens, 0 \notin TrimLens, XTrim(s, n)
  PROVE  DeepInv'
<1>1. PICK y \in Stored : st' = [st EXCEPT ![s] = y] /\ (n # 0 => Still(st[s], y))
  BY TrimWrites DEF CoreInv
<1>2. StillStep
  BY <1>1, StillWritten
<1>3. UNCHANGED <<busy, added, handed, knows, crossed>>
  BY DEF XTrim, histVars
<1> QED
  BY <1>2, <1>3, StillDeep DEF Calm

(***************************************************************************)
(* FLUSHDB.                                                                *)
(***************************************************************************)
LEMMA FlushDeep ==
  ASSUME CoreInv, DeepInv, FlushDB
  PROVE  DeepInv'
<1>1. StillStep
  BY FlushWrites DEF StillStep, CoreInv
<1>2. UNCHANGED <<busy, added, handed, knows, crossed>>
  BY DEF FlushDB, histVars
<1> QED
  BY <1>1, <1>2, StillDeep DEF Calm

(***************************************************************************)
(* Steps of callers, and an XADD that ends without an entry.               *)
(***************************************************************************)
LEMMA CallDeep ==
  ASSUME CoreInv, DeepInv, UNCHANGED <<st, added, handed, knows, crossed>>,
         busy' = busy \/ (busy' = Free /\ busy.op # "deliver")
  PROVE  DeepInv'
<1>1. StillStep
  BY UnchangedStill
<1> QED
  BY <1>1, StillDeep DEF Calm

(***************************************************************************)
(* NextStreamID: the new ID is after the group's last.                     *)
(***************************************************************************)
LEMMA PrepareCalm ==
  ASSUME CoreInv, DeepInv, NEW s \in StreamKeys, NEW arg \in IDArgs, NEW ms \in Millis,
         NextStreamID(s, arg, ms)
  PROVE  StillStep /\ Calm /\ busy.op # "deliver" /\ UNCHANGED <<handed, knows, crossed>>
<1>1. /\ busy' \in Adding /\ busy'.stream = s /\ busy'.val = added + 1
      /\ \E x \in Stored : /\ x = expiredKeyLocked(st[s]) /\ ~x.other
                           /\ compareID(lastIDLocked(x), busy'.id)
                           /\ compareID(Zero, busy'.id)
  BY PrepareBase DEF CoreInv
<1>2. PICK x \in Stored : /\ x = expiredKeyLocked(st[s]) /\ ~x.other
                          /\ compareID(lastIDLocked(x), busy'.id)
                          /\ compareID(Zero, busy'.id)
  BY <1>1
<1>3. PICK y \in Stored : st' = [st EXCEPT ![s] = y] /\ Still(st[s], y)
  BY PrepareWrites DEF CoreInv
<1>4. StillStep
  BY <1>3, StillWritten
<1>5. st[s] \in Stored /\ st \in [StreamKeys -> Stored]
  BY DEF CoreInv, BaseInv, StoreTypes
<1>6. x = Absent \/ x = st[s]
  BY <1>2, <1>5, ExpiredStored
<1>7. st'[s].group = x.group
  <2>1. PICK n : st' = [st EXCEPT ![s] = [x EXCEPT !.seq = n]]
    BY <1>2 DEF NextStreamID
  <2>2. st'[s] = [x EXCEPT !.seq = n]
    BY <1>5, <2>1
  <2> QED
    BY <2>2 DEF Stored
<1>8. PICK id \in IDs : id = busy'.id
  BY <1>1 DEF Adding
<1>9. compareID(x.group.last, id)
  <2>1. CASE x = Absent
    BY <1>2, <1>8, <2>1, AbsentStored
  <2>2. CASE x = st[s]
    <3>1. UpTo(x.group.last, lastIDLocked(x))
      BY <1>2, <2>2 DEF DeepInv, GroupsBehind
    <3>2. \A i, j \in DOMAIN x.entries : i < j => compareID(x.entries[i].id, x.entries[j].id)
      BY <2>2 DEF CoreInv, BaseInv, IDsRise
    <3>3. lastIDLocked(x) \in IDs /\ x.group.last \in IDs
      BY <3>2, LastIsLast, StoredFields
    <3> QED
      BY <1>2, <1>8, <3>1, <3>3, IDOrder DEF UpTo
  <2> QED
    BY <1>6, <2>1, <2>2
<1>10. /\ added' = added + 1 /\ busy.op # "deliver" /\ UNCHANGED <<handed, knows, crossed>>
  BY DEF NextStreamID, Free, histVars
<1>11. compareID(st'[busy'.stream].group.last, busy'.id) /\ compareID(Zero, busy'.id)
  BY <1>1, <1>2, <1>7, <1>8, <1>9
<1>12. Calm
  BY <1>1, <1>10, <1>11 DEF Calm
<1> QED
  BY <1>4, <1>10, <1>12

(***************************************************************************)
(* Hence it keeps the invariant.                                           *)
(***************************************************************************)
LEMMA PrepareDeep ==
  ASSUME CoreInv, DeepInv, NEW s \in StreamKeys, NEW arg \in IDArgs, NEW ms \in Millis,
         NextStreamID(s, arg, ms)
  PROVE  DeepInv'
BY PrepareCalm, StillDeep

(***************************************************************************)
(* XAddPrepared that refuses.                                              *)
(***************************************************************************)
LEMMA RefusedDeep ==
  ASSUME CoreInv, DeepInv, busy \in Adding, NEW s \in StreamKeys,
         st' = [st EXCEPT ![s] = expiredKeyLocked(@)], busy' = Free,
         UNCHANGED <<added, handed, knows, crossed>>
  PROVE  DeepInv'
<1>1. PICK y \in Stored : st' = [st EXCEPT ![s] = y] /\ Still(st[s], y)
  BY KeyActionWrites DEF CoreInv
<1>2. StillStep
  BY <1>1, StillWritten
<1>3. busy.op # "deliver"
  BY DEF Adding
<1> QED
  BY <1>2, <1>3, StillDeep DEF Calm

(***************************************************************************)
(* Acknowledgements.                                                       *)
(***************************************************************************)
LEMMA QuietWritten ==
  ASSUME CoreInv, NEW s \in StreamKeys, NEW y \in Stored, st' = [st EXCEPT ![s] = y], Quiet(st[s], y)
  PROVE  /\ QuietStep /\ st'[s] = y /\ \A t \in StreamKeys : t # s => st'[t] = st[t]
<1>1. st \in [StreamKeys -> Stored]
  BY DEF CoreInv, BaseInv, StoreTypes
<1>2. /\ st' \in [StreamKeys -> Stored] /\ st'[s] = y
      /\ \A t \in StreamKeys : t # s => st'[t] = st[t]
  BY <1>1, KeyWritten
<1>3. \A t \in StreamKeys : Quiet(st[t], st[t])
  BY <1>1, QuietAbsent DEF Still
<1> QED
  BY <1>2, <1>3 DEF QuietStep

(***************************************************************************)
(* XACK, of a client or of a link.                                         *)
(***************************************************************************)
LEMMA AckDeep ==
  ASSUME CoreInv, DeepInv, NEW s \in StreamKeys, NEW ids, XAckHandler(s, ids) \/ PeerXAck(s, ids)
  PROVE  DeepInv'
<1>1. XAck(s, ids)
  BY DEF XAckHandler, PeerXAck
<1>2. PICK y \in Stored :
        /\ st' = [st EXCEPT ![s] = y] /\ Quiet(st[s], y)
        /\ y.entries = st[s].entries /\ y.group.last = st[s].group.last
        /\ DOMAIN y.group.pending = DOMAIN st[s].group.pending \ ids
        /\ \A i \in DOMAIN y.group.pending : y.group.pending[i] = st[s].group.pending[i]
  BY <1>1, AckWrites DEF CoreInv
<1>3. QuietStep /\ st'[s] = y /\ \A t \in StreamKeys : t # s => st'[t] = st[t]
  BY <1>2, QuietWritten
<1>4. UNCHANGED <<busy, added, handed, knows>> /\ Calm
  BY <1>1 DEF XAck, Calm
<1>5. /\ GroupsBehind' /\ XAddAhead' /\ Distinct' /\ PlanInOrder' /\ PlanHolds' /\ NewUnread'
      /\ UnreadNotHanded'
  BY <1>3, <1>4, QuietBehind, CalmAhead, CalmDistinct, CalmPlan, CalmHolds, CalmNew, CalmHanded
     DEF DeepInv
<1>6. \A t \in StreamKeys :
        /\ st'[t].entries = st[t].entries /\ st'[t].group.last = st[t].group.last
        /\ DOMAIN st'[t].group.pending \subseteq DOMAIN st[t].group.pending
        /\ \A i \in DOMAIN st'[t].group.pending : st'[t].group.pending[i] = st[t].group.pending[i]
  BY <1>2, <1>3
<1>7. Done' = Done /\ Done \subseteq StreamKeys
  <2>1. Done' = Done
    BY <1>4 DEF Done
  <2>2. Done \subseteq StreamKeys
    BY BusyKinds, DeliveringFields DEF Done, CoreInv, BaseInv
  <2> QED
    BY <2>1, <2>2
<1>8. OwnersTold'
  BY <1>4, <1>6, <1>7 DEF DeepInv, OwnersTold
<1>9. DoneHeld'
  BY <1>4, <1>6, <1>7 DEF DeepInv, DoneHeld
<1>10. RereadsPending'
  <2> SUFFICES ASSUME busy.op = "deliver", ~busy.new, NEW t \in Range(busy.todo),
                      st'[t].group.exists
      PROVE
        /\ \A i \in ToIDs(busy.plan[t]) : UpTo(i, st'[t].group.last)
        /\ \A k \in DOMAIN st'[t].entries :
             st'[t].entries[k].id \in ToIDs(busy.plan[t]) =>
               \/ st'[t].entries[k].id \in DOMAIN st'[t].group.pending
               \/ st'[t].entries[k].val \in crossed'
    BY <1>4 DEF RereadsPending
  <2>1. PeerXAck(s, ids)
    BY DEF XAckHandler, Free
  <2>2. crossed' = crossed \cup ValsAt(st[s], ids \cap Rereading(s))
    BY <2>1 DEF PeerXAck
  <2>3. t \in StreamKeys
    BY BusyKinds, DeliveringFields DEF CoreInv, BaseInv, Range
  <2>4. st[t].group.exists
    <3>1. CASE t = s
      BY <1>1, <3>1 DEF XAck
    <3>2. CASE t # s
      BY <1>3, <2>3, <3>2
    <3> QED
      BY <3>1, <3>2
  <2>5. /\ \A i \in ToIDs(busy.plan[t]) : UpTo(i, st[t].group.last)
        /\ \A k \in DOMAIN st[t].entries :
             st[t].entries[k].id \in ToIDs(busy.plan[t]) =>
               \/ st[t].entries[k].id \in DOMAIN st[t].group.pending
               \/ st[t].entries[k].val \in crossed
    BY <2>4 DEF DeepInv, RereadsPending
  <2>6. ASSUME NEW k \in DOMAIN st[t].entries, st[t].entries[k].id \in ToIDs(busy.plan[t])
        PROVE  \/ st[t].entries[k].id \in DOMAIN st'[t].group.pending
               \/ st[t].entries[k].val \in crossed'
    <3>1. CASE t # s
      BY <1>3, <2>2, <2>3, <2>5, <2>6, <3>1
    <3>2. CASE t = s
      <4>1. CASE st[t].entries[k].id \in ids
        <5>1. st[t].entries[k].id \in Rereading(s)
          BY <2>6, <3>2 DEF Rereading
        <5>2. st[t].entries[k].val \in ValsAt(st[s], ids \cap Rereading(s))
          BY <2>6, <3>2, <4>1, <5>1 DEF ValsAt
        <5> QED
          BY <2>2, <5>2
      <4>2. CASE st[t].entries[k].id \notin ids
        BY <1>2, <1>3, <2>2, <2>5, <2>6, <3>2, <4>2
      <4> QED
        BY <4>1, <4>2
    <3> QED
      BY <3>1, <3>2
  <2> QED
    BY <1>6, <2>3, <2>5, <2>6
<1> QED
  BY <1>5, <1>8, <1>9, <1>10 DEF DeepInv

(***************************************************************************)
(* Claims: whoever claims an entry is sent it.                             *)
(***************************************************************************)
LEMMA ValsAtPlace ==
  ASSUME CoreInv, Distinct, NEW s \in StreamKeys, NEW t \in StreamKeys,
         NEW k \in DOMAIN st[t].entries, NEW d
  PROVE  st[t].entries[k].val \in ValsAt(st[s], d) <=> (t = s /\ st[t].entries[k].id \in d)
<1>1. ASSUME st[t].entries[k].val \in ValsAt(st[s], d) PROVE t = s /\ st[t].entries[k].id \in d
  <2>1. PICK i \in DOMAIN st[s].entries : /\ st[s].entries[i].id \in d
                                          /\ st[t].entries[k].val = st[s].entries[i].val
    BY <1>1 DEF ValsAt
  <2>2. t = s /\ k = i
    BY <2>1 DEF Distinct
  <2> QED
    BY <2>1, <2>2
<1>2. ASSUME t = s, st[t].entries[k].id \in d PROVE st[t].entries[k].val \in ValsAt(st[s], d)
  BY <1>2 DEF ValsAt
<1> QED
  BY <1>1, <1>2

(***************************************************************************)
(* XCLAIM and XAUTOCLAIM.                                                  *)
(***************************************************************************)
LEMMA ClaimDeep ==
  ASSUME CoreInv, DeepInv, NEW s \in StreamKeys, NEW c \in Consumers, Claims(s, c)
  PROVE  DeepInv'
<1>1. PICK ids, ripe : ids \in SUBSET DOMAIN st[s].group.pending /\ Claim(s, c, ids, ripe)
  BY DEF Claims
<1>2. PICK y \in Stored :
        /\ st' = [st EXCEPT ![s] = y] /\ Quiet(st[s], y)
        /\ y.entries = st[s].entries
        /\ DOMAIN y.group.pending = DOMAIN st[s].group.pending
        /\ \A i \in DOMAIN y.group.pending :
             y.group.pending[i] = IF i \in ids \cap ripe THEN c ELSE st[s].group.pending[i]
  BY <1>1, ClaimWrites DEF Claims, CoreInv
<1>3. QuietStep /\ st'[s] = y /\ \A t \in StreamKeys : t # s => st'[t] = st[t]
  BY <1>2, QuietWritten
<1>4. UNCHANGED <<busy, added, handed, crossed>> /\ Calm /\ busy.op = "none"
  BY DEF Claims, Calm, Free
<1>5. /\ GroupsBehind' /\ XAddAhead' /\ Distinct' /\ PlanInOrder' /\ PlanHolds' /\ NewUnread'
      /\ UnreadNotHanded'
  BY <1>3, <1>4, QuietBehind, CalmAhead, CalmDistinct, CalmPlan, CalmHolds, CalmNew, CalmHanded
     DEF DeepInv
<1>6. Done = {} /\ Done' = {} /\ RereadsPending' /\ DoneHeld'
  BY <1>4 DEF Done, RereadsPending, DoneHeld
<1>7. PICK d : d = ids \cap ripe
  OBVIOUS
<1>8. knows' = Learned(c, ValsAt(st[s], d))
  BY <1>1, <1>7 DEF Claim
<1>9. ASSUME NEW t \in StreamKeys, NEW k \in DOMAIN st[t].entries, NEW i, i = st[t].entries[k].id,
             i \in DOMAIN st'[t].group.pending
      PROVE  knows'[st[t].entries[k].val] \in {st'[t].group.pending[i], "lost"}
  <2>1. PICK v \in Entries : v = st[t].entries[k].val
    BY StoredFields DEF CoreInv, BaseInv, StoreTypes
  <2>2. knows'[v] = IF v \in ValsAt(st[s], d) THEN c ELSE knows[v]
    BY <1>8 DEF Learned
  <2>3. v \in ValsAt(st[s], d) <=> (t = s /\ i \in d)
    BY <1>9, <2>1, ValsAtPlace DEF DeepInv
  <2>4. CASE t = s /\ i \in d
    BY <1>2, <1>3, <1>7, <1>9, <2>1, <2>2, <2>3, <2>4
  <2>5. CASE ~(t = s /\ i \in d)
    <3>1. knows'[v] = knows[v]
      BY <2>2, <2>3, <2>5
    <3>2. i \in DOMAIN st[t].group.pending /\ st'[t].group.pending[i] = st[t].group.pending[i]
      BY <1>2, <1>3, <1>7, <1>9, <2>5
    <3>3. knows[v] \in {st[t].group.pending[i], "lost"}
      BY <1>6, <1>9, <2>1, <3>2 DEF DeepInv, OwnersTold
    <3> QED
      BY <2>1, <3>1, <3>2, <3>3
  <2> QED
    BY <2>4, <2>5
<1>10. \A t \in StreamKeys : st'[t].entries = st[t].entries
  BY <1>2, <1>3
<1>11. OwnersTold'
  BY <1>9, <1>10 DEF OwnersTold
<1> QED
  BY <1>5, <1>6, <1>11 DEF DeepInv

-----------------------------------------------------------------------------
(***************************************************************************)
(* A stream with one more entry: which entries there are now, and which    *)
(* group.                                                                  *)
(***************************************************************************)
Grown(s, x, n, id, v) ==
  /\ s \in StreamKeys /\ x \in Stored /\ (x = st[s] \/ x = Absent) /\ id \in IDs /\ v \in Entries
  /\ lastIDLocked(x) \in IDs /\ compareID(lastIDLocked(x), id)
  /\ \A t \in StreamKeys : \A k \in DOMAIN st'[t].entries :
       \/ t = s /\ k = n /\ st'[t].entries[k].id = id /\ st'[t].entries[k].val = v
       \/ /\ k \in DOMAIN st[t].entries /\ st'[t].entries[k] = st[t].entries[k]
          /\ t = s => x = st[s] /\ k # n
  /\ st' \in [StreamKeys -> Stored]
  /\ st'[s].group = x.group /\ st'[s].other = x.other /\ lastIDLocked(st'[s]) = id
  /\ n \in DOMAIN st'[s].entries /\ st'[s].entries[n].id = id /\ st'[s].entries[n].val = v
  /\ \A t \in StreamKeys : t # s => st'[t] = st[t]

(***************************************************************************)
(* An append, seen so.                                                     *)
(***************************************************************************)
LEMMA AppendGrows ==
  ASSUME CoreInv, NEW s \in StreamKeys, NEW x, NEW id, NEW v, Appends(s, x, id, v)
  PROVE  \E n : Grown(s, x, n, id, v)
<1>1. /\ x \in Stored /\ (x = st[s] \/ x = Absent) /\ id \in IDs /\ v \in Entries
      /\ compareID(lastIDLocked(x), id)
  BY DEF Appends
<1>2. PICK y : y = WithEntry(x, id, v)
  OBVIOUS
<1>3. PICK n : Longer(x, y, n, id, v)
  BY <1>1, <1>2, WithEntryFacts
<1>4. y \in Stored
  BY <1>3 DEF Longer
<1>5. /\ st' \in [StreamKeys -> Stored] /\ st'[s] = y
      /\ \A t \in StreamKeys : t # s => st'[t] = st[t]
  <2>1. st' = [st EXCEPT ![s] = y] /\ st \in [StreamKeys -> Stored]
    BY <1>2 DEF Appends, CoreInv, BaseInv, StoreTypes
  <2> QED
    BY <1>4, <2>1, KeyWritten
<1>6. ASSUME NEW t \in StreamKeys, NEW k \in DOMAIN st'[t].entries
      PROVE  \/ t = s /\ k = n /\ st'[t].entries[k].id = id /\ st'[t].entries[k].val = v
             \/ /\ k \in DOMAIN st[t].entries /\ st'[t].entries[k] = st[t].entries[k]
                /\ t = s => x = st[s] /\ k # n
  <2>1. CASE t # s
    BY <1>5, <1>6, <2>1
  <2>2. CASE t = s
    <3>1. k \in 1..n
      BY <1>3, <1>5, <1>6, <2>2 DEF Longer
    <3>2. CASE k = n
      BY <1>3, <1>5, <2>2, <3>2 DEF Longer
    <3>3. CASE k # n
      <4>1. k \in 1..(n - 1) /\ DOMAIN x.entries = 1..(n - 1) /\ y.entries[k] = x.entries[k]
        BY <1>3, <3>1, <3>3 DEF Longer
      <4>2. k \in DOMAIN x.entries
        BY <4>1
      <4>3. x # Absent
        <5>1. DOMAIN <<>> = {}
          OBVIOUS
        <5> QED
          BY <4>2, <5>1, AbsentStored
      <4> QED
        BY <1>1, <1>5, <2>2, <3>3, <4>1, <4>2, <4>3
    <3> QED
      BY <3>2, <3>3
  <2> QED
    BY <2>1, <2>2
<1>7. /\ y.group = x.group /\ y.other = x.other /\ lastIDLocked(y) = id
      /\ n \in DOMAIN y.entries /\ y.entries[n].id = id /\ y.entries[n].val = v
  BY <1>3 DEF Longer
<1>8. lastIDLocked(x) \in IDs
  <2>1. \A i, j \in DOMAIN x.entries : i < j => compareID(x.entries[i].id, x.entries[j].id)
    BY <1>1, AbsentStored DEF CoreInv, BaseInv, IDsRise
  <2> QED
    BY <1>1, <2>1, LastIsLast
<1> QED
  BY <1>1, <1>5, <1>6, <1>7, <1>8 DEF Grown

(***************************************************************************)
(* The entry is new, and its ID is after the group's last; the XADD is a   *)
(* link's, or the one of the handler.                                      *)
(***************************************************************************)
Fresh(x, id, v) ==
  /\ compareID(x.group.last, id)
  /\ added' \in Nat /\ added <= added' /\ v <= added'
  /\ \/ busy' = busy /\ v = added + 1 /\ added' = added + 1 /\ ~x.other
     \/ busy' = Free /\ busy.op = "xadd" /\ busy.val = v /\ added' = added

(***************************************************************************)
(* The entry was in no stream before.                                      *)
(***************************************************************************)
LEMMA FreshFacts ==
  ASSUME CoreInv, Distinct, NEW x, NEW id, NEW v \in Entries, Fresh(x, id, v)
  PROVE  /\ \A t \in StreamKeys : \A k \in DOMAIN st[t].entries :
              st[t].entries[k].val # v /\ st[t].entries[k].val \in Nat
         /\ added \in Nat
         /\ v > added \/ (busy.op = "xadd" /\ busy.val = v)
         /\ busy'.op = "deliver" => busy' = busy /\ v > added
         /\ busy'.op = "xadd" => busy' = busy /\ busy.val # v
<1>1. added \in Nat
  BY StreamsAssumption DEF CoreInv, BaseInv, StoreTypes
<1>2. v \in Nat
  BY DEF Entries
<1>3. ASSUME NEW t \in StreamKeys, NEW k \in DOMAIN st[t].entries
      PROVE  st[t].entries[k].val # v /\ st[t].entries[k].val \in Nat
  <2>1. PICK w \in Entries : w = st[t].entries[k].val
    BY StoredFields DEF CoreInv, BaseInv, StoreTypes
  <2>2. w \in Nat /\ w <= added /\ (busy.op = "xadd" => w # busy.val)
    BY <2>1 DEF Distinct, Entries
  <2> QED
    BY <1>1, <1>2, <2>1, <2>2 DEF Fresh
<1>4. v > added \/ (busy.op = "xadd" /\ busy.val = v)
  BY <1>1 DEF Fresh
<1>5. Free.op = "none"
  BY DEF Free
<1>6. busy'.op = "deliver" => busy' = busy /\ v > added
  BY <1>1, <1>5 DEF Fresh
<1>7. busy'.op = "xadd" => busy' = busy /\ busy.val # v
  <2> SUFFICES ASSUME busy'.op = "xadd" PROVE busy' = busy /\ busy.val # v
    OBVIOUS
  <2>1. busy' = busy /\ v = added + 1
    BY <1>5 DEF Fresh
  <2>2. busy \in Adding /\ busy.val <= added
    BY <2>1, BusyKinds DEF CoreInv, BaseInv, Distinct
  <2>3. busy.val \in Nat
    BY <2>2 DEF Adding, Entries
  <2> QED
    BY <1>1, <2>1, <2>2, <2>3
<1> QED
  BY <1>1, <1>3, <1>4, <1>6, <1>7

(***************************************************************************)
(* Groups stay behind the streams, and the ID of an XADD ahead of them.    *)
(***************************************************************************)
LEMMA GrownBehind ==
  ASSUME CoreInv, DeepInv, NEW s, NEW x, NEW n, NEW id, NEW v, Grown(s, x, n, id, v), Fresh(x, id, v)
  PROVE  GroupsBehind' /\ XAddAhead'
<1>1. /\ s \in StreamKeys /\ x \in Stored /\ (x = st[s] \/ x = Absent) /\ id \in IDs
      /\ st'[s].group = x.group /\ st'[s].other = x.other /\ lastIDLocked(st'[s]) = id
      /\ \A t \in StreamKeys : t # s => st'[t] = st[t]
  BY DEF Grown
<1>2. x.group.last \in IDs /\ compareID(x.group.last, id)
  BY <1>1, StoredFields DEF Fresh
<1>3. UpTo(x.group.last, id)
  BY <1>1, <1>2, IDOrder DEF UpTo
<1>4. /\ \A i \in DOMAIN x.group.pending : UpTo(i, x.group.last)
      /\ ~x.group.exists => x.group = Nobody
  <2>1. CASE x = st[s]
    BY <1>1, <2>1 DEF DeepInv, GroupsBehind
  <2>2. CASE x = Absent
    BY <2>2, AbsentStored
  <2> QED
    BY <1>1, <2>1, <2>2
<1>5. GroupsBehind'
  <2> SUFFICES ASSUME NEW t \in StreamKeys
               PROVE  /\ ~st'[t].other => UpTo(st'[t].group.last, lastIDLocked(st'[t]))
                      /\ \A i \in DOMAIN st'[t].group.pending : UpTo(i, st'[t].group.last)
                      /\ ~st'[t].group.exists => st'[t].group = Nobody
    BY DEF GroupsBehind
  <2>1. CASE t = s
    BY <1>1, <1>3, <1>4, <2>1
  <2>2. CASE t # s
    <3>1. st'[t] = st[t]
      BY <1>1, <2>2
    <3> QED
      BY <3>1 DEF DeepInv, GroupsBehind
  <2> QED
    BY <2>1, <2>2
<1>6. XAddAhead'
  <2> SUFFICES ASSUME busy'.op = "xadd"
               PROVE  /\ compareID(st'[busy'.stream].group.last, busy'.id)
                      /\ compareID(Zero, busy'.id)
    BY DEF XAddAhead
  <2>1. busy' = busy
    BY DEF Fresh, Free
  <2>2. PICK b \in StreamKeys : b = busy.stream
    BY <2>1, BusyKinds DEF CoreInv, BaseInv, Adding
  <2>3. compareID(st[b].group.last, busy.id) /\ compareID(Zero, busy.id)
    BY <2>1, <2>2 DEF DeepInv, XAddAhead
  <2>4. st'[b].group = st[b].group \/ st'[b].group = Nobody
    BY <1>1, AbsentStored
  <2>5. Nobody.last = Zero
    BY AbsentStored
  <2>6. st'[b].group.last = st[b].group.last \/ st'[b].group.last = Zero
    BY <2>4, <2>5
  <2> QED
    BY <2>1, <2>2, <2>3, <2>6
<1> QED
  BY <1>5, <1>6

(***************************************************************************)
(* Every entry is in one place, and the plan stays in order.               *)
(***************************************************************************)
LEMMA GrownDistinct ==
  ASSUME CoreInv, DeepInv, NEW s, NEW x, NEW n, NEW id, NEW v, Grown(s, x, n, id, v), Fresh(x, id, v)
  PROVE  Distinct' /\ PlanInOrder'
<1>1. v \in Entries /\ v \in Nat
  BY DEF Grown, Entries
<1>2. /\ \A t \in StreamKeys : \A k \in DOMAIN st[t].entries :
              st[t].entries[k].val # v /\ st[t].entries[k].val \in Nat
      /\ added \in Nat
      /\ busy'.op = "deliver" => busy' = busy /\ v > added
      /\ busy'.op = "xadd" => busy' = busy /\ busy.val # v
  BY <1>1, FreshFacts DEF DeepInv
<1>3. added' \in Nat /\ added <= added' /\ v <= added'
  BY DEF Fresh
<1>4. \A t \in StreamKeys : \A k \in DOMAIN st'[t].entries :
        \/ t = s /\ k = n /\ st'[t].entries[k].val = v
        \/ /\ k \in DOMAIN st[t].entries /\ st'[t].entries[k] = st[t].entries[k]
  BY DEF Grown
<1>5. ASSUME NEW t \in StreamKeys, NEW k \in DOMAIN st'[t].entries
      PROVE  /\ st'[t].entries[k].val <= added'
             /\ busy'.op = "xadd" => st'[t].entries[k].val # busy'.val
  <2>1. CASE st'[t].entries[k].val = v
    BY <1>2, <1>3, <2>1
  <2>2. CASE k \in DOMAIN st[t].entries /\ st'[t].entries[k] = st[t].entries[k]
    <3>1. PICK w \in Nat : w = st[t].entries[k].val
      BY <1>2, <2>2
    <3>2. w <= added /\ (busy.op = "xadd" => w # busy.val)
      BY <2>2, <3>1 DEF DeepInv, Distinct
    <3> QED
      BY <1>2, <1>3, <2>2, <3>1, <3>2
  <2> QED
    BY <1>4, <2>1, <2>2
<1>6. busy'.op = "xadd" => busy'.val <= added'
  <2> SUFFICES ASSUME busy'.op = "xadd" PROVE busy'.val <= added'
    OBVIOUS
  <2>1. busy' = busy /\ busy \in Adding
    BY <1>2, BusyKinds DEF CoreInv, BaseInv
  <2>2. PICK w \in Nat : w = busy.val
    BY <2>1 DEF Adding, Entries
  <2>3. w <= added
    BY <2>1, <2>2 DEF DeepInv, Distinct
  <2> QED
    BY <1>2, <1>3, <2>1, <2>2, <2>3
<1>7. ASSUME NEW t \in StreamKeys, NEW u \in StreamKeys, NEW i \in DOMAIN st'[t].entries,
             NEW j \in DOMAIN st'[u].entries, st'[t].entries[i].val = st'[u].entries[j].val
      PROVE  t = u /\ i = j
  <2>1. CASE st'[t].entries[i].val = v
    <3>1. t = s /\ i = n
      BY <1>2, <1>4, <2>1
    <3>2. u = s /\ j = n
      BY <1>2, <1>4, <1>7, <2>1
    <3> QED
      BY <3>1, <3>2
  <2>2. CASE st'[t].entries[i].val # v
    <3>1. i \in DOMAIN st[t].entries /\ st'[t].entries[i] = st[t].entries[i]
      BY <1>4, <2>2
    <3>2. j \in DOMAIN st[u].entries /\ st'[u].entries[j] = st[u].entries[j]
      BY <1>4, <1>7, <2>2
    <3> QED
      BY <1>7, <3>1, <3>2 DEF DeepInv, Distinct
  <2> QED
    BY <2>1, <2>2
<1>8. Distinct'
  BY <1>5, <1>6, <1>7 DEF Distinct
<1>9. PlanInOrder'
  <2> SUFFICES ASSUME busy'.op = "deliver" PROVE PlanInOrder'
    BY DEF PlanInOrder
  <2>1. busy' = busy /\ busy \in Delivering
    BY <1>2, BusyKinds DEF CoreInv, BaseInv
  <2>2. ASSUME NEW t \in DOMAIN busy.plan, NEW i \in DOMAIN busy.plan[t]
        PROVE  busy.plan[t][i].val <= added'
    <3>1. busy.plan[t] \in Seq(StreamEntry)
      BY <2>1, DeliveringFields
    <3>2. busy.plan[t][i] \in StreamEntry
      BY <3>1
    <3>3. PICK w \in Nat : w = busy.plan[t][i].val
      BY <3>2 DEF StreamEntry, Entries
    <3>4. w <= added
      BY <2>1, <3>3 DEF DeepInv, PlanInOrder
    <3> QED
      BY <1>2, <1>3, <3>3, <3>4
  <2> QED
    BY <2>1, <2>2 DEF DeepInv, PlanInOrder
<1> QED
  BY <1>8, <1>9

(***************************************************************************)
(* What is planned for a stream comes before the entry that a link adds.   *)
(***************************************************************************)
LEMMA PlannedBefore ==
  ASSUME CoreInv, DeepInv, NEW s, NEW x, NEW n, NEW id, NEW v, Grown(s, x, n, id, v), Fresh(x, id, v),
         busy'.op = "deliver", s \in DOMAIN busy.plan, st'[s].group.exists
  PROVE  /\ x = st[s] /\ \A j \in DOMAIN busy.plan[s] : compareID(busy.plan[s][j].id, id)
         /\ id \notin ToIDs(busy.plan[s])
<1>1. /\ s \in StreamKeys /\ x \in Stored /\ (x = st[s] \/ x = Absent) /\ id \in IDs
      /\ st'[s].group = x.group /\ st'[s].other = x.other
      /\ lastIDLocked(x) \in IDs /\ compareID(lastIDLocked(x), id)
  BY DEF Grown
<1>2. busy' = busy /\ ~x.other
  BY DEF Fresh, Free
<1>3. x = st[s]
  BY <1>1, AbsentStored
<1>4. busy \in Delivering
  BY <1>2, BusyKinds DEF CoreInv, BaseInv
<1>5. ASSUME NEW j \in DOMAIN busy.plan[s]
      PROVE  busy.plan[s][j].id \in IDs /\ compareID(busy.plan[s][j].id, id)
  <2>1. busy.plan[s] \in Seq(StreamEntry)
    BY <1>4, DeliveringFields
  <2>2. busy.plan[s][j] \in StreamEntry
    BY <2>1
  <2>3. PICK i \in IDs : i = busy.plan[s][j].id
    BY <2>2 DEF StreamEntry
  <2>4. UpTo(i, lastIDLocked(x))
    BY <1>1, <1>2, <1>3, <2>3 DEF DeepInv, PlanHolds
  <2> QED
    BY <1>1, <2>3, <2>4, IDOrder DEF UpTo
<1>6. id \notin ToIDs(busy.plan[s])
  BY <1>1, <1>5, IDOrder DEF ToIDs
<1> QED
  BY <1>3, <1>5, <1>6

(***************************************************************************)
(* The new entry is not one of the planned ones, by value or by ID.        *)
(***************************************************************************)
LEMMA GrownHolds ==
  ASSUME CoreInv, DeepInv, NEW s, NEW x, NEW n, NEW id, NEW v, Grown(s, x, n, id, v), Fresh(x, id, v)
  PROVE  PlanHolds'
<1> SUFFICES ASSUME busy'.op = "deliver" PROVE PlanHolds'
  BY DEF PlanHolds
<1>1. /\ s \in StreamKeys /\ id \in IDs /\ v \in Entries
      /\ st'[s].other = x.other /\ lastIDLocked(st'[s]) = id
      /\ \A t \in StreamKeys : t # s => st'[t] = st[t]
      /\ st'[s].group = x.group
  BY DEF Grown
<1>2. busy' = busy /\ v > added /\ added \in Nat
  BY <1>1, FreshFacts DEF DeepInv
<1>3. busy \in Delivering
  BY <1>2, BusyKinds DEF CoreInv, BaseInv
<1> SUFFICES ASSUME NEW t \in DOMAIN busy.plan, NEW j \in DOMAIN busy.plan[t], NEW p,
                    p = busy.plan[t][j]
             PROVE
      /\ \A u \in StreamKeys : \A k \in DOMAIN st'[u].entries :
           st'[u].entries[k].val = p.val => u = t /\ st'[u].entries[k].id = p.id
      /\ st'[t].group.exists =>
           /\ \A k \in DOMAIN st'[t].entries :
                st'[t].entries[k].id = p.id => st'[t].entries[k].val = p.val
           /\ ~st'[t].other => UpTo(p.id, lastIDLocked(st'[t]))
  BY <1>2 DEF PlanHolds
<1>4. t \in StreamKeys /\ busy.plan[t] \in Seq(StreamEntry)
  BY <1>3, DeliveringFields
<1>5. p \in StreamEntry
  BY <1>4
<1>6. PICK w \in Nat, i \in IDs : w = p.val /\ i = p.id
  BY <1>5 DEF StreamEntry, Entries
<1>7. w <= added /\ v \in Nat
  BY <1>1, <1>2, <1>6 DEF DeepInv, PlanInOrder, Entries
<1>8. p.val # v
  BY <1>2, <1>6, <1>7
<1>9. /\ \A u \in StreamKeys : \A k \in DOMAIN st[u].entries :
           st[u].entries[k].val = p.val => u = t /\ st[u].entries[k].id = p.id
      /\ st[t].group.exists =>
           /\ \A k \in DOMAIN st[t].entries :
                st[t].entries[k].id = p.id => st[t].entries[k].val = p.val
           /\ ~st[t].other => UpTo(p.id, lastIDLocked(st[t]))
  BY <1>2 DEF DeepInv, PlanHolds
<1>10. ASSUME NEW u \in StreamKeys, NEW k \in DOMAIN st'[u].entries, st'[u].entries[k].val = p.val
       PROVE  u = t /\ st'[u].entries[k].id = p.id
  <2>1. k \in DOMAIN st[u].entries /\ st'[u].entries[k] = st[u].entries[k]
    BY <1>8, <1>10 DEF Grown
  <2> QED
    BY <1>9, <1>10, <2>1
<1>11. ASSUME st'[t].group.exists
       PROVE  /\ \A k \in DOMAIN st'[t].entries :
                   st'[t].entries[k].id = p.id => st'[t].entries[k].val = p.val
              /\ ~st'[t].other => UpTo(p.id, lastIDLocked(st'[t]))
  <2>1. CASE t # s
    BY <1>1, <1>4, <1>9, <1>11, <2>1
  <2>2. CASE t = s
    <3>1. x = st[s] /\ compareID(i, id) /\ i \in IDs
      BY <1>6, <1>11, <2>2, PlannedBefore
    <3>2. i # id /\ UpTo(i, id)
      BY <1>1, <3>1, IDOrder DEF UpTo
    <3>3. ASSUME NEW k \in DOMAIN st'[t].entries, st'[t].entries[k].id = p.id
          PROVE  st'[t].entries[k].val = p.val
      <4>1. k \in DOMAIN st[t].entries /\ st'[t].entries[k] = st[t].entries[k]
        BY <1>4, <1>6, <3>2, <3>3 DEF Grown
      <4> QED
        BY <1>1, <1>9, <1>11, <2>2, <3>1, <3>3, <4>1
    <3> QED
      BY <1>1, <1>6, <2>2, <3>2, <3>3
  <2> QED
    BY <2>1, <2>2
<1> QED
  BY <1>10, <1>11

(***************************************************************************)
(* It is unread, and after all that is planned.                            *)
(***************************************************************************)
LEMMA GrownReads ==
  ASSUME CoreInv, DeepInv, NEW s, NEW x, NEW n, NEW id, NEW v, Grown(s, x, n, id, v),
         Fresh(x, id, v), UNCHANGED <<handed, crossed>>
  PROVE  NewUnread' /\ RereadsPending'
<1> SUFFICES ASSUME busy'.op = "deliver" PROVE NewUnread' /\ RereadsPending'
  BY DEF NewUnread, RereadsPending
<1>1. /\ s \in StreamKeys /\ id \in IDs /\ v \in Entries
      /\ st'[s].group = x.group
      /\ \A t \in StreamKeys : t # s => st'[t] = st[t]
  BY DEF Grown
<1>2. busy' = busy
  BY <1>1, FreshFacts DEF DeepInv
<1>3. busy \in Delivering
  BY <1>2, BusyKinds DEF CoreInv, BaseInv
<1>4. ASSUME NEW t \in Range(busy.todo)
      PROVE  /\ t \in StreamKeys /\ t \in DOMAIN busy.plan /\ busy.plan[t] \in Seq(StreamEntry)
             /\ busy.plan[t] # <<>>
             /\ Len(busy.plan[t]) \in DOMAIN busy.plan[t]
             /\ Last(busy.plan[t]) = busy.plan[t][Len(busy.plan[t])]
  <2>1. t \in Found(busy.plan)
    BY <1>2 DEF CoreInv, TodoVisits
  <2>2. t \in StreamKeys /\ t \in DOMAIN busy.plan /\ busy.plan[t] # <<>>
    BY <1>3, <2>1, DeliveringFields DEF Found
  <2>3. PICK q \in Seq(StreamEntry) : q = busy.plan[t] /\ q # <<>>
    BY <1>3, <2>2, DeliveringFields
  <2>4. Len(q) \in DOMAIN q /\ Last(q) = q[Len(q)]
    BY <2>3 DEF Last
  <2> QED
    BY <2>2, <2>3, <2>4
<1>5. ASSUME NEW t \in Range(busy.todo), st'[t].group.exists
      PROVE  /\ st'[t].group = st[t].group
             /\ \A k \in DOMAIN st'[t].entries :
                  \/ /\ st'[t].entries[k].id \notin ToIDs(busy.plan[t])
                     /\ compareID(Last(busy.plan[t]).id, st'[t].entries[k].id)
                  \/ k \in DOMAIN st[t].entries /\ st'[t].entries[k] = st[t].entries[k]
  <2>0. t \in StreamKeys
    BY <1>4
  <2>1. CASE t # s
    BY <1>1, <2>0, <2>1
  <2>2. CASE t = s
    <3>1. /\ x = st[s] /\ \A j \in DOMAIN busy.plan[s] : compareID(busy.plan[s][j].id, id)
          /\ id \notin ToIDs(busy.plan[s])
      BY <1>4, <1>5, <2>2, PlannedBefore
    <3>2. compareID(Last(busy.plan[s]).id, id)
      BY <1>4, <2>2, <3>1
    <3>3. \A k \in DOMAIN st'[s].entries :
            \/ st'[s].entries[k].id = id
            \/ k \in DOMAIN st[s].entries /\ st'[s].entries[k] = st[s].entries[k]
      BY <1>1 DEF Grown
    <3> QED
      BY <1>1, <2>2, <3>1, <3>2, <3>3
  <2> QED
    BY <2>1, <2>2
<1>6. NewUnread'
  <2> SUFFICES ASSUME busy.new, NEW t \in Range(busy.todo)
      PROVE
        /\ \A j \in DOMAIN busy.plan[t] : handed[busy.plan[t][j].val] = 0
        /\ st'[t].group.exists =>
             /\ \A j \in DOMAIN busy.plan[t] : compareID(st'[t].group.last, busy.plan[t][j].id)
             /\ \A k \in DOMAIN st'[t].entries :
                  compareID(st'[t].group.last, st'[t].entries[k].id) =>
                    \/ st'[t].entries[k].id \in ToIDs(busy.plan[t])
                    \/ compareID(Last(busy.plan[t]).id, st'[t].entries[k].id)
    BY <1>2 DEF NewUnread
  <2>1. /\ \A j \in DOMAIN busy.plan[t] : handed[busy.plan[t][j].val] = 0
        /\ st[t].group.exists =>
             /\ \A j \in DOMAIN busy.plan[t] : compareID(st[t].group.last, busy.plan[t][j].id)
             /\ \A k \in DOMAIN st[t].entries :
                  compareID(st[t].group.last, st[t].entries[k].id) =>
                    \/ st[t].entries[k].id \in ToIDs(busy.plan[t])
                    \/ compareID(Last(busy.plan[t]).id, st[t].entries[k].id)
    BY <1>2 DEF DeepInv, NewUnread
  <2> QED
    BY <1>5, <2>1
<1>7. RereadsPending'
  <2> SUFFICES ASSUME ~busy.new, NEW t \in Range(busy.todo), st'[t].group.exists
      PROVE
        /\ \A i \in ToIDs(busy.plan[t]) : UpTo(i, st'[t].group.last)
        /\ \A k \in DOMAIN st'[t].entries :
             st'[t].entries[k].id \in ToIDs(busy.plan[t]) =>
               \/ st'[t].entries[k].id \in DOMAIN st'[t].group.pending
               \/ st'[t].entries[k].val \in crossed
    BY <1>2 DEF RereadsPending
  <2>1. st'[t].group = st[t].group
    BY <1>5
  <2>2. /\ \A i \in ToIDs(busy.plan[t]) : UpTo(i, st[t].group.last)
        /\ \A k \in DOMAIN st[t].entries :
             st[t].entries[k].id \in ToIDs(busy.plan[t]) =>
               \/ st[t].entries[k].id \in DOMAIN st[t].group.pending
               \/ st[t].entries[k].val \in crossed
    BY <1>2, <2>1 DEF DeepInv, RereadsPending
  <2> QED
    BY <1>5, <2>1, <2>2
<1> QED
  BY <1>6, <1>7

(***************************************************************************)
(* It is nobody's.                                                         *)
(***************************************************************************)
LEMMA GrownOwners ==
  ASSUME CoreInv, DeepInv, NEW s, NEW x, NEW n, NEW id, NEW v, Grown(s, x, n, id, v),
         Fresh(x, id, v), UNCHANGED <<handed, knows>>
  PROVE  UnreadNotHanded' /\ OwnersTold' /\ DoneHeld'
<1>1. /\ s \in StreamKeys /\ x \in Stored /\ id \in IDs /\ v \in Entries /\ v \in Nat
      /\ (x = st[s] \/ x = Absent) /\ st'[s].group = x.group
      /\ \A t \in StreamKeys : t # s => st'[t] = st[t]
  BY DEF Grown, Entries
<1>2. /\ added \in Nat
      /\ v > added \/ (busy.op = "xadd" /\ busy.val = v)
      /\ busy'.op = "deliver" => busy' = busy
      /\ busy'.op = "xadd" => busy' = busy /\ busy.val # v
  BY <1>1, FreshFacts DEF DeepInv
<1>3. handed[v] = 0
  BY <1>1, <1>2 DEF DeepInv, UnreadNotHanded
<1>4. \A t \in StreamKeys : \A k \in DOMAIN st'[t].entries :
        \/ t = s /\ st'[t].entries[k].id = id /\ st'[t].entries[k].val = v
        \/ /\ k \in DOMAIN st[t].entries /\ st'[t].entries[k] = st[t].entries[k]
           /\ st'[t].group = st[t].group
  BY <1>1 DEF Grown
<1>5. UnreadNotHanded'
  <2>1. ASSUME NEW w \in Entries, w > added' \/ (busy'.op = "xadd" /\ busy'.val = w)
        PROVE  handed[w] = 0
    <3>1. w \in Nat /\ added' \in Nat /\ added <= added'
      BY DEF Entries, Fresh
    <3>2. w > added \/ (busy.op = "xadd" /\ busy.val = w)
      BY <1>2, <2>1, <3>1
    <3> QED
      BY <3>2 DEF DeepInv, UnreadNotHanded
  <2>2. ASSUME NEW t \in StreamKeys, NEW k \in DOMAIN st'[t].entries,
               ~st'[t].group.exists \/ compareID(st'[t].group.last, st'[t].entries[k].id)
        PROVE  handed[st'[t].entries[k].val] = 0
    BY <1>3, <1>4, <2>2 DEF DeepInv, UnreadNotHanded
  <2> QED
    BY <2>1, <2>2 DEF UnreadNotHanded
<1>6. Done' = Done /\ (Done = {} \/ busy' = busy)
  <2>1. CASE busy' = busy
    BY <2>1 DEF Done
  <2>2. CASE busy' # busy
    <3>1. busy.op = "xadd" /\ busy'.op = "none"
      BY <2>2 DEF Fresh, Free
    <3> QED
      BY <3>1 DEF Done
  <2> QED
    BY <2>1, <2>2
<1>7. id \notin DOMAIN x.group.pending
  <2>1. CASE x = Absent
    BY <2>1, AbsentStored
  <2>2. CASE x = st[s]
    <3>1. compareID(x.group.last, id)
      BY DEF Fresh
    <3> QED
      BY <1>1, <2>2, <3>1 DEF DeepInv, GroupsBehind, UpTo
  <2> QED
    BY <1>1, <2>1, <2>2
<1>8. OwnersTold'
  <2>1. ASSUME NEW t \in StreamKeys, NEW k \in DOMAIN st'[t].entries, NEW i,
               i = st'[t].entries[k].id, i \in DOMAIN st'[t].group.pending
        PROVE  \/ knows'[st'[t].entries[k].val] \in {st'[t].group.pending[i], "lost"}
               \/ t \in Done' /\ i \in ToIDs(busy'.plan[t])
    <3>1. ~(t = s /\ i = id)
      BY <1>1, <1>7, <2>1
    <3>2. k \in DOMAIN st[t].entries /\ st'[t].entries[k] = st[t].entries[k]
          /\ st'[t].group = st[t].group
      BY <1>4, <2>1, <3>1
    <3>3. \/ knows[st[t].entries[k].val] \in {st[t].group.pending[i], "lost"}
          \/ t \in Done /\ i \in ToIDs(busy.plan[t])
      BY <2>1, <3>2 DEF DeepInv, OwnersTold
    <3> QED
      BY <1>6, <3>2, <3>3
  <2> QED
    BY <2>1 DEF OwnersTold
<1>9. DoneHeld'
  <2> SUFFICES ASSUME NEW t \in Done, NEW i \in ToIDs(busy.plan[t]) \cap DOMAIN st'[t].group.pending
               PROVE  st'[t].group.pending[i] = busy.consumer
    BY <1>6 DEF DoneHeld
  <2>1. t \in StreamKeys
    BY BusyKinds, DeliveringFields DEF Done, CoreInv, BaseInv
  <2>2. st'[t].group = st[t].group \/ st'[t].group = Nobody
    BY <1>1, <2>1, AbsentStored
  <2>3. DOMAIN Nobody.pending = {}
    BY AbsentStored
  <2>4. st'[t].group = st[t].group
    BY <2>2, <2>3
  <2> QED
    BY <2>4 DEF DeepInv, DoneHeld
<1> QED
  BY <1>5, <1>8, <1>9

(***************************************************************************)
(* Together: an XADD keeps the invariant.                                  *)
(***************************************************************************)
LEMMA GrownDeep ==
  ASSUME CoreInv, DeepInv, NEW s, NEW x, NEW n, NEW id, NEW v, Grown(s, x, n, id, v),
         Fresh(x, id, v), UNCHANGED <<handed, knows, crossed>>
  PROVE  DeepInv'
<1>1. GroupsBehind' /\ XAddAhead'
  BY GrownBehind
<1>2. Distinct' /\ PlanInOrder'
  BY GrownDistinct
<1>3. PlanHolds'
  BY GrownHolds
<1>4. NewUnread' /\ RereadsPending'
  BY GrownReads
<1>5. UnreadNotHanded' /\ OwnersTold' /\ DoneHeld'
  BY GrownOwners
<1> QED
  BY <1>1, <1>2, <1>3, <1>4, <1>5 DEF DeepInv

(***************************************************************************)
(* XADD from a link, and the second half of XADD.                          *)
(***************************************************************************)
LEMMA LinkGrows ==
  ASSUME CoreInv, DeepInv, NEW s \in StreamKeys, NEW arg \in IDArgs, NEW ms \in Millis,
         XAdd(s, arg, ms)
  PROVE  \E x, n, id, v : Grown(s, x, n, id, v) /\ Fresh(x, id, v)
<1>1. PICK x, id : /\ Appends(s, x, id, added + 1) /\ compareID(Zero, id) /\ ~x.other
                   /\ x = Absent \/ (x = st[s] /\ ~st[s].expired)
                   /\ added' = added + 1 /\ added + 1 \in Entries
  BY LinkAppends DEF CoreInv
<1>2. PICK v \in Entries : v = added + 1
  BY <1>1
<1>3. Appends(s, x, id, v)
  BY <1>1, <1>2
<1>4. PICK n : Grown(s, x, n, id, v)
  BY <1>3, AppendGrows
<1>5. /\ x \in Stored /\ id \in IDs /\ lastIDLocked(x) \in IDs /\ compareID(lastIDLocked(x), id)
  BY <1>4 DEF Grown
<1>6. compareID(x.group.last, id)
  <2>1. CASE x = Absent
    BY <1>1, <2>1, AbsentStored
  <2>2. CASE x = st[s]
    <3>1. UpTo(x.group.last, lastIDLocked(x)) /\ x.group.last \in IDs
      BY <1>1, <1>5, <2>2, StoredFields DEF DeepInv, GroupsBehind
    <3> QED
      BY <1>5, <3>1, IDOrder DEF UpTo
  <2> QED
    BY <1>1, <2>1, <2>2
<1>7. added \in Nat
  BY StreamsAssumption DEF CoreInv, BaseInv, StoreTypes
<1>8. added' \in Nat /\ added <= added' /\ v <= added'
  BY <1>1, <1>2, <1>7
<1>9. busy' = busy
  BY DEF XAdd
<1>10. Fresh(x, id, v)
  BY <1>1, <1>2, <1>6, <1>8, <1>9 DEF Fresh
<1> QED
  BY <1>4, <1>10

(***************************************************************************)
(* XAddPrepared that appends.                                              *)
(***************************************************************************)
LEMMA PreparedGrows ==
  ASSUME CoreInv, DeepInv, busy \in Adding, ~Refused(busy.stream), busy' = Free, added' = added,
         st' = [st EXCEPT ![busy.stream] = WithEntry(@, busy.id, busy.val)], WakeAll(busy.stream)
  PROVE  \E s, x, n, id, v : Grown(s, x, n, id, v) /\ Fresh(x, id, v)
<1>1. PICK s \in StreamKeys, id \in IDs, v \in Entries :
        s = busy.stream /\ id = busy.id /\ v = busy.val /\ busy.op = "xadd"
  BY DEF Adding
<1>2. PICK x : x = st[s]
  OBVIOUS
<1>3. Appends(s, x, id, v)
  BY <1>1, <1>2, PreparedAppends DEF CoreInv
<1>4. PICK n : Grown(s, x, n, id, v)
  BY <1>3, AppendGrows
<1>5. compareID(x.group.last, id)
  BY <1>1, <1>2 DEF DeepInv, XAddAhead
<1>6. added \in Nat /\ v <= added
  BY <1>1, StreamsAssumption DEF CoreInv, BaseInv, StoreTypes, DeepInv, Distinct
<1>7. Fresh(x, id, v)
  BY <1>1, <1>5, <1>6 DEF Fresh
<1> QED
  BY <1>4, <1>7

(***************************************************************************)
(* XAddPrepared.                                                           *)
(***************************************************************************)
LEMMA AddDeep ==
  ASSUME CoreInv, DeepInv, XAddPrepared
  PROVE  DeepInv'
<1>1. busy \in Adding /\ busy.stream \in StreamKeys
  BY AddBase DEF CoreInv
<1>2. busy' = Free /\ UNCHANGED <<added, handed, knows, crossed>>
  BY DEF XAddPrepared, histVars
<1>3. CASE st' = [st EXCEPT ![busy.stream] = expiredKeyLocked(@)]
  BY <1>1, <1>2, <1>3, RefusedDeep
<1>4. CASE /\ ~Refused(busy.stream) /\ WakeAll(busy.stream)
           /\ st' = [st EXCEPT ![busy.stream] = WithEntry(@, busy.id, busy.val)]
  <2>1. PICK s, x, n, id, v : Grown(s, x, n, id, v) /\ Fresh(x, id, v)
    BY <1>1, <1>2, <1>4, PreparedGrows
  <2> QED
    BY <1>2, <2>1, GrownDeep
<1> QED
  BY <1>3, <1>4 DEF XAddPrepared

(***************************************************************************)
(* XAdd of a link.                                                         *)
(***************************************************************************)
LEMMA LinkDeep ==
  ASSUME CoreInv, DeepInv, NEW s \in StreamKeys, NEW arg \in IDArgs, NEW ms \in Millis,
         XAdd(s, arg, ms)
  PROVE  DeepInv'
<1>1. PICK x, n, id, v : Grown(s, x, n, id, v) /\ Fresh(x, id, v)
  BY LinkGrows
<1>2. UNCHANGED <<handed, knows, crossed>>
  BY DEF XAdd, histVars
<1> QED
  BY <1>1, <1>2, GrownDeep

(***************************************************************************)
(* XGROUP CREATE: a new group has read nothing, and no handler is at work. *)
(***************************************************************************)
LEMMA CreateDeep ==
  ASSUME CoreInv, DeepInv, NEW s \in StreamKeys, NEW start, NEW mkstream,
         XGroupCreate(s, start, mkstream)
  PROVE  DeepInv'
<1>1. PICK x \in Stored, y \in Stored :
           /\ x = Absent \/ x = st[s]
           /\ ~x.other /\ ~x.group.exists
           /\ st' = [st EXCEPT ![s] = y]
           /\ y.entries = x.entries /\ y.other = x.other
           /\ y.group.exists /\ DOMAIN y.group.pending = {}
           /\ y.group.last = Zero \/ y.group.last = lastIDLocked(x)
  BY CreateWrites DEF CoreInv
<1>2. busy = Free /\ UNCHANGED <<busy, added, handed, knows, crossed>>
  BY DEF XGroupCreate, histVars
<1>3. busy.op = "none"
  BY <1>2 DEF Free
<1>4. /\ st' \in [StreamKeys -> Stored] /\ st'[s] = y
      /\ \A t \in StreamKeys : t # s => st'[t] = st[t]
  BY <1>1, KeyWritten DEF CoreInv, BaseInv, StoreTypes
<1>5. \A t \in StreamKeys : \A k \in DOMAIN st'[t].entries :
        /\ k \in DOMAIN st[t].entries /\ st'[t].entries[k] = st[t].entries[k]
        /\ t = s => ~st[s].group.exists
  <2> SUFFICES ASSUME NEW k \in DOMAIN y.entries
               PROVE  x = st[s]
    BY <1>1, <1>4
  <2>1. DOMAIN <<>> = {}
    OBVIOUS
  <2> QED
    BY <1>1, <2>1, AbsentStored
<1>6. GroupsBehind'
  <2>1. lastIDLocked(y) = lastIDLocked(x)
    BY <1>1 DEF lastIDLocked
  <2>2. \A i, j \in DOMAIN x.entries : i < j => compareID(x.entries[i].id, x.entries[j].id)
    BY <1>1, AbsentStored DEF CoreInv, BaseInv, IDsRise
  <2>3. PICK l \in IDs : l = lastIDLocked(x)
    BY <2>2, LastIsLast
  <2>4. UpTo(Zero, l) /\ UpTo(l, l)
    BY <2>3, IDOrder DEF UpTo
  <2>5. UpTo(y.group.last, lastIDLocked(y))
    BY <1>1, <2>1, <2>3, <2>4
  <2> QED
    BY <1>1, <1>4, <2>5 DEF DeepInv, GroupsBehind
<1>7. XAddAhead' /\ PlanInOrder' /\ PlanHolds' /\ NewUnread' /\ RereadsPending'
  BY <1>2, <1>3 DEF XAddAhead, PlanInOrder, PlanHolds, NewUnread, RereadsPending
<1>8. Distinct'
  BY <1>2, <1>3, <1>5 DEF DeepInv, Distinct
<1>9. UnreadNotHanded'
  <2>1. ASSUME NEW t \in StreamKeys, NEW k \in DOMAIN st'[t].entries,
               ~st'[t].group.exists \/ compareID(st'[t].group.last, st'[t].entries[k].id)
        PROVE  handed[st'[t].entries[k].val] = 0
    BY <1>4, <1>5, <2>1 DEF DeepInv, UnreadNotHanded
  <2> QED
    BY <1>2, <1>3, <2>1 DEF DeepInv, UnreadNotHanded
<1>10. Done = {} /\ Done' = {}
  BY <1>2, <1>3 DEF Done
<1>11. DoneHeld'
  BY <1>10 DEF DoneHeld
<1>12. OwnersTold'
  <2>1. ASSUME NEW t \in StreamKeys, NEW k \in DOMAIN st'[t].entries, NEW i,
               i = st'[t].entries[k].id, i \in DOMAIN st'[t].group.pending
        PROVE  knows'[st'[t].entries[k].val] \in {st'[t].group.pending[i], "lost"}
    <3>1. t # s
      BY <1>1, <1>4, <2>1
    <3> QED
      BY <1>2, <1>4, <1>10, <2>1, <3>1 DEF DeepInv, OwnersTold
  <2> QED
    BY <2>1 DEF OwnersTold
<1> QED
  BY <1>6, <1>7, <1>8, <1>9, <1>11, <1>12 DEF DeepInv

-----------------------------------------------------------------------------
(***************************************************************************)
(* XREADGROUP makes its plan.  New entries are all after the group's last  *)
(* ID, and none is left out before the last of them.                       *)
(***************************************************************************)
LEMMA BeginsFacts ==
  ASSUME NEW x \in Stored, NEW r \in Seq(StreamEntry), r # <<>>, Begins(x, r),
         \A i, j \in DOMAIN x.entries : i < j => compareID(x.entries[i].id, x.entries[j].id)
  PROVE  /\ \A j \in DOMAIN r : compareID(x.group.last, r[j].id)
         /\ \A k \in DOMAIN x.entries : compareID(x.group.last, x.entries[k].id) =>
              \/ x.entries[k].id \in ToIDs(r)
              \/ compareID(Last(r).id, x.entries[k].id)
<1>1. PICK q \in Seq(StreamEntry), g \in IDs : q = x.entries /\ g = x.group.last
  BY StoredFields
<1>2. PICK l \in Nat, h \in Nat : l = Len(r) /\ DOMAIN r = 1..l /\ h = Len(q) /\ DOMAIN q = 1..h
  OBVIOUS
<1>3. l > 0
  BY <1>2
<1>4. PICK m \in 0..h :
        /\ m + l <= h
        /\ \A k \in 1..l : r[k] = q[m + k]
        /\ \A k \in 1..m : ~compareID(g, q[k].id)
        /\ m < h => compareID(g, q[m + 1].id)
  BY <1>1, <1>2 DEF Begins
<1>5. \A k \in 1..h : q[k] \in StreamEntry
  BY <1>2
<1>6. \A k \in 1..h : q[k].id \in IDs
  BY <1>5 DEF StreamEntry
<1>7. m + 1 \in 1..h /\ compareID(g, q[m + 1].id) /\ m + l \in 1..h
  BY <1>3, <1>4
<1>8. \A i, j \in 1..h : i < j => compareID(q[i].id, q[j].id)
  BY <1>1, <1>2
<1>9. ASSUME NEW j \in 1..l PROVE compareID(g, r[j].id)
  <2>1. m + j \in 1..h /\ (m + j = m + 1 \/ m + 1 < m + j)
    BY <1>4
  <2>2. q[m + j].id = q[m + 1].id \/ compareID(q[m + 1].id, q[m + j].id)
    BY <1>7, <1>8, <2>1
  <2>3. compareID(g, q[m + j].id)
    BY <1>6, <1>7, <2>1, <2>2, IDOrder
  <2> QED
    BY <1>4, <2>3
<1>10. r[l] = q[m + l] /\ Last(r) = r[l]
  BY <1>2, <1>3, <1>4 DEF Last
<1>11. ASSUME NEW k \in 1..h, compareID(g, q[k].id)
       PROVE  q[k].id \in ToIDs(r) \/ compareID(Last(r).id, q[k].id)
  <2>1. k \notin 1..m
    BY <1>4, <1>11
  <2>2. m < k
    BY <2>1
  <2>3. CASE k <= m + l
    <3>1. PICK j \in 1..l : m + j = k
      <4>1. k - m \in 1..l /\ m + (k - m) = k
        BY <2>2, <2>3
      <4> QED
        BY <4>1
    <3>2. r[j] = q[k]
      BY <1>4, <3>1
    <3> QED
      BY <1>2, <3>2 DEF ToIDs
  <2>4. CASE m + l < k
    <3>1. compareID(q[m + l].id, q[k].id)
      BY <1>7, <1>8, <2>4
    <3> QED
      BY <1>10, <3>1
  <2> QED
    BY <2>2, <2>3, <2>4
<1> QED
  BY <1>1, <1>2, <1>9, <1>11

(***************************************************************************)
(* IDs that rise name one entry each.                                      *)
(***************************************************************************)
LEMMA OneID ==
  ASSUME CoreInv, NEW s \in StreamKeys, NEW i \in DOMAIN st[s].entries,
         NEW j \in DOMAIN st[s].entries, st[s].entries[i].id = st[s].entries[j].id
  PROVE  i = j
<1>1. PICK x \in Stored : x = st[s]
  BY DEF CoreInv, BaseInv, StoreTypes
<1>2. PICK q \in Seq(StreamEntry) : q = x.entries
  BY StoredFields
<1>3. i \in Nat /\ j \in Nat
  BY <1>1, <1>2
<1>4. q[i].id \in IDs
  BY <1>1, <1>2, StoredFields
<1>5. \A a, b \in DOMAIN q : a < b => compareID(q[a].id, q[b].id)
  BY <1>1, <1>2 DEF CoreInv, BaseInv, IDsRise
<1>6. i \in DOMAIN q /\ j \in DOMAIN q /\ q[i].id = q[j].id
  BY <1>1, <1>2
<1> QED
  BY <1>3, <1>4, <1>5, <1>6, IDOrder

(***************************************************************************)
(* What is planned for a stream are entries of it, in order.               *)
(***************************************************************************)
TakenFrom(s, r) ==
  /\ r \in Seq(StreamEntry) /\ s \in StreamKeys
  /\ \A i, j \in DOMAIN r : i < j => compareID(r[i].id, r[j].id)
  /\ \A i \in DOMAIN r : \E k \in DOMAIN st[s].entries : r[i] = st[s].entries[k]

(***************************************************************************)
(* A plan is taken from the streams.                                       *)
(***************************************************************************)
LEMMA PlanTaken ==
  ASSUME CoreInv, NEW keys \in SUBSET StreamKeys, NEW new, NEW plan, PlanFound(plan, keys, new)
  PROVE  \A s \in keys : TakenFrom(s, plan[s])
<1> SUFFICES ASSUME NEW s \in keys PROVE TakenFrom(s, plan[s])
  OBVIOUS
<1>1. PICK x \in Stored : x = st[s]
  BY DEF CoreInv, BaseInv, StoreTypes
<1>2. PICK q \in Seq(StreamEntry), r \in Seq(StreamEntry) : q = x.entries /\ r = plan[s]
  BY StoredFields DEF PlanFound
<1>3. Drawn(q, r)
  BY <1>1, <1>2 DEF PlanFound
<1>4. \A i, j \in DOMAIN q : i < j => compareID(q[i].id, q[j].id)
  BY <1>1, <1>2 DEF CoreInv, BaseInv, IDsRise
<1>5. /\ \A i, j \in DOMAIN r : i < j => compareID(r[i].id, r[j].id)
      /\ \A i \in DOMAIN r : \E k \in DOMAIN q : r[i] = q[k]
  BY <1>3, <1>4, DrawnRises
<1> QED
  BY <1>1, <1>2, <1>5 DEF TakenFrom

(***************************************************************************)
(* A new plan is in order and what the streams have.                       *)
(***************************************************************************)
LEMMA StartPlan ==
  ASSUME CoreInv, DeepInv, NEW keys \in SUBSET StreamKeys, NEW new, NEW plan,
         PlanFound(plan, keys, new), busy'.plan = plan, UNCHANGED <<st, added>>
  PROVE  PlanInOrder' /\ PlanHolds'
<1>1. DOMAIN plan = keys
  BY DEF PlanFound
<1>2. ASSUME NEW s \in keys
      PROVE  /\ plan[s] \in Seq(StreamEntry) /\ s \in StreamKeys
             /\ \A i, j \in DOMAIN plan[s] : i < j => compareID(plan[s][i].id, plan[s][j].id)
             /\ \A i \in DOMAIN plan[s] :
                  \E k \in DOMAIN st[s].entries : plan[s][i] = st[s].entries[k]
  <2>1. TakenFrom(s, plan[s])
    BY PlanTaken
  <2> QED
    BY <2>1 DEF TakenFrom
<1>3. \A s \in keys : \A i \in DOMAIN plan[s] : plan[s][i].val <= added
  BY <1>2 DEF DeepInv, Distinct
<1>4. ASSUME NEW s \in keys, NEW t \in keys, Vals(plan[s]) \cap Vals(plan[t]) # {} PROVE s = t
  <2>1. PICK i \in DOMAIN plan[s], j \in DOMAIN plan[t] : plan[s][i].val = plan[t][j].val
    BY <1>4 DEF Vals
  <2>2. PICK a \in DOMAIN st[s].entries : plan[s][i] = st[s].entries[a]
    BY <1>2
  <2>3. PICK b \in DOMAIN st[t].entries : plan[t][j] = st[t].entries[b]
    BY <1>2
  <2> QED
    BY <1>2, <2>1, <2>2, <2>3 DEF DeepInv, Distinct
<1>5. PlanInOrder'
  BY <1>1, <1>2, <1>3, <1>4 DEF PlanInOrder
<1>6. ASSUME NEW s \in keys, NEW j \in DOMAIN plan[s], NEW p, p = plan[s][j]
      PROVE  /\ \A t \in StreamKeys : \A k \in DOMAIN st[t].entries :
                  st[t].entries[k].val = p.val => t = s /\ st[t].entries[k].id = p.id
             /\ \A k \in DOMAIN st[s].entries :
                  st[s].entries[k].id = p.id => st[s].entries[k].val = p.val
             /\ UpTo(p.id, lastIDLocked(st[s]))
  <2>1. PICK a \in DOMAIN st[s].entries : p = st[s].entries[a]
    BY <1>2, <1>6
  <2>2. \A t \in StreamKeys : \A k \in DOMAIN st[t].entries :
          st[t].entries[k].val = p.val => t = s /\ k = a
    BY <1>2, <2>1 DEF DeepInv, Distinct
  <2>3. \A k \in DOMAIN st[s].entries : st[s].entries[k].id = p.id => k = a
    BY <1>2, <2>1, OneID
  <2>4. PICK x \in Stored : x = st[s]
    BY <1>2 DEF CoreInv, BaseInv, StoreTypes
  <2>5. \A i, k \in DOMAIN x.entries : i < k => compareID(x.entries[i].id, x.entries[k].id)
    BY <1>2, <2>4 DEF CoreInv, BaseInv, IDsRise
  <2>6. UpTo(x.entries[a].id, lastIDLocked(x))
    BY <2>1, <2>4, <2>5, LastIsLast
  <2> QED
    BY <2>1, <2>2, <2>3, <2>4, <2>6
<1>7. PlanHolds'
  BY <1>1, <1>6 DEF PlanHolds
<1> QED
  BY <1>5, <1>7

(***************************************************************************)
(* New entries are unread, the others pending.                             *)
(***************************************************************************)
LEMMA StartReads ==
  ASSUME CoreInv, DeepInv, NEW keys \in SUBSET StreamKeys, NEW new, NEW plan,
         PlanFound(plan, keys, new), busy'.plan = plan, busy'.new = new,
         Range(busy'.todo) = Found(plan), UNCHANGED <<st, handed, crossed>>
  PROVE  NewUnread' /\ RereadsPending'
<1>1. \A s \in Found(plan) : s \in keys /\ plan[s] # <<>> /\ s \in StreamKeys
  BY DEF PlanFound, Found
<1>2. NewUnread'
  <2> SUFFICES ASSUME new, NEW s \in Found(plan)
      PROVE
        /\ \A j \in DOMAIN plan[s] : handed[plan[s][j].val] = 0
        /\ \A j \in DOMAIN plan[s] : compareID(st[s].group.last, plan[s][j].id)
        /\ \A k \in DOMAIN st[s].entries :
                  compareID(st[s].group.last, st[s].entries[k].id) =>
                    \/ st[s].entries[k].id \in ToIDs(plan[s])
                    \/ compareID(Last(plan[s]).id, st[s].entries[k].id)
    BY DEF NewUnread
  <2>1. PICK x \in Stored, r \in Seq(StreamEntry) : x = st[s] /\ r = plan[s]
    BY <1>1 DEF CoreInv, BaseInv, StoreTypes, PlanFound
  <2>2. r # <<>> /\ Begins(x, r)
    BY <1>1, <2>1 DEF PlanFound
  <2>3. \A i, k \in DOMAIN x.entries : i < k => compareID(x.entries[i].id, x.entries[k].id)
    BY <1>1, <2>1 DEF CoreInv, BaseInv, IDsRise
  <2>4. /\ \A j \in DOMAIN r : compareID(x.group.last, r[j].id)
        /\ \A k \in DOMAIN x.entries : compareID(x.group.last, x.entries[k].id) =>
             \/ x.entries[k].id \in ToIDs(r)
             \/ compareID(Last(r).id, x.entries[k].id)
    BY <2>2, <2>3, BeginsFacts
  <2>5. ASSUME NEW j \in DOMAIN plan[s] PROVE handed[plan[s][j].val] = 0
    <3>0. TakenFrom(s, plan[s])
      BY <1>1, PlanTaken
    <3>1. PICK k \in DOMAIN st[s].entries : plan[s][j] = st[s].entries[k]
      BY <3>0 DEF TakenFrom
    <3> QED
      BY <1>1, <2>1, <2>4, <3>1 DEF DeepInv, UnreadNotHanded
  <2> QED
    BY <2>1, <2>4, <2>5
<1>3. RereadsPending'
  <2> SUFFICES ASSUME ~new, NEW s \in Found(plan)
      PROVE
        /\ \A i \in ToIDs(plan[s]) : UpTo(i, st[s].group.last)
        /\ \A k \in DOMAIN st[s].entries :
             st[s].entries[k].id \in ToIDs(plan[s]) =>
               st[s].entries[k].id \in DOMAIN st[s].group.pending
    BY DEF RereadsPending
  <2>1. PICK r \in Seq(StreamEntry) : r = plan[s] /\ \A k \in 1..Len(r) : r[k].id \in DOMAIN st[s].group.pending
    BY <1>1 DEF PlanFound
  <2>2. DOMAIN r = 1..Len(r)
    OBVIOUS
  <2>3. ToIDs(r) \subseteq DOMAIN st[s].group.pending
    BY <2>1, <2>2 DEF ToIDs
  <2> QED
    BY <1>1, <2>1, <2>3 DEF DeepInv, GroupsBehind
<1> QED
  BY <1>2, <1>3

(***************************************************************************)
(* Together: the start of a delivery keeps the invariant.                  *)
(***************************************************************************)
LEMMA StartDeep ==
  ASSUME CoreInv, DeepInv, NEW keys \in SUBSET StreamKeys, NEW new, NEW plan,
         PlanFound(plan, keys, new), busy = Free, busy'.op = "deliver", busy'.plan = plan,
         busy'.new = new, Range(busy'.todo) = Found(plan),
         UNCHANGED <<st, added, handed, knows, crossed>>
  PROVE  DeepInv'
<1>1. PlanInOrder' /\ PlanHolds' /\ NewUnread' /\ RereadsPending'
  BY StartPlan, StartReads
<1>2. busy.op = "none"
  BY DEF Free
<1>3. Done = {} /\ Done' = {}
  BY <1>2 DEF Done
<1>4. OwnersTold' /\ DoneHeld'
  BY <1>3 DEF DeepInv, OwnersTold, DoneHeld
<1>5. GroupsBehind' /\ XAddAhead' /\ UnreadNotHanded'
  BY <1>2 DEF DeepInv, GroupsBehind, XAddAhead, UnreadNotHanded
<1>6. Distinct'
  BY <1>2 DEF DeepInv, Distinct
<1> QED
  BY <1>1, <1>4, <1>5, <1>6 DEF DeepInv

-----------------------------------------------------------------------------
(***************************************************************************)
(* Where an ID is pending there is a group, and what is planned under it   *)
(* is the entry with that ID.                                              *)
(***************************************************************************)
LEMMA PendingGroup ==
  ASSUME GroupsBehind, NEW s \in StreamKeys, NEW i \in DOMAIN st[s].group.pending
  PROVE  st[s].group.exists
<1>1. DOMAIN Nobody.pending = {}
  BY AbsentStored
<1> QED
  BY <1>1 DEF GroupsBehind

(***************************************************************************)
(* Planned by ID is planned by value, and the other way round.             *)
(***************************************************************************)
LEMMA PlannedEntry ==
  ASSUME CoreInv, PlanHolds, busy.op = "deliver", NEW s \in DOMAIN busy.plan, s \in StreamKeys,
         NEW k \in DOMAIN st[s].entries
  PROVE  /\ st[s].group.exists /\ st[s].entries[k].id \in ToIDs(busy.plan[s]) =>
              st[s].entries[k].val \in Vals(busy.plan[s])
         /\ st[s].entries[k].val \in Vals(busy.plan[s]) =>
              st[s].entries[k].id \in ToIDs(busy.plan[s])
<1>1. \A j \in DOMAIN busy.plan[s] :
        /\ st[s].entries[k].val = busy.plan[s][j].val => st[s].entries[k].id = busy.plan[s][j].id
        /\ st[s].group.exists /\ st[s].entries[k].id = busy.plan[s][j].id =>
             st[s].entries[k].val = busy.plan[s][j].val
  BY DEF PlanHolds
<1> QED
  BY <1>1 DEF ToIDs, Vals

(***************************************************************************)
(* XREADGROUP fails half-way: what was delivered is lost to its consumer.  *)
(***************************************************************************)
LEMMA FailDeep ==
  ASSUME CoreInv, DeepInv, busy \in Delivering, Fail, UNCHANGED <<added, crossed>>
  PROVE  DeepInv'
<1>1. busy' = Free /\ UNCHANGED <<st, handed>>
  BY DEF Fail
<1>2. StillStep /\ Calm
  BY <1>1, UnchangedStill DEF Calm
<1>3. QuietStep
  BY <1>2 DEF StillStep, QuietStep, Still
<1>4. /\ GroupsBehind' /\ XAddAhead' /\ Distinct' /\ PlanInOrder' /\ PlanHolds' /\ NewUnread'
      /\ UnreadNotHanded'
  BY <1>1, <1>2, <1>3, QuietBehind, CalmAhead, CalmDistinct, CalmPlan, CalmHolds, CalmNew,
     CalmHanded DEF DeepInv
<1>5. busy'.op = "none" /\ busy.op = "deliver"
  BY <1>1, DeliveringFields DEF Free
<1>6. Done' = {} /\ RereadsPending' /\ DoneHeld'
  BY <1>5 DEF Done, RereadsPending, DoneHeld
<1>7. knows' = Learned("lost", Planned(Done))
  BY <1>5 DEF Fail, Done
<1>8. ASSUME NEW s \in StreamKeys, NEW k \in DOMAIN st[s].entries, NEW i, i = st[s].entries[k].id,
             i \in DOMAIN st[s].group.pending
      PROVE  knows'[st[s].entries[k].val] \in {st[s].group.pending[i], "lost"}
  <2>1. PICK v \in Entries : v = st[s].entries[k].val
    BY StoredFields DEF CoreInv, BaseInv, StoreTypes
  <2>2. knows'[v] = IF v \in Planned(Done) THEN "lost" ELSE knows[v]
    BY <1>7 DEF Learned
  <2>3. CASE s \in Done /\ i \in ToIDs(busy.plan[s])
    <3>1. st[s].group.exists
      BY <1>8, PendingGroup DEF DeepInv
    <3>2. s \in DOMAIN busy.plan
      BY <1>5, <2>3 DEF Done, Found
    <3>3. v \in Vals(busy.plan[s])
      BY <1>5, <1>8, <2>1, <2>3, <3>1, <3>2, PlannedEntry DEF DeepInv
    <3>4. v \in Planned(Done)
      BY <2>3, <3>3 DEF Planned
    <3> QED
      BY <2>1, <2>2, <3>4
  <2>4. CASE knows[v] \in {st[s].group.pending[i], "lost"}
    BY <2>1, <2>2, <2>4
  <2> QED
    BY <1>8, <2>1, <2>3, <2>4 DEF DeepInv, OwnersTold
<1>9. OwnersTold'
  BY <1>1, <1>8 DEF OwnersTold
<1> QED
  BY <1>4, <1>6, <1>9 DEF DeepInv

(***************************************************************************)
(* A delivery, seen from the store.                                        *)
(***************************************************************************)
Handed(s, q) ==
  /\ s \in StreamKeys /\ s \in DOMAIN busy.plan /\ s \in Range(busy.todo) /\ s \in Found(busy.plan)
  /\ q = busy.plan[s] /\ q \in Seq(StreamEntry) /\ st[s].group.exists /\ st'[s].group.exists
  /\ \A t \in StreamKeys : t # s => st'[t] = st[t]
  /\ \A t \in StreamKeys : /\ st'[t].entries = st[t].entries /\ st'[t].other = st[t].other
                           /\ st'[t].group.exists = st[t].group.exists
                           /\ lastIDLocked(st'[t]) = lastIDLocked(st[t])
  /\ st[s].group.last \in IDs /\ Last(q).id \in IDs
  /\ st'[s].group.last = Later(st[s].group.last, Last(q).id)
  /\ Len(q) \in DOMAIN q /\ Last(q) = q[Len(q)]
  /\ \A i \in ToIDs(q) : i \in IDs /\ UpTo(i, Last(q).id)
  /\ DOMAIN st'[s].group.pending = DOMAIN st[s].group.pending \cup ToIDs(q)
  /\ \A i \in DOMAIN st'[s].group.pending :
       st'[s].group.pending[i] = IF i \in ToIDs(q) THEN busy.consumer ELSE st[s].group.pending[i]
  /\ \A v \in Entries : handed'[v] = IF busy.new /\ v \in Vals(q) THEN handed[v] + 1 ELSE handed[v]

(***************************************************************************)
(* DeliverNext, seen so.                                                   *)
(***************************************************************************)
LEMMA DeliverHands ==
  ASSUME CoreInv, DeepInv, busy \in Delivering, NEW s, NEW q, NEW y, Delivers(s, q, y)
  PROVE  Handed(s, q)
<1>1. /\ s \in StreamKeys /\ s \in DOMAIN busy.plan /\ s \in Range(busy.todo)
      /\ q = busy.plan[s] /\ q \in Seq(StreamEntry) /\ q # <<>> /\ st[s].group.exists
      /\ y \in Stored /\ st' = [st EXCEPT ![s] = y] /\ y = XGroupDeliver(st[s], busy.consumer, q)
  BY DEF Delivers
<1>2. /\ st' \in [StreamKeys -> Stored] /\ st'[s] = y
      /\ \A t \in StreamKeys : t # s => st'[t] = st[t]
  BY <1>1, KeyWritten DEF CoreInv, BaseInv, StoreTypes
<1>3. PICK c \in Consumers, x \in Stored : c = busy.consumer /\ x = st[s]
  BY <1>1, DeliveringFields DEF CoreInv, BaseInv, StoreTypes
<1>4. /\ y.entries = x.entries /\ y.other = x.other
      /\ y.group.exists = x.group.exists /\ Last(q).id \in IDs /\ Last(q) = q[Len(q)]
      /\ y.group.last = Later(x.group.last, Last(q).id)
      /\ DOMAIN y.group.pending = DOMAIN x.group.pending \cup ToIDs(q)
      /\ \A i \in DOMAIN y.group.pending :
           y.group.pending[i] = IF i \in ToIDs(q) THEN c ELSE x.group.pending[i]
  BY <1>1, <1>3, DeliverFacts
<1>5. lastIDLocked(y) = lastIDLocked(x)
  BY <1>4 DEF lastIDLocked
<1>6. s \in Found(busy.plan) /\ busy.op = "deliver"
  BY <1>1, DeliveringFields DEF Found
<1>7. PICK l \in Nat : l = Len(q) /\ DOMAIN q = 1..l /\ l > 0
  BY <1>1
<1>8. \A j \in 1..l : q[j] \in StreamEntry
  BY <1>1, <1>7
<1>9. \A j \in 1..l : q[j].id \in IDs
  BY <1>8 DEF StreamEntry
<1>10. \A i, j \in 1..l : i < j => compareID(q[i].id, q[j].id)
  BY <1>1, <1>6, <1>7 DEF DeepInv, PlanInOrder
<1>11. ASSUME NEW j \in 1..l PROVE UpTo(q[j].id, q[l].id)
  <2>1. l \in 1..l /\ (j = l \/ j < l)
    BY <1>7
  <2> QED
    BY <1>9, <1>10, <2>1, IDOrder DEF UpTo
<1>12. \A i \in ToIDs(q) : i \in IDs /\ UpTo(i, Last(q).id)
  BY <1>4, <1>7, <1>9, <1>11 DEF ToIDs
<1>13. \A v \in Entries : handed'[v] = IF busy.new /\ v \in Vals(q) THEN handed[v] + 1 ELSE handed[v]
  BY DEF Delivers
<1>14. Len(q) \in DOMAIN q
  BY <1>7
<1>15. st[s].group.last \in IDs
  BY <1>3, StoredFields
<1>16. \A t \in StreamKeys : /\ st'[t].entries = st[t].entries /\ st'[t].other = st[t].other
                             /\ st'[t].group.exists = st[t].group.exists
                             /\ lastIDLocked(st'[t]) = lastIDLocked(st[t])
  BY <1>2, <1>3, <1>4, <1>5
<1>17. st'[s].group.exists
  BY <1>1, <1>2, <1>3, <1>4
<1> QED
  BY <1>1, <1>2, <1>3, <1>4, <1>6, <1>12, <1>13, <1>14, <1>15, <1>16, <1>17 DEF Handed

(***************************************************************************)
(* The later of two IDs.                                                   *)
(***************************************************************************)
LEMMA LaterFacts ==
  ASSUME NEW a \in IDs, NEW b \in IDs
  PROVE  /\ Later(a, b) \in IDs /\ UpTo(a, Later(a, b)) /\ UpTo(b, Later(a, b))
         /\ Later(a, b) = a \/ Later(a, b) = b
         /\ \A i \in IDs : /\ UpTo(i, a) => UpTo(i, Later(a, b))
                           /\ UpTo(i, b) => UpTo(i, Later(a, b))
                           /\ compareID(Later(a, b), i) => compareID(a, i) /\ compareID(b, i)
<1>1. CASE compareID(a, b)
  <2>1. Later(a, b) = b
    BY <1>1 DEF Later
  <2> QED
    BY <1>1, <2>1, IDOrder DEF UpTo
<1>2. CASE ~compareID(a, b)
  <2>1. Later(a, b) = a
    BY <1>2 DEF Later
  <2>2. a = b \/ compareID(b, a)
    BY <1>2, IDOrder
  <2> QED
    BY <2>1, <2>2, IDOrder DEF UpTo
<1> QED
  BY <1>1, <1>2

(***************************************************************************)
(* The group's last ID moves to an ID of the stream.                       *)
(***************************************************************************)
LEMMA HandedBehind ==
  ASSUME CoreInv, DeepInv, busy.op = "deliver", NEW s, NEW q, Handed(s, q)
  PROVE  GroupsBehind'
<1>1. PICK a \in IDs, b \in IDs, l \in IDs :
        a = st[s].group.last /\ b = Last(q).id /\ l = st'[s].group.last /\ l = Later(a, b)
  BY LaterFacts DEF Handed
<1>2. s \in StreamKeys /\ st[s].group.exists /\ q = busy.plan[s] /\ s \in DOMAIN busy.plan
  BY DEF Handed
<1>3. ASSUME ~st[s].other PROVE UpTo(l, lastIDLocked(st[s]))
  <2>1. UpTo(a, lastIDLocked(st[s]))
    BY <1>1, <1>2, <1>3 DEF DeepInv, GroupsBehind
  <2>2. UpTo(b, lastIDLocked(st[s]))
    <3>1. Len(q) \in DOMAIN q /\ Last(q) = q[Len(q)]
      BY DEF Handed
    <3> QED
      BY <1>1, <1>2, <1>3, <3>1 DEF DeepInv, PlanHolds
  <2> QED
    BY <1>1, <2>1, <2>2, LaterFacts
<1>4. ASSUME NEW i \in DOMAIN st'[s].group.pending PROVE UpTo(i, l)
  <2>1. i \in DOMAIN st[s].group.pending \/ i \in ToIDs(q)
    BY DEF Handed
  <2>2. CASE i \in DOMAIN st[s].group.pending
    <3>1. i \in IDs
      BY <1>2, <2>2, StoredFields DEF CoreInv, BaseInv, StoreTypes
    <3>2. UpTo(i, a)
      BY <1>1, <1>2, <2>2 DEF DeepInv, GroupsBehind
    <3> QED
      BY <1>1, <3>1, <3>2, LaterFacts
  <2>3. CASE i \in ToIDs(q)
    <3>1. i \in IDs /\ UpTo(i, b)
      BY <1>1, <2>3 DEF Handed
    <3> QED
      BY <1>1, <3>1, LaterFacts
  <2> QED
    BY <2>1, <2>2, <2>3
<1> SUFFICES ASSUME NEW t \in StreamKeys
             PROVE  /\ ~st'[t].other => UpTo(st'[t].group.last, lastIDLocked(st'[t]))
                    /\ \A i \in DOMAIN st'[t].group.pending : UpTo(i, st'[t].group.last)
                    /\ ~st'[t].group.exists => st'[t].group = Nobody
  BY DEF GroupsBehind
<1>5. CASE t = s
  BY <1>1, <1>3, <1>4, <1>5 DEF Handed
<1>6. CASE t # s
  <2>1. st'[t] = st[t]
    BY <1>6 DEF Handed
  <2> QED
    BY <2>1 DEF DeepInv, GroupsBehind
<1> QED
  BY <1>5, <1>6

(***************************************************************************)
(* The same, seen from the handler: it goes on to the next stream, or has  *)
(* done and replies.                                                       *)
(***************************************************************************)
GoesOn(s) ==
  /\ busy'.op = "deliver" /\ busy'.plan = busy.plan /\ busy'.new = busy.new
  /\ busy'.consumer = busy.consumer /\ Range(busy'.todo) = Range(busy.todo) \ {s}
  /\ knows' = knows

Replies(s) ==
  /\ busy' = Free /\ Range(busy.todo) = {s}
  /\ knows' = Learned(busy.consumer, Planned(Found(busy.plan)))

(***************************************************************************)
(* DeliverNext, seen so.                                                   *)
(***************************************************************************)
LEMMA DeliverGoes ==
  ASSUME CoreInv, busy \in Delivering, NEW s, NEW q, NEW y, Delivers(s, q, y)
  PROVE  (GoesOn(s) \/ Replies(s)) /\ added' = added /\ crossed' = crossed
<1>1. s = Head(busy.todo) /\ UNCHANGED <<added, crossed>>
  BY DEF Delivers
<1>2. busy.op = "deliver"
  BY DeliveringFields
<1>3. CASE Len(busy.todo) > 1 /\ busy' = [busy EXCEPT !.todo = Tail(@)] /\ UNCHANGED knows
  <2>1. IsInjective(busy.todo)
    BY <1>2 DEF CoreInv, TodoVisits
  <2> QED
    BY <1>1, <1>3, <2>1, TodoShrinks DEF GoesOn
<1>4. CASE /\ Len(busy.todo) = 1 /\ busy' = Free
           /\ knows' = Learned(busy.consumer, Planned(Found(busy.plan)))
  <2>1. PICK td \in Seq(StreamKeys) : td = busy.todo /\ Len(td) = 1
    BY <1>4, DeliveringFields
  <2>2. DOMAIN td = {1} /\ td[1] = s
    BY <1>1, <2>1
  <2>3. Range(td) = {s}
    BY <2>2 DEF Range
  <2> QED
    BY <1>1, <1>4, <2>1, <2>3 DEF Replies
<1> QED
  BY <1>1, <1>3, <1>4 DEF Delivers

(***************************************************************************)
(* The plan for the streams that are left.                                 *)
(***************************************************************************)
LEMMA HandedPlan ==
  ASSUME CoreInv, DeepInv, busy.op = "deliver", NEW s, NEW q, Handed(s, q),
         GoesOn(s) \/ Replies(s), UNCHANGED <<added, crossed>>
  PROVE  XAddAhead' /\ Distinct' /\ PlanInOrder' /\ PlanHolds' /\ RereadsPending'
<1>1. busy'.op # "xadd" /\ (busy'.op = "deliver" => GoesOn(s))
  BY DEF GoesOn, Replies, Free
<1>2. \A t \in StreamKeys : /\ st'[t].entries = st[t].entries /\ st'[t].other = st[t].other
                            /\ st'[t].group.exists = st[t].group.exists
                            /\ lastIDLocked(st'[t]) = lastIDLocked(st[t])
  BY DEF Handed
<1>3. XAddAhead' /\ Distinct'
  BY <1>1, <1>2 DEF DeepInv, XAddAhead, Distinct
<1> SUFFICES ASSUME GoesOn(s) PROVE PlanInOrder' /\ PlanHolds' /\ RereadsPending'
  BY <1>1, <1>3 DEF PlanInOrder, PlanHolds, RereadsPending
<1>4. busy'.plan = busy.plan /\ busy'.new = busy.new /\ Range(busy'.todo) = Range(busy.todo) \ {s}
  BY DEF GoesOn
<1>5. busy \in Delivering
  BY BusyKinds DEF CoreInv, BaseInv
<1>6. PlanInOrder'
  BY <1>4 DEF DeepInv, PlanInOrder
<1>7. PlanHolds'
  <2>1. DOMAIN busy.plan \subseteq StreamKeys
    BY <1>5, DeliveringFields
  <2> SUFFICES ASSUME NEW t \in DOMAIN busy.plan, NEW j \in DOMAIN busy.plan[t], NEW p,
                      p = busy.plan[t][j]
               PROVE
        /\ \A u \in StreamKeys : \A k \in DOMAIN st'[u].entries :
             st'[u].entries[k].val = p.val => u = t /\ st'[u].entries[k].id = p.id
        /\ st'[t].group.exists =>
             /\ \A k \in DOMAIN st'[t].entries :
                  st'[t].entries[k].id = p.id => st'[t].entries[k].val = p.val
             /\ ~st'[t].other => UpTo(p.id, lastIDLocked(st'[t]))
    BY <1>4 DEF PlanHolds
  <2> QED
    BY <1>2, <2>1 DEF DeepInv, PlanHolds
<1>8. RereadsPending'
  <2> SUFFICES ASSUME ~busy.new, NEW t \in Range(busy.todo) \ {s}, st'[t].group.exists
      PROVE
        /\ \A i \in ToIDs(busy.plan[t]) : UpTo(i, st'[t].group.last)
        /\ \A k \in DOMAIN st'[t].entries :
             st'[t].entries[k].id \in ToIDs(busy.plan[t]) =>
               \/ st'[t].entries[k].id \in DOMAIN st'[t].group.pending
               \/ st'[t].entries[k].val \in crossed
    BY <1>4 DEF RereadsPending
  <2>1. t \in StreamKeys
    BY <1>5, DeliveringFields DEF Range
  <2>2. st'[t] = st[t]
    BY <2>1 DEF Handed
  <2> QED
    BY <2>2 DEF DeepInv, RereadsPending
<1> QED
  BY <1>6, <1>7, <1>8

(***************************************************************************)
(* What was handed out is not unread any more.                             *)
(***************************************************************************)
LEMMA HandedCounts ==
  ASSUME CoreInv, DeepInv, busy.op = "deliver", NEW s, NEW q, Handed(s, q),
         GoesOn(s) \/ Replies(s), added' = added
  PROVE  NewUnread' /\ UnreadNotHanded'
<1>1. busy'.op # "xadd" /\ (busy'.op = "deliver" => GoesOn(s))
  BY DEF GoesOn, Replies, Free
<1>2. busy \in Delivering
  BY BusyKinds DEF CoreInv, BaseInv
<1>3. /\ s \in StreamKeys /\ s \in DOMAIN busy.plan /\ q = busy.plan[s] /\ q \in Seq(StreamEntry)
      /\ \A v \in Entries : v \notin Vals(q) => handed'[v] = handed[v]
  BY DEF Handed
<1>4. ASSUME NEW t \in DOMAIN busy.plan, NEW j \in DOMAIN busy.plan[t]
      PROVE  /\ t \in StreamKeys /\ busy.plan[t][j].val \in Entries /\ busy.plan[t][j].val \in Nat
             /\ busy.plan[t][j].val <= added
  <2>1. t \in StreamKeys /\ busy.plan[t] \in Seq(StreamEntry)
    BY <1>2, DeliveringFields
  <2>2. busy.plan[t][j] \in StreamEntry
    BY <2>1
  <2>3. busy.plan[t][j].val \in Entries /\ busy.plan[t][j].val \in Nat
    BY <2>2 DEF StreamEntry, Entries
  <2> QED
    BY <2>1, <2>3 DEF DeepInv, PlanInOrder
<1>5. NewUnread'
  <2> SUFFICES ASSUME GoesOn(s), busy.new, NEW t \in Range(busy.todo) \ {s}
      PROVE
        /\ \A j \in DOMAIN busy.plan[t] : handed'[busy.plan[t][j].val] = 0
        /\ st'[t].group.exists =>
             /\ \A j \in DOMAIN busy.plan[t] : compareID(st'[t].group.last, busy.plan[t][j].id)
             /\ \A k \in DOMAIN st'[t].entries :
                  compareID(st'[t].group.last, st'[t].entries[k].id) =>
                    \/ st'[t].entries[k].id \in ToIDs(busy.plan[t])
                    \/ compareID(Last(busy.plan[t]).id, st'[t].entries[k].id)
    BY <1>1 DEF NewUnread, GoesOn
  <2>1. t \in StreamKeys /\ t \in DOMAIN busy.plan
    BY <1>2, DeliveringFields DEF Range, CoreInv, TodoVisits, Found
  <2>2. st'[t] = st[t]
    BY <2>1 DEF Handed
  <2>3. ASSUME NEW j \in DOMAIN busy.plan[t] PROVE handed'[busy.plan[t][j].val] = 0
    <3>1. PICK v \in Entries : v = busy.plan[t][j].val
      BY <1>4, <2>1
    <3>2. v \in Vals(busy.plan[t])
      BY <3>1 DEF Vals
    <3>3. v \notin Vals(q)
      BY <1>3, <2>1, <3>2 DEF DeepInv, PlanInOrder
    <3>4. handed[v] = 0
      BY <3>1 DEF DeepInv, NewUnread
    <3> QED
      BY <1>3, <3>1, <3>3, <3>4
  <2> QED
    BY <2>2, <2>3 DEF DeepInv, NewUnread
<1>6. ASSUME NEW v \in Entries, v > added PROVE handed'[v] = 0
  <2>1. v \in Nat /\ added \in Nat
    BY StreamsAssumption DEF Entries, CoreInv, BaseInv, StoreTypes
  <2>2. v \notin Vals(q)
    BY <1>3, <1>4, <1>6, <2>1 DEF Vals
  <2>3. handed[v] = 0
    BY <1>6 DEF DeepInv, UnreadNotHanded
  <2> QED
    BY <1>3, <2>2, <2>3
<1>7. ASSUME NEW t \in StreamKeys, NEW k \in DOMAIN st[t].entries,
             ~st'[t].group.exists \/ compareID(st'[t].group.last, st[t].entries[k].id)
      PROVE  handed'[st[t].entries[k].val] = 0
  <2>1. PICK v \in Entries, i \in IDs : v = st[t].entries[k].val /\ i = st[t].entries[k].id
    BY StoredFields DEF CoreInv, BaseInv, StoreTypes
  <2>2. /\ ~st[t].group.exists \/ compareID(st[t].group.last, i)
        /\ t = s => compareID(Last(q).id, i)
    <3>1. CASE t # s
      <4>1. st'[t] = st[t]
        BY <3>1 DEF Handed
      <4> QED
        BY <1>7, <2>1, <3>1, <4>1
    <3>2. CASE t = s
      <4>1. PICK a \in IDs, b \in IDs : a = st[s].group.last /\ b = Last(q).id
                                        /\ st'[s].group.last = Later(a, b) /\ st'[s].group.exists
        BY DEF Handed
      <4> QED
        BY <1>7, <2>1, <3>2, <4>1, LaterFacts
    <3> QED
      BY <3>1, <3>2
  <2>3. handed[v] = 0
    BY <2>1, <2>2 DEF DeepInv, UnreadNotHanded
  <2>4. v \notin Vals(q)
    <3> SUFFICES ASSUME v \in Vals(q) PROVE FALSE
      OBVIOUS
    <3>1. PICK j \in DOMAIN q : q[j].val = v
      BY DEF Vals
    <3>2. t = s /\ i = q[j].id
      BY <1>3, <2>1, <3>1 DEF DeepInv, PlanHolds
    <3>3. i \in ToIDs(q)
      BY <3>2 DEF ToIDs
    <3>4. UpTo(i, Last(q).id)
      BY <3>3 DEF Handed
    <3> QED
      BY <2>2, <3>2, <3>4 DEF UpTo
  <2> QED
    BY <1>3, <2>1, <2>3, <2>4
<1>8. \A t \in StreamKeys : st'[t].entries = st[t].entries
  BY DEF Handed
<1>9. UnreadNotHanded'
  BY <1>1, <1>6, <1>7, <1>8 DEF UnreadNotHanded
<1> QED
  BY <1>5, <1>9

(***************************************************************************)
(* The consumer is told with the reply, or the entry is lost to it.        *)
(***************************************************************************)
LEMMA HandedOwners ==
  ASSUME CoreInv, DeepInv, busy.op = "deliver", NEW s, NEW q, Handed(s, q),
         GoesOn(s) \/ Replies(s)
  PROVE  OwnersTold' /\ DoneHeld'
<1>1. /\ s \in StreamKeys /\ s \in DOMAIN busy.plan /\ q = busy.plan[s] /\ s \in Range(busy.todo)
      /\ s \in Found(busy.plan)
      /\ \A t \in StreamKeys : st'[t].entries = st[t].entries
      /\ \A t \in StreamKeys : t # s => st'[t] = st[t]
      /\ DOMAIN st'[s].group.pending = DOMAIN st[s].group.pending \cup ToIDs(q)
      /\ \A i \in DOMAIN st'[s].group.pending :
           st'[s].group.pending[i] = IF i \in ToIDs(q) THEN busy.consumer ELSE st[s].group.pending[i]
      /\ st[s].group.exists
  BY DEF Handed
<1>2. busy \in Delivering
  BY BusyKinds DEF CoreInv, BaseInv
<1>3. s \notin Done /\ Done = Found(busy.plan) \ Range(busy.todo)
  BY <1>1 DEF Done
<1>4. \A t \in Done : t \in StreamKeys /\ t \in DOMAIN busy.plan
  BY <1>2, <1>3, DeliveringFields
<1>5. CASE GoesOn(s)
  <2>1. /\ busy'.plan = busy.plan /\ busy'.consumer = busy.consumer /\ knows' = knows
        /\ Done' = Done \cup {s}
    BY <1>1, <1>3, <1>5 DEF GoesOn, Done
  <2>2. ASSUME NEW t \in StreamKeys, NEW k \in DOMAIN st[t].entries, NEW i,
               i = st[t].entries[k].id, i \in DOMAIN st'[t].group.pending
        PROVE  \/ knows[st[t].entries[k].val] \in {st'[t].group.pending[i], "lost"}
               \/ t \in Done \cup {s} /\ i \in ToIDs(busy.plan[t])
    <3>1. CASE t = s /\ i \in ToIDs(q)
      BY <1>1, <3>1
    <3>2. CASE ~(t = s /\ i \in ToIDs(q))
      <4>1. i \in DOMAIN st[t].group.pending /\ st'[t].group.pending[i] = st[t].group.pending[i]
        BY <1>1, <2>2, <3>2
      <4>2. \/ knows[st[t].entries[k].val] \in {st[t].group.pending[i], "lost"}
            \/ t \in Done /\ i \in ToIDs(busy.plan[t])
        BY <2>2, <4>1 DEF DeepInv, OwnersTold
      <4> QED
        BY <4>1, <4>2
    <3> QED
      BY <3>1, <3>2
  <2>3. OwnersTold'
    BY <1>1, <2>1, <2>2 DEF OwnersTold
  <2>4. ASSUME NEW t \in Done \cup {s}, NEW i \in ToIDs(busy.plan[t]) \cap DOMAIN st'[t].group.pending
        PROVE  st'[t].group.pending[i] = busy.consumer
    <3>1. CASE t = s
      BY <1>1, <2>4, <3>1
    <3>2. CASE t # s
      <4>1. t \in Done /\ st'[t] = st[t]
        BY <1>1, <1>4, <3>2
      <4> QED
        BY <2>4, <4>1 DEF DeepInv, DoneHeld
    <3> QED
      BY <3>1, <3>2
  <2>5. DoneHeld'
    BY <2>1, <2>4 DEF DoneHeld
  <2> QED
    BY <2>3, <2>5
<1>6. CASE Replies(s)
  <2>1. /\ busy'.op = "none" /\ knows' = Learned(busy.consumer, Planned(Found(busy.plan)))
        /\ Done = Found(busy.plan) \ {s}
    BY <1>3, <1>6 DEF Replies, Free
  <2>2. Done' = {} /\ DoneHeld'
    BY <2>1 DEF Done, DoneHeld
  <2>3. ASSUME NEW t \in StreamKeys, NEW k \in DOMAIN st[t].entries, NEW i,
               i = st[t].entries[k].id, i \in DOMAIN st'[t].group.pending
        PROVE  knows'[st[t].entries[k].val] \in {st'[t].group.pending[i], "lost"}
    <3>1. PICK v \in Entries : v = st[t].entries[k].val
      BY StoredFields DEF CoreInv, BaseInv, StoreTypes
    <3>2. knows'[v] = IF v \in Planned(Found(busy.plan)) THEN busy.consumer ELSE knows[v]
      BY <2>1 DEF Learned
    <3>3. CASE v \in Planned(Found(busy.plan))
      <4>1. PICK u \in Found(busy.plan) : v \in Vals(busy.plan[u])
        BY <3>3 DEF Planned
      <4>2. u \in DOMAIN busy.plan
        BY <4>1 DEF Found
      <4>3. PICK j \in DOMAIN busy.plan[u] : busy.plan[u][j].val = v
        BY <4>1 DEF Vals
      <4>4. u = t
        BY <3>1, <4>2, <4>3 DEF DeepInv, PlanHolds
      <4>5. i \in ToIDs(busy.plan[t])
        BY <2>3, <3>1, <4>1, <4>2, <4>4, PlannedEntry DEF DeepInv
      <4>6. st'[t].group.pending[i] = busy.consumer
        <5>1. CASE t = s
          BY <1>1, <2>3, <4>5, <5>1
        <5>2. CASE t # s
          <6>1. t \in Done /\ st'[t] = st[t]
            BY <1>1, <2>1, <4>1, <4>4, <5>2
          <6> QED
            BY <2>3, <4>5, <6>1 DEF DeepInv, DoneHeld
        <5> QED
          BY <5>1, <5>2
      <4> QED
        BY <3>1, <3>2, <3>3, <4>6
    <3>4. CASE v \notin Planned(Found(busy.plan))
      <4>1. ASSUME t \in Found(busy.plan), i \in ToIDs(busy.plan[t]), st[t].group.exists
            PROVE  FALSE
        <5>1. t \in DOMAIN busy.plan
          BY <4>1 DEF Found
        <5>2. v \in Vals(busy.plan[t])
          BY <2>3, <3>1, <4>1, <5>1, PlannedEntry DEF DeepInv
        <5> QED
          BY <3>4, <4>1, <5>2 DEF Planned
      <4>2. ~(t = s /\ i \in ToIDs(q))
        BY <1>1, <4>1
      <4>3. i \in DOMAIN st[t].group.pending /\ st'[t].group.pending[i] = st[t].group.pending[i]
        BY <1>1, <2>3, <4>2
      <4>4. st[t].group.exists
        BY <4>3, PendingGroup DEF DeepInv
      <4>5. ~(t \in Done /\ i \in ToIDs(busy.plan[t]))
        BY <2>1, <4>1, <4>4
      <4>6. knows[v] \in {st[t].group.pending[i], "lost"}
        BY <2>3, <3>1, <4>3, <4>5 DEF DeepInv, OwnersTold
      <4> QED
        BY <3>1, <3>2, <3>4, <4>3, <4>6
    <3> QED
      BY <3>3, <3>4
  <2>4. OwnersTold'
    BY <1>1, <2>3 DEF OwnersTold
  <2> QED
    BY <2>2, <2>4
<1> QED
  BY <1>5, <1>6

(***************************************************************************)
(* The steps of XREADGROUP, from the plan to the last delivery.            *)
(***************************************************************************)
LEMMA DeliverDeep ==
  ASSUME CoreInv, DeepInv, busy \in Delivering, NEW s, NEW q, NEW y, Delivers(s, q, y)
  PROVE  DeepInv'
<1>1. busy.op = "deliver"
  BY DeliveringFields
<1>2. Handed(s, q)
  BY DeliverHands
<1>3. (GoesOn(s) \/ Replies(s)) /\ added' = added /\ crossed' = crossed
  BY DeliverGoes
<1>4. GroupsBehind'
  BY <1>1, <1>2, HandedBehind
<1>5. XAddAhead' /\ Distinct' /\ PlanInOrder' /\ PlanHolds' /\ RereadsPending'
  BY <1>1, <1>2, <1>3, HandedPlan
<1>6. NewUnread' /\ UnreadNotHanded'
  BY <1>1, <1>2, <1>3, HandedCounts
<1>7. OwnersTold' /\ DoneHeld'
  BY <1>1, <1>2, <1>3, HandedOwners
<1> QED
  BY <1>4, <1>5, <1>6, <1>7 DEF DeepInv

(***************************************************************************)
(* A plan becomes a delivery.                                              *)
(***************************************************************************)
LEMMA PlannedDeep ==
  ASSUME CoreInv, DeepInv, NEW c \in Consumers, NEW keys \in SUBSET StreamKeys,
         NEW n \in Nat \ {0}, NEW new \in BOOLEAN, NEW plan,
         plan = XReadGroupPlan(c, keys, n, new), busy = Free,
         busy' = Delivery(c, plan, new), UNCHANGED <<st, added, handed, knows, crossed>>
  PROVE  DeepInv'
<1>1. PlanFound(plan, keys, new) /\ plan \in Plans
  BY PlanTyped DEF CoreInv
<1>2. PICK b : b = Delivery(c, plan, new)
  OBVIOUS
<1>3. b \in Delivering /\ b.plan = plan /\ b.new = new /\ Range(b.todo) = Found(plan)
  BY <1>1, <1>2, DeliveryTyped
<1>4. b.op = "deliver"
  BY <1>3 DEF Delivering
<1>5. /\ busy'.op = "deliver" /\ busy'.plan = plan /\ busy'.new = new
      /\ Range(busy'.todo) = Found(plan)
  BY <1>2, <1>3, <1>4
<1> QED
  BY <1>1, <1>5, StartDeep

(***************************************************************************)
(* XREADGROUP that found something.                                        *)
(***************************************************************************)
LEMMA ReadDeep ==
  ASSUME CoreInv, DeepInv, NEW c \in Consumers, NEW a \in ReadArgs, NEW new \in BOOLEAN,
         XReadGroup(c, a.streams, a.count, new)
  PROVE  DeepInv'
<1>1. PICK keys \in SUBSET StreamKeys, n \in Nat \ {0} : keys = a.streams /\ n = a.count
  BY StreamsAssumption DEF StreamKeys
<1>2. PICK plan : plan = XReadGroupPlan(c, keys, n, new)
  OBVIOUS
<1>3. /\ busy = Free /\ busy' = Delivery(c, plan, new)
      /\ UNCHANGED <<st, added, handed, knows, crossed>>
  BY <1>1, <1>2 DEF XReadGroup, histVars
<1> QED
  BY <1>2, <1>3, PlannedDeep

(***************************************************************************)
(* XREADGROUP after its wait.                                              *)
(***************************************************************************)
LEMMA ResumeDeep ==
  ASSUME CoreInv, DeepInv, NEW c \in Callers, XReadGroupResumes(c)
  PROVE  DeepInv'
<1>1. PICK keys \in SUBSET StreamKeys, n \in Nat \ {0} : keys = call[c].streams /\ n = call[c].count
  BY DEF CoreInv, BaseInv, WaitInv, CallTypes
<1>2. PICK new \in BOOLEAN : new = TRUE
  OBVIOUS
<1>3. PICK plan : plan = XReadGroupPlan(c, keys, n, TRUE)
  OBVIOUS
<1>4. c \in Consumers
  BY StreamsAssumption
<1>5. busy = Free /\ UNCHANGED <<st, added, handed, knows, crossed>>
  BY DEF XReadGroupResumes, histVars
<1>6. CASE busy' = Free
  BY <1>5, <1>6, CallDeep
<1>7. CASE busy' = Delivery(c, plan, TRUE)
  <2>1. plan = XReadGroupPlan(c, keys, n, new) /\ busy' = Delivery(c, plan, new)
    BY <1>2, <1>3, <1>7, Zenon
  <2> QED
    BY <1>4, <1>5, <2>1, PlannedDeep
<1> QED
  BY <1>1, <1>3, <1>6, <1>7 DEF XReadGroupResumes

(***************************************************************************)
(* The whole invariant is inductive, as long as no XTRIM empties a stream  *)
(* and with it forgets the last ID.                                        *)
(***************************************************************************)
LEMMA DeepInit ==
  ASSUME Init
  PROVE  DeepInv
<1>1. busy = Free /\ busy.op = "none" /\ Done = {}
  BY DEF Init, Free, Done
<1>2. \A s \in StreamKeys : st[s] = Absent
  BY DEF Init
<1>3. /\ Absent.entries = <<>> /\ Absent.group = Nobody /\ lastIDLocked(Absent) = Zero
      /\ Nobody.last = Zero /\ DOMAIN Nobody.pending = {} /\ DOMAIN Absent.entries = {}
  BY AbsentStored DEF Absent, Nobody, lastIDLocked
<1>4. ~compareID(Zero, Zero)
  BY DEF compareID, Zero
<1>5. GroupsBehind
  BY <1>2, <1>3, <1>4 DEF GroupsBehind, UpTo
<1>6. XAddAhead /\ PlanInOrder /\ PlanHolds /\ NewUnread /\ RereadsPending
  BY <1>1 DEF XAddAhead, PlanInOrder, PlanHolds, NewUnread, RereadsPending
<1>7. Distinct /\ OwnersTold /\ DoneHeld
  BY <1>1, <1>2, <1>3 DEF Distinct, OwnersTold, DoneHeld
<1>8. UnreadNotHanded
  BY <1>2, <1>3 DEF Init, UnreadNotHanded
<1> QED
  BY <1>5, <1>6, <1>7, <1>8 DEF DeepInv

(***************************************************************************)
(* Every step keeps it.                                                    *)
(***************************************************************************)
LEMMA DeepNext ==
  ASSUME 0 \notin TrimLens, CoreInv, DeepInv, [Next]_vars
  PROVE  DeepInv'
<1>1. ASSUME NEW s \in StreamKeys, NEW arg \in IDArgs, NEW ms \in Millis, NextStreamID(s, arg, ms)
      PROVE  DeepInv'
  BY <1>1, PrepareDeep
<1>2. ASSUME NEW s \in StreamKeys, NEW arg \in IDArgs, NEW ms \in Millis, XAdd(s, arg, ms)
      PROVE  DeepInv'
  BY <1>2, LinkDeep
<1>3. CASE XAddPrepared
  BY <1>3, AddDeep
<1>4. CASE DeliverNext
  <2>1. /\ busy \in Delivering
        /\ \/ Fail /\ UNCHANGED <<callVars, added, lapses, seen, crossed>>
           \/ \E s, q, y : Delivers(s, q, y)
    BY <1>4, DeliverWrites DEF CoreInv
  <2>2. CASE Fail /\ UNCHANGED <<callVars, added, lapses, seen, crossed>>
    BY <2>1, <2>2, FailDeep
  <2>3. ASSUME NEW s, NEW q, NEW y, Delivers(s, q, y) PROVE DeepInv'
    BY <2>1, <2>3, DeliverDeep
  <2> QED
    BY <2>1, <2>2, <2>3
<1>5. CASE AppendFails
  <2>1. UNCHANGED <<added, crossed>>
    BY <1>5 DEF AppendFails
  <2>2. CASE busy.op = "xadd" /\ busy' = Free /\ UNCHANGED <<st, handed, knows>>
    BY <2>1, <2>2, CallDeep
  <2>3. CASE busy.op = "deliver" /\ Fail
    <3>1. busy \in Delivering
      BY <2>3, BusyKinds DEF CoreInv, BaseInv
    <3> QED
      BY <2>1, <2>3, <3>1, FailDeep
  <2> QED
    BY <1>5, <2>2, <2>3 DEF AppendFails
<1>6. ASSUME NEW s \in StreamKeys, NEW start, NEW mkstream, XGroupCreate(s, start, mkstream)
      PROVE  DeepInv'
  BY <1>6, CreateDeep
<1>7. ASSUME NEW s \in StreamKeys, NEW ids, XAckHandler(s, ids) \/ PeerXAck(s, ids)
      PROVE  DeepInv'
  BY <1>7, AckDeep
<1>8. ASSUME NEW s \in StreamKeys, NEW c \in Consumers, NEW ripe,
             \/ \E ids \in Pendings(s) : XClaim(s, c, ids, ripe)
             \/ \E start \in DOMAIN st[s].group.pending, n \in Counts :
                  XAutoClaim(s, c, start, n, ripe)
      PROVE  DeepInv'
  <2>1. Claims(s, c)
    BY <1>8, BothClaim DEF CoreInv
  <2> QED
    BY <2>1, ClaimDeep
<1>9. ASSUME NEW s \in StreamKeys, NEW n \in TrimLens, XTrim(s, n) PROVE DeepInv'
  BY <1>9, TrimDeep
<1>10. ASSUME NEW s \in StreamKeys, Lapse(s) \/ deleteKeyLocked(s) \/ Set(s) PROVE DeepInv'
  BY <1>10, KeyDeep
<1>11. ASSUME NEW c \in Consumers, NEW a \in ReadArgs, NEW new \in BOOLEAN,
              XReadGroup(c, a.streams, a.count, new)
       PROVE  DeepInv'
  BY <1>11, ReadDeep
<1>12. ASSUME NEW c \in Callers,
              \/ \E a \in ReadArgs : XReadGroupBlocks(c, a.streams, a.count)
              \/ \E keys \in XReadKeys : XReadBlocks(c, keys)
              \/ XReadReturns(c) \/ Wait(c) \/ removeWaiter(c)
       PROVE  DeepInv'
  <2>1. UNCHANGED <<st, busy, added, handed, knows, crossed>>
    BY <1>12 DEF XReadGroupBlocks, XReadBlocks, XReadReturns, Wait, removeWaiter, histVars
  <2> QED
    BY <2>1, CallDeep
<1>13. ASSUME NEW c \in Callers, XReadGroupResumes(c) PROVE DeepInv'
  BY <1>13, ResumeDeep
<1>14. CASE FlushDB
  BY <1>14, FlushDeep
<1>15. CASE UNCHANGED vars
  <2>1. UNCHANGED <<st, busy, added, handed, knows, crossed>>
    BY <1>15 DEF vars, histVars
  <2> QED
    BY <2>1, CallDeep
<1> QED
  BY <1>1, <1>2, <1>3, <1>4, <1>5, <1>6, <1>7, <1>8, <1>9, <1>10, <1>11, <1>12, <1>13, <1>14,
     <1>15 DEF Next

(***************************************************************************)
(* It holds always.                                                        *)
(***************************************************************************)
LEMMA DeepAlways ==
  ASSUME 0 \notin TrimLens
  PROVE  Spec => [](CoreInv /\ DeepInv)
<1>1. Init => DeepInv
  BY DeepInit
<1>2. CoreInv /\ DeepInv /\ [Next]_vars => DeepInv'
  BY DeepNext
<1> QED
  BY <1>1, <1>2, CoreAlways, PTL DEF Spec

(***************************************************************************)
(* XREADGROUP, XCLAIM and XAUTOCLAIM: an entry that is pending and still   *)
(* in its stream was sent to the consumer it is assigned to, or the call   *)
(* that delivered it failed later on, for any streams, consumers and       *)
(* bounds, if no XTRIM has MAXLEN 0.                                       *)
(***************************************************************************)
THEOREM StreamsOwned ==
  ASSUME 0 \notin TrimLens
  PROVE  Spec => []OwnersKnow
<1>1. DeepInv => OwnersKnow
  <2> SUFFICES ASSUME DeepInv, busy.op # "deliver", NEW s \in StreamKeys,
                      NEW i \in DOMAIN st[s].group.pending, NEW e \in ValsAt(st[s], {i})
               PROVE  knows[e] \in {st[s].group.pending[i], "lost"}
    BY DEF OwnersKnow
  <2>1. PICK k \in DOMAIN st[s].entries : st[s].entries[k].id = i /\ st[s].entries[k].val = e
    BY DEF ValsAt
  <2>2. Done = {}
    BY DEF Done
  <2> QED
    BY <2>1, <2>2 DEF DeepInv, OwnersTold
<1> QED
  BY <1>1, DeepAlways, PTL

-----------------------------------------------------------------------------
(***************************************************************************)
(* The promise of EntryDelivery.  Where an entry is, seen from the group,  *)
(* is a matter of the one place where it is stored.                        *)
(***************************************************************************)
Seen(x, e, again) ==
  IF ~x.group.exists THEN "outside"
  ELSE IF e.id \in DOMAIN x.group.pending THEN IF e.val \in again THEN "reopened" ELSE "held"
  ELSE IF compareID(x.group.last, e.id) THEN "unread"
  ELSE "done"

Present(v) == \E s \in StreamKeys : \E k \in DOMAIN st[s].entries : st[s].entries[k].val = v

Placed ==
  \A v \in Entries :
    /\ \A s \in StreamKeys : \A k \in DOMAIN st[s].entries :
         st[s].entries[k].val = v => StatusOf(v) = Seen(st[s], st[s].entries[k], crossed)
    /\ ~Present(v) => StatusOf(v) = IF Entering(v) THEN "absent" ELSE "gone"
    /\ Present(v) => ~Entering(v)

(***************************************************************************)
(* The invariant makes the place unique.                                   *)
(***************************************************************************)
LEMMA PlacedOnce == CoreInv /\ DeepInv => Placed
<1> SUFFICES ASSUME CoreInv, DeepInv, NEW v \in Entries
             PROVE  /\ \A s \in StreamKeys : \A k \in DOMAIN st[s].entries :
                         st[s].entries[k].val = v =>
                           StatusOf(v) = Seen(st[s], st[s].entries[k], crossed)
                    /\ ~Present(v) => StatusOf(v) = IF Entering(v) THEN "absent" ELSE "gone"
                    /\ Present(v) => ~Entering(v)
  BY DEF Placed
<1>1. \A s \in StreamKeys : s \in Home(v) <=> \E k \in DOMAIN st[s].entries : st[s].entries[k].val = v
  BY DEF Home, Vals
<1>2. Home(v) \subseteq StreamKeys
  BY DEF Home
<1>3. Home(v) # {} <=> Present(v)
  BY <1>1, <1>2 DEF Present
<1>4. ASSUME NEW s \in StreamKeys, NEW k \in DOMAIN st[s].entries, st[s].entries[k].val = v
      PROVE  StatusOf(v) = Seen(st[s], st[s].entries[k], crossed)
  <2>1. \A t \in Home(v) : t = s
    BY <1>1, <1>2, <1>4 DEF DeepInv, Distinct
  <2>2. s \in Home(v)
    BY <1>1, <1>4
  <2>3. (CHOOSE t \in Home(v) : TRUE) = s
    BY <2>1, <2>2
  <2>4. PICK q \in Seq(StreamEntry) : q = st[s].entries
    BY StoredFields DEF CoreInv, BaseInv, StoreTypes
  <2>5. \A e \in Range(q) : e.val = v => e = q[k]
    BY <1>4, <2>4 DEF Range, DeepInv, Distinct
  <2>6. q[k] \in Range(q) /\ q[k].val = v
    BY <1>4, <2>4 DEF Range
  <2>7. (CHOOSE e \in Range(q) : e.val = v) = q[k]
    BY <2>5, <2>6
  <2>8. StatusOf(v) = StatusIn(st[s], q[k])
    BY <2>2, <2>3, <2>4, <2>7 DEF StatusOf
  <2> QED
    BY <2>4, <2>8 DEF StatusIn, Seen
<1>5. ~Present(v) => StatusOf(v) = IF Entering(v) THEN "absent" ELSE "gone"
  BY <1>3 DEF StatusOf
<1>6. ASSUME Present(v) PROVE ~Entering(v)
  <2>1. v <= added /\ (busy.op = "xadd" => v # busy.val)
    BY <1>6 DEF Present, DeepInv, Distinct
  <2>2. v \in Nat /\ added \in Nat
    BY StreamsAssumption DEF Entries, CoreInv, BaseInv, StoreTypes
  <2> QED
    BY <2>1, <2>2 DEF Entering
<1> QED
  BY <1>4, <1>5, <1>6

(***************************************************************************)
(* The moves that EntryDelivery allows.                                    *)
(***************************************************************************)
Turns(a, b) ==
  \/ a = b
  \/ a = "absent" /\ b \in {"outside", "unread"}
  \/ a = "outside" /\ b \in {"unread", "done"}
  \/ a \in {"held", "reopened"} /\ b = "done"
  \/ a = "done" /\ b = "reopened"
  \/ a \in {"absent", "outside", "unread", "held", "reopened", "done"} /\ b = "gone"

Moves(a, b, h, n) ==
  \/ Turns(a, b) /\ n = h
  \/ /\ h = 0 /\ n = 1
     /\ \/ a = "unread" /\ b = "held"
        \/ a = "gone" /\ b = "gone"

Advance == \A v \in Entries : Moves(StatusOf(v), StatusOf(v)', handed[v], handed'[v])

(***************************************************************************)
(* The statuses of an entry in a stream.                                   *)
(***************************************************************************)
LEMMA SeenOne ==
  ASSUME NEW x, NEW e, NEW again
  PROVE  Seen(x, e, again) \in {"outside", "held", "reopened", "unread", "done"}
BY DEF Seen

(***************************************************************************)
(* The statuses of EntryDelivery.                                          *)
(***************************************************************************)
LEMMA StatusTyped ==
  Placed => \A v \in Entries : StatusOf(v) \in Delivered!Statuses
<1> SUFFICES ASSUME Placed, NEW v \in Entries PROVE StatusOf(v) \in Delivered!Statuses
  OBVIOUS
<1>1. CASE Present(v)
  <2>1. PICK s \in StreamKeys : \E k \in DOMAIN st[s].entries : st[s].entries[k].val = v
    BY <1>1 DEF Present
  <2>2. PICK k \in DOMAIN st[s].entries : st[s].entries[k].val = v
    BY <2>1
  <2> QED
    BY <2>2, SeenOne DEF Placed, Delivered!Statuses
<1>2. CASE ~Present(v)
  BY <1>2 DEF Placed, Delivered!Statuses
<1> QED
  BY <1>1, <1>2

(***************************************************************************)
(* A step in which every entry advances is a step of EntryDelivery.        *)
(***************************************************************************)
LEMMA AdvanceMoves ==
  ASSUME Placed', Advance, handed' \in [Entries -> Nat]
  PROVE  Delivered!Next
<1>1. (\A v \in Entries : StatusOf(v) \in Delivered!Statuses)'
  <2>1. (Placed => \A v \in Entries : StatusOf(v) \in Delivered!Statuses)'
    BY StatusTyped, PTL
  <2> QED
    BY <2>1
<1>2. ASSUME NEW v \in Entries PROVE Delivered!Move(v)
  <2>1. Moves(StatusOf(v), StatusOf(v)', handed[v], handed'[v])
    BY DEF Advance
  <2> QED
    BY <2>1 DEF Moves, Turns, Delivered!Move, Delivered!Stay, Delivered!Enter, Delivered!Join,
                Delivered!Settle, Delivered!Reopen, Delivered!Leave, Delivered!Read,
                Delivered!Turn
<1> QED
  BY <1>1, <1>2 DEF Delivered!Next

(***************************************************************************)
(* An entry that nobody adds moves as its stream and the group do.         *)
(***************************************************************************)
LEMMA CarriedMoves ==
  ASSUME Placed, Placed', NEW u \in Entries,
         \A t \in StreamKeys : \A k \in DOMAIN st'[t].entries :
           st'[t].entries[k].val = u =>
             \E i \in DOMAIN st[t].entries : st'[t].entries[k] = st[t].entries[i],
         Entering(u)' => Entering(u),
         handed'[u] = handed[u],
         \A t \in StreamKeys : \A i \in DOMAIN st[t].entries, k \in DOMAIN st'[t].entries :
           st'[t].entries[k] = st[t].entries[i] /\ st[t].entries[i].val = u =>
             Turns(Seen(st[t], st[t].entries[i], crossed), Seen(st'[t], st'[t].entries[k], crossed'))
  PROVE  Moves(StatusOf(u), StatusOf(u)', handed[u], handed'[u])
<1>1. CASE Present(u)'
  <2>1. PICK t \in StreamKeys : \E k \in DOMAIN st'[t].entries : st'[t].entries[k].val = u
    BY <1>1 DEF Present
  <2>2. PICK k \in DOMAIN st'[t].entries : st'[t].entries[k].val = u
    BY <2>1
  <2>3. PICK i \in DOMAIN st[t].entries : st'[t].entries[k] = st[t].entries[i]
    BY <2>2
  <2>4. StatusOf(u) = Seen(st[t], st[t].entries[i], crossed)
    BY <2>2, <2>3 DEF Placed
  <2>5. StatusOf(u)' = Seen(st'[t], st'[t].entries[k], crossed')
    BY <2>2 DEF Placed
  <2> QED
    BY <2>2, <2>3, <2>4, <2>5 DEF Moves
<1>2. CASE ~Present(u)' /\ Present(u)
  <2>1. ~Entering(u)
    BY <1>2 DEF Placed
  <2>2. ~Entering(u)'
    BY <2>1
  <2>3. StatusOf(u)' = "gone"
    BY <1>2, <2>2 DEF Placed
  <2>4. PICK t \in StreamKeys : \E k \in DOMAIN st[t].entries : st[t].entries[k].val = u
    BY <1>2 DEF Present
  <2>5. PICK k \in DOMAIN st[t].entries : st[t].entries[k].val = u
    BY <2>4
  <2>6. StatusOf(u) = Seen(st[t], st[t].entries[k], crossed)
    BY <2>5 DEF Placed
  <2> QED
    BY <2>3, <2>6, SeenOne DEF Moves, Turns
<1>3. CASE ~Present(u)' /\ ~Present(u)
  <2>1. StatusOf(u) = IF Entering(u) THEN "absent" ELSE "gone"
    BY <1>3 DEF Placed
  <2>2. StatusOf(u)' = IF Entering(u)' THEN "absent" ELSE "gone"
    BY <1>3 DEF Placed
  <2> QED
    BY <2>1, <2>2 DEF Moves, Turns
<1> QED
  BY <1>1, <1>2, <1>3

(***************************************************************************)
(* In a calm step nothing begins to enter that was in a stream.            *)
(***************************************************************************)
LEMMA CalmEnters ==
  ASSUME CoreInv, Calm, NEW u \in Entries, Entering(u)'
  PROVE  Entering(u)
<1>1. u \in Nat /\ added \in Nat
  BY StreamsAssumption DEF Entries, CoreInv, BaseInv, StoreTypes
<1>2. u > added' \/ (busy'.op = "xadd" /\ busy'.val = u)
  BY DEF Entering
<1> QED
  BY <1>1, <1>2 DEF Calm, Entering, Free

(***************************************************************************)
(* Steps that only drop entries, or groups together with the entries.      *)
(***************************************************************************)
LEMMA StillAdvances ==
  ASSUME CoreInv, Placed, Placed', StillStep, Calm, handed' = handed, crossed' = crossed
  PROVE  Advance
<1> SUFFICES ASSUME NEW u \in Entries
             PROVE  Moves(StatusOf(u), StatusOf(u)', handed[u], handed'[u])
  BY DEF Advance
<1>1. Entering(u)' => Entering(u)
  BY CalmEnters
<1>2. \A t \in StreamKeys : \A k \in DOMAIN st'[t].entries :
        \E i \in DOMAIN st[t].entries : st'[t].entries[k] = st[t].entries[i]
  BY StillEffects
<1>3. ASSUME NEW t \in StreamKeys, NEW i \in DOMAIN st[t].entries, NEW k \in DOMAIN st'[t].entries,
             st'[t].entries[k] = st[t].entries[i]
      PROVE  Turns(Seen(st[t], st[t].entries[i], crossed), Seen(st'[t], st'[t].entries[k], crossed'))
  <2>1. PICK x \in Stored, y \in Stored : x = st[t] /\ y = st'[t] /\ Quiet(x, y)
    BY DEF StillStep, Still, CoreInv, BaseInv, StoreTypes
  <2>2. DOMAIN y.entries # {}
    BY <2>1, <1>3
  <2>3. y.group.exists = x.group.exists
    BY <2>1, <2>2, QuietEffects
  <2>4. y.group.exists => y.group = x.group
    BY <2>1, StillEffects
  <2>5. PICK e : e = st[t].entries[i] /\ e = st'[t].entries[k]
    BY <1>3
  <2>6. Seen(y, e, crossed) = Seen(x, e, crossed)
    BY <2>3, <2>4 DEF Seen
  <2> QED
    BY <2>1, <2>5, <2>6 DEF Turns
<1> QED
  BY <1>1, <1>2, <1>3, CarriedMoves

(***************************************************************************)
(* Steps of callers, and handlers that end without an entry.               *)
(***************************************************************************)
LEMMA CallAdvances ==
  ASSUME CoreInv, Placed, Placed', UNCHANGED <<st, added, handed, crossed>>,
         busy' = busy \/ busy' = Free
  PROVE  Advance
<1>1. StillStep
  BY UnchangedStill
<1> QED
  BY <1>1, StillAdvances DEF Calm

(***************************************************************************)
(* The start of a delivery changes no entry.                               *)
(***************************************************************************)
LEMMA StartAdvances ==
  ASSUME CoreInv, Placed, Placed', UNCHANGED <<st, added, handed, crossed>>, busy = Free,
         busy'.op # "xadd"
  PROVE  Advance
<1> SUFFICES ASSUME NEW u \in Entries
             PROVE  Moves(StatusOf(u), StatusOf(u)', handed[u], handed'[u])
  BY DEF Advance
<1>1. Entering(u)' => Entering(u)
  BY DEF Entering
<1>2. \A t \in StreamKeys : \A k \in DOMAIN st'[t].entries :
        \E i \in DOMAIN st[t].entries : st'[t].entries[k] = st[t].entries[i]
  OBVIOUS
<1>3. \A t \in StreamKeys : \A i \in DOMAIN st[t].entries, k \in DOMAIN st'[t].entries :
        st'[t].entries[k] = st[t].entries[i] =>
          Turns(Seen(st[t], st[t].entries[i], crossed), Seen(st'[t], st'[t].entries[k], crossed'))
  BY DEF Turns
<1> QED
  BY <1>1, <1>2, <1>3, CarriedMoves

(***************************************************************************)
(* XACK settles entries; one that a reader is about to deliver again may   *)
(* be reopened later.                                                      *)
(***************************************************************************)
LEMMA AckAdvances ==
  ASSUME CoreInv, DeepInv, Placed, Placed', NEW s \in StreamKeys, NEW ids,
         XAckHandler(s, ids) \/ PeerXAck(s, ids)
  PROVE  Advance
<1>1. XAck(s, ids)
  BY DEF XAckHandler, PeerXAck
<1>2. PICK y \in Stored :
        /\ st' = [st EXCEPT ![s] = y] /\ Quiet(st[s], y)
        /\ y.entries = st[s].entries /\ y.group.last = st[s].group.last /\ y.group.exists
        /\ DOMAIN y.group.pending = DOMAIN st[s].group.pending \ ids
  BY <1>1, AckWrites DEF CoreInv
<1>3. st'[s] = y /\ \A t \in StreamKeys : t # s => st'[t] = st[t]
  BY <1>2, QuietWritten
<1>4. UNCHANGED <<busy, added, handed>> /\ st[s].group.exists
  BY <1>1 DEF XAck
<1>5. crossed' = crossed \/ crossed' = crossed \cup ValsAt(st[s], ids \cap Rereading(s))
  BY DEF XAckHandler, PeerXAck
<1>6. \A t \in StreamKeys : st'[t].entries = st[t].entries
  BY <1>2, <1>3
<1> SUFFICES ASSUME NEW u \in Entries
             PROVE  Moves(StatusOf(u), StatusOf(u)', handed[u], handed'[u])
  BY DEF Advance
<1>7. Entering(u)' => Entering(u)
  BY <1>4 DEF Entering
<1>8. ASSUME NEW t \in StreamKeys, NEW i \in DOMAIN st[t].entries, NEW k \in DOMAIN st'[t].entries,
             st'[t].entries[k] = st[t].entries[i]
      PROVE  Turns(Seen(st[t], st[t].entries[i], crossed), Seen(st'[t], st'[t].entries[k], crossed'))
  <2>1. PICK e : e = st[t].entries[i] /\ e = st'[t].entries[k]
    BY <1>8
  <2>2. CASE t = s /\ e.id \in ids
    <3>1. UpTo(e.id, st[s].group.last) \/ e.id \notin DOMAIN st[s].group.pending
      BY DEF DeepInv, GroupsBehind
    <3>2. CASE e.id \in DOMAIN st[s].group.pending
      <4>1. Seen(st[s], e, crossed) \in {"held", "reopened"}
        BY <1>4, <3>2 DEF Seen
      <4>2. Seen(y, e, crossed') = "done"
        BY <1>2, <2>2, <3>1, <3>2 DEF Seen, UpTo
      <4> QED
        BY <1>3, <2>1, <2>2, <4>1, <4>2 DEF Turns
    <3>3. CASE e.id \notin DOMAIN st[s].group.pending
      <4>1. Seen(st[s], e, crossed) = Seen(y, e, crossed')
        BY <1>2, <1>4, <3>3 DEF Seen
      <4> QED
        BY <1>3, <2>1, <2>2, <4>1 DEF Turns
    <3> QED
      BY <3>2, <3>3
  <2>3. CASE t = s /\ e.id \notin ids
    <3>1. e.val \in ValsAt(st[s], ids \cap Rereading(s)) => e.id \in ids
      BY <2>1, <2>3, ValsAtPlace DEF DeepInv
    <3>2. e.val \in crossed' <=> e.val \in crossed
      BY <1>5, <2>3, <3>1
    <3>3. Seen(st[s], e, crossed) = Seen(y, e, crossed')
      BY <1>2, <1>4, <2>3, <3>2 DEF Seen
    <3> QED
      BY <1>3, <2>1, <2>3, <3>3 DEF Turns
  <2>4. CASE t # s
    <3>1. e.val \notin ValsAt(st[s], ids \cap Rereading(s))
      BY <2>1, <2>4, ValsAtPlace DEF DeepInv
    <3>2. e.val \in crossed' <=> e.val \in crossed
      BY <1>5, <3>1
    <3>3. Seen(st[t], e, crossed) = Seen(st[t], e, crossed')
      BY <3>2 DEF Seen
    <3> QED
      BY <1>3, <2>1, <2>4, <3>3 DEF Turns
  <2> QED
    BY <2>2, <2>3, <2>4
<1> QED
  BY <1>4, <1>6, <1>7, <1>8, CarriedMoves

(***************************************************************************)
(* A claim changes owners only.                                            *)
(***************************************************************************)
LEMMA ClaimAdvances ==
  ASSUME CoreInv, DeepInv, Placed, Placed', NEW s \in StreamKeys, NEW c \in Consumers, Claims(s, c)
  PROVE  Advance
<1>1. PICK ids, ripe : ids \in SUBSET DOMAIN st[s].group.pending /\ Claim(s, c, ids, ripe)
  BY DEF Claims
<1>2. PICK y \in Stored :
        /\ st' = [st EXCEPT ![s] = y] /\ Quiet(st[s], y)
        /\ y.entries = st[s].entries /\ y.group.last = st[s].group.last /\ y.group.exists
        /\ DOMAIN y.group.pending = DOMAIN st[s].group.pending
  <2>1. BaseInv /\ st[s].group.exists
    BY DEF Claims, CoreInv
  <2>2. \E y \in Stored : /\ st' = [st EXCEPT ![s] = y] /\ Quiet(st[s], y)
                          /\ y.entries = st[s].entries /\ y.group.last = st[s].group.last
                          /\ y.group.exists /\ y.other = st[s].other
                          /\ DOMAIN y.group.pending = DOMAIN st[s].group.pending
                          /\ \A i \in DOMAIN y.group.pending :
                               y.group.pending[i] = IF i \in ids \cap ripe THEN c
                                                    ELSE st[s].group.pending[i]
    BY <1>1, <2>1, ClaimWrites
  <2> QED
    BY <2>2
<1>3. st'[s] = y /\ \A t \in StreamKeys : t # s => st'[t] = st[t]
  BY <1>2, QuietWritten
<1>4. UNCHANGED <<busy, added, handed, crossed>> /\ st[s].group.exists
  BY DEF Claims
<1>5. \A t \in StreamKeys : st'[t].entries = st[t].entries
  BY <1>2, <1>3
<1> SUFFICES ASSUME NEW u \in Entries
             PROVE  Moves(StatusOf(u), StatusOf(u)', handed[u], handed'[u])
  BY DEF Advance
<1>6. Entering(u)' => Entering(u)
  BY <1>4 DEF Entering
<1>7. ASSUME NEW t \in StreamKeys, NEW i \in DOMAIN st[t].entries, NEW k \in DOMAIN st'[t].entries,
             st'[t].entries[k] = st[t].entries[i]
      PROVE  Turns(Seen(st[t], st[t].entries[i], crossed), Seen(st'[t], st'[t].entries[k], crossed'))
  <2>1. PICK e : e = st[t].entries[i] /\ e = st'[t].entries[k]
    BY <1>7
  <2>2. Seen(st[s], e, crossed) = Seen(y, e, crossed)
    BY <1>2, <1>4 DEF Seen
  <2>3. Seen(st[t], e, crossed) = Seen(st'[t], e, crossed')
    BY <1>3, <1>4, <2>2
  <2> QED
    BY <2>1, <2>3 DEF Turns
<1> QED
  BY <1>4, <1>5, <1>6, <1>7, CarriedMoves

(***************************************************************************)
(* XGROUP CREATE: the entries join the new group, unread or behind it.     *)
(***************************************************************************)
LEMMA CreateAdvances ==
  ASSUME CoreInv, Placed, Placed', NEW s \in StreamKeys, NEW start, NEW mkstream,
         XGroupCreate(s, start, mkstream)
  PROVE  Advance
<1>1. PICK x \in Stored, y \in Stored :
           /\ x = Absent \/ x = st[s]
           /\ ~x.group.exists
           /\ st' = [st EXCEPT ![s] = y]
           /\ y.entries = x.entries
           /\ y.group.exists /\ DOMAIN y.group.pending = {}
  BY CreateWrites DEF CoreInv
<1>2. UNCHANGED <<busy, added, handed, crossed>>
  BY DEF XGroupCreate, histVars
<1>3. st'[s] = y /\ \A t \in StreamKeys : t # s => st'[t] = st[t]
  BY <1>1, KeyWritten DEF CoreInv, BaseInv, StoreTypes
<1>4. \A t \in StreamKeys : \A k \in DOMAIN st'[t].entries :
        /\ k \in DOMAIN st[t].entries /\ st'[t].entries[k] = st[t].entries[k]
        /\ t = s => ~st[s].group.exists
  <2> SUFFICES ASSUME NEW k \in DOMAIN y.entries
               PROVE  x = st[s]
    BY <1>1, <1>3
  <2>1. DOMAIN <<>> = {}
    OBVIOUS
  <2> QED
    BY <1>1, <2>1, AbsentStored
<1> SUFFICES ASSUME NEW u \in Entries
             PROVE  Moves(StatusOf(u), StatusOf(u)', handed[u], handed'[u])
  BY DEF Advance
<1>5. Entering(u)' => Entering(u)
  BY <1>2 DEF Entering
<1>6. ASSUME NEW t \in StreamKeys, NEW i \in DOMAIN st[t].entries, NEW k \in DOMAIN st'[t].entries,
             st'[t].entries[k] = st[t].entries[i]
      PROVE  Turns(Seen(st[t], st[t].entries[i], crossed), Seen(st'[t], st'[t].entries[k], crossed'))
  <2>1. PICK e : e = st[t].entries[i] /\ e = st'[t].entries[k]
    BY <1>6
  <2>2. CASE t = s
    <3>1. Seen(st[s], e, crossed) = "outside"
      BY <1>4, <2>2 DEF Seen
    <3>2. Seen(y, e, crossed') \in {"unread", "done"}
      BY <1>1 DEF Seen
    <3> QED
      BY <1>3, <2>1, <2>2, <3>1, <3>2 DEF Turns
  <2>3. CASE t # s
    BY <1>2, <1>3, <2>1, <2>3 DEF Turns
  <2> QED
    BY <2>2, <2>3
<1> QED
  BY <1>2, <1>4, <1>5, <1>6, CarriedMoves

(***************************************************************************)
(* XADD: the new entry is outside or unread, the others stay as they were. *)
(***************************************************************************)
LEMMA GrownAdvances ==
  ASSUME CoreInv, DeepInv, DeepInv', Placed, Placed', NEW s, NEW x, NEW n, NEW id, NEW v,
         Grown(s, x, n, id, v), Fresh(x, id, v), UNCHANGED <<handed, crossed>>
  PROVE  Advance
<1>1. /\ s \in StreamKeys /\ v \in Entries /\ (x = st[s] \/ x = Absent)
      /\ st'[s].group = x.group /\ n \in DOMAIN st'[s].entries
      /\ st'[s].entries[n].id = id /\ st'[s].entries[n].val = v
      /\ \A t \in StreamKeys : t # s => st'[t] = st[t]
      /\ \A t \in StreamKeys : \A k \in DOMAIN st'[t].entries :
           \/ t = s /\ k = n /\ st'[t].entries[k].val = v
           \/ /\ k \in DOMAIN st[t].entries /\ st'[t].entries[k] = st[t].entries[k]
              /\ t = s => x = st[s] /\ k # n
  BY DEF Grown
<1>2. /\ \A t \in StreamKeys : \A k \in DOMAIN st[t].entries : st[t].entries[k].val # v
      /\ added \in Nat
      /\ v > added \/ (busy.op = "xadd" /\ busy.val = v)
      /\ busy'.op = "xadd" => busy' = busy
  BY <1>1, FreshFacts DEF DeepInv
<1>3. Moves(StatusOf(v), StatusOf(v)', handed[v], handed'[v])
  <2>1. ~Present(v) /\ Entering(v)
    BY <1>2 DEF Present, Entering
  <2>2. StatusOf(v) = "absent"
    BY <1>1, <2>1 DEF Placed
  <2>3. StatusOf(v)' = Seen(st'[s], st'[s].entries[n], crossed')
    BY <1>1 DEF Placed
  <2>4. compareID(st'[s].group.last, id)
    BY <1>1 DEF Fresh
  <2>5. id \notin DOMAIN st'[s].group.pending
    BY <1>1, <2>4 DEF DeepInv, GroupsBehind, UpTo
  <2>6. Seen(st'[s], st'[s].entries[n], crossed') \in {"outside", "unread"}
    BY <1>1, <2>4, <2>5 DEF Seen
  <2> QED
    BY <2>2, <2>3, <2>6 DEF Moves, Turns
<1>4. ASSUME NEW u \in Entries, u # v
      PROVE  Moves(StatusOf(u), StatusOf(u)', handed[u], handed'[u])
  <2>1. Entering(u)' => Entering(u)
    <3>1. u \in Nat
      BY DEF Entries
    <3>2. added' \in Nat /\ added <= added'
      BY DEF Fresh
    <3> QED
      BY <1>2, <3>1, <3>2 DEF Entering
  <2>2. \A t \in StreamKeys : \A k \in DOMAIN st'[t].entries :
           st'[t].entries[k].val = u =>
             \E i \in DOMAIN st[t].entries : st'[t].entries[k] = st[t].entries[i]
    BY <1>1, <1>4
  <2>3. ASSUME NEW t \in StreamKeys, NEW i \in DOMAIN st[t].entries,
               NEW k \in DOMAIN st'[t].entries, st'[t].entries[k] = st[t].entries[i],
               st[t].entries[i].val = u
        PROVE  Turns(Seen(st[t], st[t].entries[i], crossed), Seen(st'[t], st'[t].entries[k], crossed'))
    <3>1. PICK e : e = st[t].entries[i] /\ e = st'[t].entries[k]
      BY <2>3
    <3>2. st'[t].group = st[t].group
      BY <1>1, <1>4, <2>3
    <3>3. Seen(st'[t], e, crossed) = Seen(st[t], e, crossed)
      BY <3>2 DEF Seen
    <3> QED
      BY <3>1, <3>3 DEF Turns
  <2> QED
    BY <2>1, <2>2, <2>3, CarriedMoves
<1> QED
  BY <1>3, <1>4 DEF Advance

(***************************************************************************)
(* An entry that has not been read yet is not among those that a link      *)
(* acknowledged.                                                           *)
(***************************************************************************)
Uncrossed == \A v \in Entries : StatusOf(v) \in {"absent", "outside", "unread"} => v \notin crossed

(***************************************************************************)
(* A delivery of new entries reads them; one of pending entries may reopen *)
(* some that a link acknowledged.                                          *)
(***************************************************************************)
LEMMA HandedTurns ==
  ASSUME CoreInv, DeepInv, busy.op = "deliver", NEW s, NEW q, Handed(s, q), crossed' = crossed,
         NEW i \in DOMAIN st[s].entries, NEW e, e = st[s].entries[i],
         ~(busy.new /\ e.val \in Vals(q))
  PROVE  Turns(Seen(st[s], e, crossed), Seen(st'[s], e, crossed'))
<1>1. /\ s \in StreamKeys /\ s \in DOMAIN busy.plan /\ q = busy.plan[s] /\ s \in Range(busy.todo)
      /\ st[s].group.exists /\ st'[s].group.exists
      /\ DOMAIN st'[s].group.pending = DOMAIN st[s].group.pending \cup ToIDs(q)
      /\ Len(q) \in DOMAIN q /\ Last(q) = q[Len(q)]
  BY DEF Handed
<1>2. PICK a \in IDs, b \in IDs, l \in IDs :
        a = st[s].group.last /\ b = Last(q).id /\ l = st'[s].group.last /\ l = Later(a, b)
  BY LaterFacts DEF Handed
<1>3. e.id \in IDs
  BY <1>1, StoredFields DEF CoreInv, BaseInv, StoreTypes, StreamEntry
<1>4. compareID(l, e.id) => compareID(a, e.id)
  BY <1>2, <1>3, LaterFacts
<1>5. CASE busy.new
  <2>1. e.id \notin ToIDs(q)
    BY <1>1, <1>5, PlannedEntry DEF DeepInv
  <2>2. compareID(a, e.id) => compareID(b, e.id)
    BY <1>1, <1>2, <1>5, <2>1 DEF DeepInv, NewUnread
  <2>3. compareID(a, e.id) => compareID(l, e.id)
    BY <1>2, <2>2 DEF Later
  <2>4. Seen(st[s], e, crossed) = Seen(st'[s], e, crossed)
    BY <1>1, <1>2, <1>4, <2>1, <2>3 DEF Seen
  <2> QED
    BY <2>4 DEF Turns
<1>6. CASE ~busy.new
  <2>1. \A j \in ToIDs(q) : UpTo(j, a)
    BY <1>1, <1>2, <1>6 DEF DeepInv, RereadsPending
  <2>2. b \in ToIDs(q)
    BY <1>1, <1>2 DEF ToIDs
  <2>3. l = a
    BY <1>2, <2>1, <2>2 DEF Later, UpTo
  <2>4. CASE e.id \in DOMAIN st[s].group.pending \/ e.id \notin ToIDs(q)
    <3>1. Seen(st[s], e, crossed) = Seen(st'[s], e, crossed)
      BY <1>1, <1>2, <2>3, <2>4 DEF Seen
    <3> QED
      BY <3>1 DEF Turns
  <2>5. CASE e.id \notin DOMAIN st[s].group.pending /\ e.id \in ToIDs(q)
    <3>1. e.val \in crossed
      BY <1>1, <1>6, <2>5 DEF DeepInv, RereadsPending
    <3>2. Seen(st[s], e, crossed) = "done"
      BY <1>1, <1>2, <2>1, <2>5 DEF Seen, UpTo
    <3>3. Seen(st'[s], e, crossed) = "reopened"
      BY <1>1, <2>5, <3>1 DEF Seen
    <3> QED
      BY <3>2, <3>3 DEF Turns
  <2> QED
    BY <2>4, <2>5
<1> QED
  BY <1>5, <1>6

(***************************************************************************)
(* A delivery, for every entry.                                            *)
(***************************************************************************)
LEMMA HandedAdvances ==
  ASSUME CoreInv, DeepInv, Uncrossed, Placed, Placed', busy.op = "deliver", NEW s, NEW q,
         Handed(s, q), busy'.op # "xadd", UNCHANGED <<added, crossed>>
  PROVE  Advance
<1>1. /\ s \in StreamKeys /\ s \in DOMAIN busy.plan /\ q = busy.plan[s] /\ s \in Range(busy.todo)
      /\ st[s].group.exists /\ st'[s].group.exists
      /\ \A t \in StreamKeys : t # s => st'[t] = st[t]
      /\ \A t \in StreamKeys : st'[t].entries = st[t].entries
      /\ DOMAIN st'[s].group.pending = DOMAIN st[s].group.pending \cup ToIDs(q)
      /\ \A v \in Entries : handed'[v] = IF busy.new /\ v \in Vals(q) THEN handed[v] + 1 ELSE handed[v]
  BY DEF Handed
<1> SUFFICES ASSUME NEW u \in Entries
             PROVE  Moves(StatusOf(u), StatusOf(u)', handed[u], handed'[u])
  BY DEF Advance
<1>2. Entering(u)' => Entering(u)
  BY DEF Entering
<1>3. CASE ~(busy.new /\ u \in Vals(q))
  <2>1. handed'[u] = handed[u]
    BY <1>1, <1>3
  <2>2. ASSUME NEW t \in StreamKeys, NEW i \in DOMAIN st[t].entries,
               NEW k \in DOMAIN st'[t].entries, st'[t].entries[k] = st[t].entries[i],
               st[t].entries[i].val = u
        PROVE  Turns(Seen(st[t], st[t].entries[i], crossed), Seen(st'[t], st'[t].entries[k], crossed'))
    <3>1. PICK e : e = st[t].entries[i] /\ e = st'[t].entries[k] /\ e.val = u
      BY <2>2
    <3>2. CASE t = s
      BY <1>3, <2>2, <3>1, <3>2, HandedTurns
    <3>3. CASE t # s
      BY <1>1, <3>1, <3>3 DEF Turns
    <3> QED
      BY <3>2, <3>3
  <2> QED
    BY <1>1, <1>2, <2>1, <2>2, CarriedMoves
<1>4. CASE busy.new /\ u \in Vals(q)
  <2>1. PICK j \in DOMAIN q : q[j].val = u
    BY <1>4 DEF Vals
  <2>2. handed[u] = 0 /\ handed'[u] = 1
    BY <1>1, <1>4, <2>1 DEF DeepInv, NewUnread
  <2>3. CASE Present(u)
    <3>1. PICK t \in StreamKeys : \E k \in DOMAIN st[t].entries : st[t].entries[k].val = u
      BY <2>3 DEF Present
    <3>2. PICK k \in DOMAIN st[t].entries : st[t].entries[k].val = u
      BY <3>1
    <3>3. t = s /\ st[t].entries[k].id = q[j].id
      BY <1>1, <2>1, <3>2 DEF DeepInv, PlanHolds
    <3>4. PICK e : e = st[s].entries[k] /\ e = st'[s].entries[k] /\ e.val = u
      BY <1>1, <3>2, <3>3
    <3>5. e.id \in ToIDs(q)
      BY <2>1, <3>3, <3>4 DEF ToIDs
    <3>6. compareID(st[s].group.last, e.id)
      BY <1>1, <1>4, <2>1, <3>3, <3>4 DEF DeepInv, NewUnread
    <3>7. e.id \notin DOMAIN st[s].group.pending
      BY <1>1, <3>6 DEF DeepInv, GroupsBehind, UpTo
    <3>8. Seen(st[s], e, crossed) = "unread"
      BY <1>1, <3>6, <3>7 DEF Seen
    <3>9. StatusOf(u) = "unread"
      BY <1>1, <3>2, <3>3, <3>4, <3>8 DEF Placed
    <3>10. u \notin crossed'
      BY <3>9 DEF Uncrossed
    <3>11. Seen(st'[s], e, crossed') = "held"
      BY <1>1, <3>4, <3>5, <3>10 DEF Seen
    <3>12. StatusOf(u)' = "held"
      BY <1>1, <3>2, <3>3, <3>4, <3>11 DEF Placed
    <3> QED
      BY <2>2, <3>9, <3>12 DEF Moves
  <2>4. CASE ~Present(u)
    <3>1. ~Present(u)'
      BY <1>1, <2>4 DEF Present
    <3>2. u <= added
      BY <1>1, <2>1 DEF DeepInv, PlanInOrder
    <3>3. u \in Nat /\ added \in Nat
      BY StreamsAssumption DEF Entries, CoreInv, BaseInv, StoreTypes
    <3>4. ~Entering(u)
      BY <3>2, <3>3 DEF Entering
    <3>5. StatusOf(u) = "gone"
      BY <2>4, <3>4 DEF Placed
    <3>6. StatusOf(u)' = "gone"
      BY <1>2, <3>1, <3>4 DEF Placed
    <3> QED
      BY <2>2, <3>5, <3>6 DEF Moves
  <2> QED
    BY <2>3, <2>4
<1> QED
  BY <1>3, <1>4

(***************************************************************************)
(* An XACK of a link settles what it crosses, and no other step makes an   *)
(* entry unread again.                                                     *)
(***************************************************************************)
LEMMA AdvanceUncrossed ==
  ASSUME Advance, Uncrossed, crossed' = crossed
  PROVE  Uncrossed'
<1> SUFFICES ASSUME NEW v \in Entries, StatusOf(v)' \in {"absent", "outside", "unread"}
             PROVE  v \notin crossed'
  BY DEF Uncrossed
<1>1. Moves(StatusOf(v), StatusOf(v)', handed[v], handed'[v])
  BY DEF Advance
<1>2. StatusOf(v) \in {"absent", "outside", "unread"}
  BY <1>1 DEF Moves, Turns
<1> QED
  BY <1>2 DEF Uncrossed

(***************************************************************************)
(* XACK: what a link settles was pending.                                  *)
(***************************************************************************)
LEMMA AckUncrossed ==
  ASSUME CoreInv, DeepInv, Placed, Placed', Advance, Uncrossed, NEW s \in StreamKeys,
         NEW ids \in Pendings(s), XAckHandler(s, ids) \/ PeerXAck(s, ids)
  PROVE  Uncrossed'
<1>1. CASE XAckHandler(s, ids)
  BY <1>1, AdvanceUncrossed DEF XAckHandler
<1>2. CASE PeerXAck(s, ids)
  <2>1. XAck(s, ids) /\ crossed' = crossed \cup ValsAt(st[s], ids \cap Rereading(s))
    BY <1>2 DEF PeerXAck
  <2> SUFFICES ASSUME NEW v \in Entries, StatusOf(v)' \in {"absent", "outside", "unread"}
               PROVE  v \notin crossed'
    BY DEF Uncrossed
  <2>2. Moves(StatusOf(v), StatusOf(v)', handed[v], handed'[v])
    BY DEF Advance
  <2>3. StatusOf(v) \in {"absent", "outside", "unread"}
    BY <2>2 DEF Moves, Turns
  <2>4. v \notin crossed
    BY <2>3 DEF Uncrossed
  <2>5. ASSUME v \in ValsAt(st[s], ids \cap Rereading(s)) PROVE FALSE
    <3>1. PICK k \in DOMAIN st[s].entries : st[s].entries[k].id \in ids /\ st[s].entries[k].val = v
      BY <2>5 DEF ValsAt
    <3>2. st[s].entries[k].id \in DOMAIN st[s].group.pending /\ st[s].group.exists
      BY <2>1, <3>1 DEF Pendings, XAck
    <3>3. Seen(st[s], st[s].entries[k], crossed) \in {"held", "reopened"}
      BY <3>2 DEF Seen
    <3>4. StatusOf(v) = Seen(st[s], st[s].entries[k], crossed)
      BY <3>1 DEF Placed
    <3> QED
      BY <2>3, <3>3, <3>4
  <2> QED
    BY <2>1, <2>4, <2>5
<1> QED
  BY <1>1, <1>2

(***************************************************************************)
(* Every step of the model moves every entry as EntryDelivery allows.      *)
(***************************************************************************)
LEMMA NextAdvances ==
  ASSUME CoreInv, DeepInv, DeepInv', Placed, Placed', Uncrossed, 0 \notin TrimLens, [Next]_vars
  PROVE  Advance /\ Uncrossed'
<1>1. ASSUME NEW s \in StreamKeys, NEW arg \in IDArgs, NEW ms \in Millis, NextStreamID(s, arg, ms)
      PROVE  Advance /\ Uncrossed'
  <2>1. StillStep /\ Calm /\ UNCHANGED <<handed, crossed>>
    BY <1>1, PrepareCalm
  <2> QED
    BY <2>1, StillAdvances, AdvanceUncrossed
<1>2. ASSUME NEW s \in StreamKeys, NEW arg \in IDArgs, NEW ms \in Millis, XAdd(s, arg, ms)
      PROVE  Advance /\ Uncrossed'
  <2>1. PICK x, n, id, v : Grown(s, x, n, id, v) /\ Fresh(x, id, v)
    BY <1>2, LinkGrows
  <2>2. UNCHANGED <<handed, crossed>>
    BY <1>2 DEF XAdd, histVars
  <2> QED
    BY <2>1, <2>2, GrownAdvances, AdvanceUncrossed
<1>3. CASE XAddPrepared
  <2>1. busy \in Adding /\ busy.stream \in StreamKeys
    BY <1>3, AddBase DEF CoreInv
  <2>2. busy' = Free /\ UNCHANGED <<added, handed, crossed>>
    BY <1>3 DEF XAddPrepared, histVars
  <2>3. CASE st' = [st EXCEPT ![busy.stream] = expiredKeyLocked(@)]
    <3>1. PICK y \in Stored : st' = [st EXCEPT ![busy.stream] = y] /\ Still(st[busy.stream], y)
      BY <2>1, <2>3, KeyActionWrites DEF CoreInv
    <3>2. StillStep
      BY <2>1, <3>1, StillWritten
    <3> QED
      BY <2>2, <3>2, StillAdvances, AdvanceUncrossed DEF Calm
  <2>4. CASE /\ ~Refused(busy.stream) /\ WakeAll(busy.stream)
             /\ st' = [st EXCEPT ![busy.stream] = WithEntry(@, busy.id, busy.val)]
    <3>1. PICK s, x, n, id, v : Grown(s, x, n, id, v) /\ Fresh(x, id, v)
      BY <2>1, <2>2, <2>4, PreparedGrows
    <3> QED
      BY <2>2, <3>1, GrownAdvances, AdvanceUncrossed
  <2> QED
    BY <1>3, <2>3, <2>4 DEF XAddPrepared
<1>4. CASE Fail /\ UNCHANGED <<added, crossed>>
  <2>1. UNCHANGED <<st, added, handed, crossed>> /\ busy' = Free
    BY <1>4 DEF Fail
  <2> QED
    BY <2>1, CallAdvances, AdvanceUncrossed
<1>5. CASE DeliverNext
  <2>1. /\ busy \in Delivering
        /\ \/ Fail /\ UNCHANGED <<callVars, added, lapses, seen, crossed>>
           \/ \E s, q, y : Delivers(s, q, y)
    BY <1>5, DeliverWrites DEF CoreInv
  <2>2. ASSUME NEW s, NEW q, NEW y, Delivers(s, q, y) PROVE Advance /\ Uncrossed'
    <3>1. busy.op = "deliver"
      BY <2>1, DeliveringFields
    <3>2. Handed(s, q)
      BY <2>1, <2>2, DeliverHands
    <3>3. (GoesOn(s) \/ Replies(s)) /\ added' = added /\ crossed' = crossed
      BY <2>1, <2>2, DeliverGoes
    <3>4. busy'.op # "xadd"
      BY <3>3 DEF GoesOn, Replies, Free
    <3> QED
      BY <3>1, <3>2, <3>3, <3>4, HandedAdvances, AdvanceUncrossed
  <2> QED
    BY <1>4, <2>1, <2>2
<1>6. CASE AppendFails
  <2>1. UNCHANGED <<added, crossed>>
    BY <1>6 DEF AppendFails
  <2>2. CASE busy.op = "xadd" /\ busy' = Free /\ UNCHANGED <<st, handed, knows>>
    BY <2>1, <2>2, CallAdvances, AdvanceUncrossed
  <2> QED
    BY <1>4, <1>6, <2>1, <2>2 DEF AppendFails
<1>7. ASSUME NEW s \in StreamKeys, NEW start, NEW mkstream, XGroupCreate(s, start, mkstream)
      PROVE  Advance /\ Uncrossed'
  <2>1. crossed' = crossed
    BY <1>7 DEF XGroupCreate, histVars
  <2> QED
    BY <1>7, <2>1, CreateAdvances, AdvanceUncrossed
<1>8. ASSUME NEW s \in StreamKeys, NEW ids \in Pendings(s), XAckHandler(s, ids) \/ PeerXAck(s, ids)
      PROVE  Advance /\ Uncrossed'
  BY <1>8, AckAdvances, AckUncrossed
<1>9. ASSUME NEW s \in StreamKeys, NEW c \in Consumers, NEW ripe,
             \/ \E ids \in Pendings(s) : XClaim(s, c, ids, ripe)
             \/ \E start \in DOMAIN st[s].group.pending, n \in Counts :
                  XAutoClaim(s, c, start, n, ripe)
      PROVE  Advance /\ Uncrossed'
  <2>1. Claims(s, c)
    BY <1>9, BothClaim DEF CoreInv
  <2>2. crossed' = crossed
    BY <2>1 DEF Claims
  <2> QED
    BY <2>1, <2>2, ClaimAdvances, AdvanceUncrossed
<1>10. ASSUME NEW s \in StreamKeys, NEW n \in TrimLens, XTrim(s, n) PROVE Advance /\ Uncrossed'
  <2>1. PICK y \in Stored : st' = [st EXCEPT ![s] = y] /\ (n # 0 => Still(st[s], y))
    BY <1>10, TrimWrites DEF CoreInv
  <2>2. StillStep
    BY <1>10, <2>1, StillWritten
  <2>3. UNCHANGED <<busy, added, handed, crossed>>
    BY <1>10 DEF XTrim, histVars
  <2> QED
    BY <2>2, <2>3, StillAdvances, AdvanceUncrossed DEF Calm
<1>11. ASSUME NEW s \in StreamKeys, Lapse(s) \/ deleteKeyLocked(s) \/ Set(s)
       PROVE  Advance /\ Uncrossed'
  <2>1. PICK y \in Stored : st' = [st EXCEPT ![s] = y] /\ Still(st[s], y)
    BY <1>11, KeyActionWrites DEF CoreInv
  <2>2. StillStep
    BY <2>1, StillWritten
  <2>3. UNCHANGED <<busy, added, handed, crossed>>
    BY <1>11 DEF Lapse, deleteKeyLocked, Set, histVars
  <2> QED
    BY <2>2, <2>3, StillAdvances, AdvanceUncrossed DEF Calm
<1>12. ASSUME NEW c \in Consumers, NEW a \in ReadArgs, NEW new \in BOOLEAN,
              XReadGroup(c, a.streams, a.count, new)
       PROVE  Advance /\ Uncrossed'
  <2>1. busy = Free /\ UNCHANGED <<st, added, handed, crossed>>
    BY <1>12 DEF XReadGroup, histVars
  <2>2. busy'.op # "xadd"
    BY <1>12 DEF XReadGroup, Delivery
  <2> QED
    BY <2>1, <2>2, StartAdvances, AdvanceUncrossed
<1>13. ASSUME NEW c \in Callers,
              \/ \E a \in ReadArgs : XReadGroupBlocks(c, a.streams, a.count)
              \/ \E keys \in XReadKeys : XReadBlocks(c, keys)
              \/ XReadReturns(c) \/ Wait(c) \/ removeWaiter(c)
       PROVE  Advance /\ Uncrossed'
  <2>1. UNCHANGED <<st, busy, added, handed, crossed>>
    BY <1>13 DEF XReadGroupBlocks, XReadBlocks, XReadReturns, Wait, removeWaiter, histVars
  <2> QED
    BY <2>1, CallAdvances, AdvanceUncrossed
<1>14. ASSUME NEW c \in Callers, XReadGroupResumes(c) PROVE Advance /\ Uncrossed'
  <2>1. busy = Free /\ UNCHANGED <<st, added, handed, crossed>>
    BY <1>14 DEF XReadGroupResumes, histVars
  <2>2. busy'.op # "xadd"
    BY <1>14 DEF XReadGroupResumes, Delivery, Free
  <2> QED
    BY <2>1, <2>2, StartAdvances, AdvanceUncrossed
<1>15. CASE FlushDB
  <2>1. StillStep
    BY <1>15, FlushWrites DEF StillStep, CoreInv
  <2>2. UNCHANGED <<busy, added, handed, crossed>>
    BY <1>15 DEF FlushDB, histVars
  <2> QED
    BY <2>1, <2>2, StillAdvances, AdvanceUncrossed DEF Calm
<1>16. CASE UNCHANGED vars
  <2>1. UNCHANGED <<st, busy, added, handed, crossed>>
    BY <1>16 DEF vars, histVars
  <2> QED
    BY <2>1, CallAdvances, AdvanceUncrossed
<1> QED
  BY <1>1, <1>2, <1>3, <1>5, <1>6, <1>7, <1>8, <1>9, <1>10, <1>11, <1>12, <1>13, <1>14, <1>15,
     <1>16 DEF Next

(***************************************************************************)
(* At the start all entries are absent.                                    *)
(***************************************************************************)
LEMMA DeliveryInit ==
  ASSUME Init
  PROVE  Uncrossed /\ Delivered!Init
<1>1. crossed = {} /\ handed = [v \in Entries |-> 0]
  BY DEF Init
<1>2. ASSUME NEW v \in Entries PROVE StatusOf(v) = "absent"
  <2>1. Placed
    BY CoreInit, DeepInit, PlacedOnce
  <2>2. DOMAIN Absent.entries = {}
    BY AbsentStored
  <2>3. ~Present(v)
    BY <2>2 DEF Init, Present
  <2>4. Entering(v)
    BY DEF Init, Entering, Entries
  <2> QED
    BY <2>1, <2>3, <2>4 DEF Placed
<1> QED
  BY <1>1, <1>2 DEF Uncrossed, Delivered!Init

(***************************************************************************)
(* XADD, XGROUP CREATE, XREADGROUP, XACK, XCLAIM, XAUTOCLAIM, XTRIM and    *)
(* the expiry, deletion and overwriting of keys implement EntryDelivery    *)
(* for any streams, consumers and bounds: an entry is read as new at most  *)
(* once and never skipped, an acknowledgement is final but for one race    *)
(* with a replication link, and what left a stream does not come back.     *)
(* The hypothesis: no XTRIM has MAXLEN 0, which would forget the last ID.  *)
(***************************************************************************)
THEOREM StreamsDelivered ==
  ASSUME 0 \notin TrimLens
  PROVE  Spec => DeliveredOnce
<1>1. Init => Uncrossed /\ Delivered!Init
  BY DeliveryInit
<1>2. CoreInv /\ DeepInv => Placed
  BY PlacedOnce
<1>3. CoreInv /\ DeepInv /\ DeepInv' /\ Placed /\ Placed' /\ Uncrossed /\ [Next]_vars =>
        Advance /\ Uncrossed'
  BY NextAdvances
<1>4. CoreInv' => handed' \in [Entries -> Nat]
  BY DEF CoreInv, BaseInv, StoreTypes
<1>5. CoreInv' /\ Placed' /\ Advance => Delivered!Next
  BY <1>4, AdvanceMoves
<1> QED
  BY <1>1, <1>2, <1>3, <1>5, DeepAlways, PTL DEF Spec, DeliveredOnce, Delivered!Spec
=============================================================================
