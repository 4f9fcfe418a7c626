------------------------- MODULE BlockingListProofs -------------------------
(***************************************************************************)
(* Proofs about BlockingList for every set of keys and of consumers, any   *)
(* keys a call may name and any number of elements.                        *)
(***************************************************************************)
EXTENDS BlockingList, FiniteSetTheorems, WellFoundedInduction, TLAPS

-----------------------------------------------------------------------------
(***************************************************************************)
(* What becomes of the elements: every one pushed is in exactly one of     *)
(* five places.                                                            *)
(***************************************************************************)
Accounted(inLists, inFlight, ret, gone, del, n) ==
  /\ inLists \cup inFlight \cup ret \cup gone \cup del = 1..n
  /\ inLists \cap (inFlight \cup ret \cup gone \cup del) = {}
  /\ inFlight \cap (ret \cup gone \cup del) = {}
  /\ ret \cap (gone \cup del) = {}
  /\ gone \cap del = {}

(***************************************************************************)
(* No value is twice in the lists q.                                       *)
(***************************************************************************)
Apart(q) ==
  \A k, l \in Keys : \A i \in DOMAIN q[k], j \in DOMAIN q[l] :
    q[k][i] = q[l][j] => k = l /\ i = j

(***************************************************************************)
(* The elements of the lists q.                                            *)
(***************************************************************************)
AllOf(q) == UNION {ToSet(q[k]) : k \in Keys}

(***************************************************************************)
(* No value is on its way to two sleeping calls.                           *)
(***************************************************************************)
ChansApart ==
  \A c, d \in Consumers :
    (pc[c] = "select" /\ pc[d] = "select" /\ chan[c] # <<>> /\ chan[c] = chan[d]) => c = d

(***************************************************************************)
(* A waiter whose once has not fired has nothing in its channel.           *)
(***************************************************************************)
UnservedEmpty == \A c \in Consumers : ~served[c] => chan[c] = <<>>

(***************************************************************************)
(* The inductive invariant.                                                *)
(***************************************************************************)
IndInv ==
  /\ TypeOK /\ NoStaleWaiter /\ UnservedEmpty
  /\ Accounted(AllOf(lists), InFlight, returned, lost, dropped, nextVal)
  /\ Apart(lists)
  /\ ChansApart

-----------------------------------------------------------------------------
(***************************************************************************)
(* A set of numbers that is not empty has a least one: the intervals below *)
(* its members are finite sets, ordered by inclusion.                      *)
(***************************************************************************)
LEMMA LeastNumber ==
  ASSUME NEW T \in SUBSET Nat, T # {}
  PROVE  \E m \in T : \A k \in T : m <= k
<1> DEFINE I == {0..n : n \in T}
<1>1. I \subseteq FiniteSubsetsOf(Nat)
  <2> SUFFICES ASSUME NEW n \in T PROVE 0..n \in FiniteSubsetsOf(Nat)
    OBVIOUS
  <2>1. n \in Int /\ 0 \in Int
    OBVIOUS
  <2>2. IsFiniteSet(0..n)
    BY <2>1, FS_Interval
  <2> QED
    BY <2>2 DEF FiniteSubsetsOf
<1>2. I # {}
  OBVIOUS
<1> HIDE DEF I
<1>3. \E x \in I : \A y \in I : ~(<<y, x>> \in StrictSubsetOrdering(Nat))
  BY <1>1, <1>2, WFMin, FS_StrictSubsetOrderingWellFounded
<1>4. PICK m \in T : \A y \in I : ~(<<y, 0..m>> \in StrictSubsetOrdering(Nat))
  BY <1>3 DEF I
<1>5. ASSUME NEW k \in T PROVE m <= k
  <2> SUFFICES ASSUME k < m PROVE FALSE
    OBVIOUS
  <2>1. 0..k \subseteq 0..m /\ 0..k # 0..m /\ 0..k \in SUBSET Nat /\ 0..m \in SUBSET Nat
    <3>1. m \in 0..m /\ m \notin 0..k
      OBVIOUS
    <3> QED
      BY <3>1
  <2>2. <<0..k, 0..m>> \in StrictSubsetOrdering(Nat)
    BY <2>1 DEF StrictSubsetOrdering
  <2> QED
    BY <1>4, <2>2 DEF I
<1> QED
  BY <1>5

(***************************************************************************)
(* Induction over the numbers up to n, for a set of numbers.               *)
(***************************************************************************)
LEMMA CountUp ==
  ASSUME NEW n \in Nat, NEW S, 0 \in S, \A i \in 0..(n - 1) : i \in S => i + 1 \in S
  PROVE  \A i \in 0..n : i \in S
<1> DEFINE T == {i \in 0..n : i \notin S}
<1> SUFFICES ASSUME T # {} PROVE FALSE
  OBVIOUS
<1>1. T \in SUBSET Nat
  OBVIOUS
<1>2. PICK m \in T : \A k \in T : m <= k
  BY <1>1, LeastNumber
<1>3. m # 0 /\ m \in 0..n /\ m \notin S
  BY <1>2
<1>4. m - 1 \in 0..(n - 1) /\ m - 1 \in 0..n
  BY <1>3
<1>5. m - 1 \in S
  BY <1>2, <1>4
<1>6. (m - 1) + 1 \in S
  BY <1>4, <1>5
<1> QED
  BY <1>3, <1>6

-----------------------------------------------------------------------------
(***************************************************************************)
(* What removeListWaiter keeps: other waiters of the same key.             *)
(***************************************************************************)
LEMMA KeptWaiters ==
  ASSUME NEW X, NEW ws \in Seq(X), NEW c
  PROVE  /\ Kept(ws, c) \in Seq(X)
         /\ ToSet(Kept(ws, c)) \subseteq ToSet(ws) \ {c}
<1> DEFINE E(f, i) == IF i = 0 THEN <<>>
                      ELSE IF ws[i] = c THEN f[i - 1] ELSE Append(f[i - 1], ws[i])
           G(m, g) == g = [i \in 0..m |-> E(g, i)]
           S == {m \in 0..Len(ws) : \E g : G(m, g)}
<1>1. PICK n \in Nat : n = Len(ws)
  OBVIOUS
<1>2. 0 \in S
  <2>1. PICK g : g = [i \in 0..0 |-> <<>>]
    OBVIOUS
  <2>2. G(0, g)
    BY <2>1
  <2> QED
    BY <1>1, <2>2
<1>3. ASSUME NEW m \in 0..(n - 1), m \in S PROVE m + 1 \in S
  <2>1. PICK g : G(m, g)
    BY <1>3
  <2>2. PICK h : h = [i \in 0..(m + 1) |-> IF i = m + 1 THEN E(g, m + 1) ELSE g[i]]
    OBVIOUS
  <2>3. m \in Nat /\ m + 1 \in 0..Len(ws)
    BY <1>1
  <2>4. ASSUME NEW i \in 0..(m + 1) PROVE h[i] = E(h, i)
    <3>1. CASE i = m + 1
      <4>1. i # 0 /\ i - 1 = m /\ m \in 0..(m + 1) /\ m # m + 1
        BY <2>3, <3>1
      <4>2. h[m] = g[m]
        BY <2>2, <4>1
      <4> QED
        BY <2>2, <3>1, <4>1, <4>2
    <3>2. CASE i # m + 1
      <4>1. i \in 0..m
        BY <2>3, <3>2
      <4>2. h[i] = g[i] /\ g[i] = E(g, i)
        BY <2>1, <2>2, <3>2, <4>1
      <4>3. CASE i = 0
        BY <4>2, <4>3
      <4>4. CASE i # 0
        <5>1. i - 1 \in 0..(m + 1) /\ i - 1 # m + 1
          BY <2>3, <4>1, <4>4
        <5>2. h[i - 1] = g[i - 1]
          BY <2>2, <5>1
        <5> QED
          BY <4>2, <4>4, <5>2
      <4> QED
        BY <4>3, <4>4
    <3> QED
      BY <3>1, <3>2
  <2>5. G(m + 1, h)
    BY <2>2, <2>4
  <2> QED
    BY <2>3, <2>5
<1>4. \E g : G(n, g)
  <2> HIDE DEF S
  <2>1. \A i \in 0..(n - 1) : i \in S => i + 1 \in S
    BY <1>3
  <2>2. \A i \in 0..n : i \in S
    BY <1>2, <2>1, CountUp
  <2>3. n \in S
    BY <2>2
  <2> QED
    BY <2>3 DEF S
<1>5. PICK f : G(n, f) /\ Kept(ws, c) = f[n]
  <2>1. G(n, CHOOSE g : G(n, g))
    BY <1>4
  <2>2. Kept(ws, c) = (CHOOSE g : G(n, g))[n]
    BY <1>1 DEF Kept
  <2> QED
    BY <2>1, <2>2
<1>6. \A i \in 0..n : f[i] = E(f, i)
  BY <1>5
<1> DEFINE T == {i \in 0..n : f[i] \in Seq(X) /\ \A p \in DOMAIN f[i] : f[i][p] \in ToSet(ws) \ {c}}
<1>7. 0 \in T
  <2>1. 0 \in 0..n
    OBVIOUS
  <2>2. f[0] = E(f, 0)
    BY <1>6, <2>1
  <2>3. <<>> \in Seq(X) /\ DOMAIN <<>> = {}
    OBVIOUS
  <2> QED
    BY <2>1, <2>2, <2>3
<1>8. ASSUME NEW i \in 0..(n - 1), i \in T PROVE i + 1 \in T
  <2>1. i + 1 \in 0..n /\ i + 1 # 0 /\ (i + 1) - 1 = i /\ i + 1 \in 1..Len(ws)
    BY <1>1
  <2>2. f[i + 1] = IF ws[i + 1] = c THEN f[i] ELSE Append(f[i], ws[i + 1])
    BY <1>6, <2>1
  <2>3. PICK old \in Seq(X) : old = f[i] /\ \A p \in DOMAIN old : old[p] \in ToSet(ws) \ {c}
    BY <1>8
  <2>4. CASE ws[i + 1] = c
    BY <2>1, <2>2, <2>3, <2>4
  <2>5. CASE ws[i + 1] # c
    <3>1. PICK w \in X : w = ws[i + 1]
      BY <2>1
    <3>2. w \in ToSet(ws) \ {c}
      BY <2>1, <2>5, <3>1 DEF ToSet
    <3>3. Append(old, w) \in Seq(X) /\ \A p \in DOMAIN Append(old, w) : Append(old, w)[p] \in ToSet(ws) \ {c}
      BY <2>3, <3>2
    <3> QED
      BY <2>1, <2>2, <2>3, <2>5, <3>1, <3>3
  <2> QED
    BY <2>4, <2>5
<1>9. n \in T
  <2> HIDE DEF T
  <2>1. \A i \in 0..(n - 1) : i \in T => i + 1 \in T
    BY <1>8
  <2>2. \A i \in 0..n : i \in T
    BY <1>7, <2>1, CountUp
  <2> QED
    BY <2>2
<1>10. f[n] \in Seq(X) /\ \A p \in DOMAIN f[n] : f[n][p] \in ToSet(ws) \ {c}
  BY <1>9
<1> QED
  BY <1>5, <1>10 DEF ToSet

-----------------------------------------------------------------------------
(***************************************************************************)
(* How many of the first waiters of a key pop from the left.               *)
(***************************************************************************)
LEMMA LeftsCount ==
  ASSUME NEW k
  PROVE  /\ LeftsBefore(k, 1) = 0
         /\ \A j \in Nat \ {0} :
              /\ LeftsBefore(k, j) \in Nat /\ LeftsBefore(k, j) <= j - 1
              /\ LeftsBefore(k, j + 1) =
                   LeftsBefore(k, j) + IF call[listWaits[k][j]].left THEN 1 ELSE 0
<1> DEFINE P(i) == call[listWaits[k][i]].left
           Ls(j) == {i \in 1..(j - 1) : P(i)}
<1>1. \A j : LeftsBefore(k, j) = Cardinality(Ls(j))
  BY DEF LeftsBefore
<1> HIDE DEF P
<1>2. ASSUME NEW j \in Nat \ {0}
      PROVE  IsFiniteSet(Ls(j)) /\ Cardinality(Ls(j)) \in Nat /\ Cardinality(Ls(j)) <= j - 1
  <2>1. PICK m \in Nat : m = j - 1
    OBVIOUS
  <2>2. IsFiniteSet(1..m) /\ Cardinality(1..m) = m
    BY <2>1, FS_Interval
  <2>3. Ls(j) \subseteq 1..m
    BY <2>1
  <2>4. IsFiniteSet(Ls(j)) /\ Cardinality(Ls(j)) <= Cardinality(1..m)
    <3> HIDE DEF Ls
    <3> QED
      BY <2>2, <2>3, FS_Subset
  <2>5. Cardinality(Ls(j)) \in Nat
    BY <2>4, FS_CardinalityType
  <2> QED
    BY <2>1, <2>2, <2>4, <2>5
<1>3. ASSUME NEW j \in Nat \ {0}
      PROVE  Cardinality(Ls(j + 1)) = Cardinality(Ls(j)) + IF P(j) THEN 1 ELSE 0
  <2>1. CASE P(j)
    <3>1. Ls(j + 1) = Ls(j) \cup {j} /\ j \notin Ls(j)
      BY <2>1
    <3> HIDE DEF Ls
    <3>2. Cardinality(Ls(j) \cup {j}) = Cardinality(Ls(j)) + 1
      BY <1>2, <3>1, FS_AddElement
    <3> QED
      BY <2>1, <3>1, <3>2
  <2>2. CASE ~P(j)
    <3>1. Ls(j + 1) = Ls(j)
      BY <2>2
    <3>2. Cardinality(Ls(j)) \in Nat
      BY <1>2
    <3> HIDE DEF Ls
    <3> QED
      BY <2>2, <3>1, <3>2
  <2> QED
    BY <2>1, <2>2
<1>4. Ls(1) = {}
  OBVIOUS
<1>5. Cardinality(Ls(1)) = 0
  BY <1>4, FS_EmptySet
<1> QED
  BY <1>1, <1>2, <1>3, <1>5 DEF P

(***************************************************************************)
(* Where in the list the j-th waiter finds its element.                    *)
(***************************************************************************)
Position(k, d, j) ==
  IF call[listWaits[k][j]].left THEN LeftsBefore(k, j) + 1
  ELSE Len(d) - ((j - 1) - LeftsBefore(k, j))

(***************************************************************************)
(* The positions the first m waiters take are the first ones and the last  *)
(* ones, and no two waiters take the same.                                 *)
(***************************************************************************)
LEMMA Positions ==
  ASSUME NEW k, NEW d, Len(d) \in Nat, NEW n \in 0..Len(d)
  PROVE  LET l == LeftsBefore(k, n + 1) IN
         /\ l \in 0..n
         /\ \A p \in 1..Len(d) :
              (\E j \in 1..n : Position(k, d, j) = p) <=> p <= l \/ p > Len(d) - (n - l)
         /\ \A j \in 1..n : Position(k, d, j) \in 1..Len(d)
         /\ \A i, j \in 1..n : Position(k, d, i) = Position(k, d, j) => i = j
<1> DEFINE L(j) == LeftsBefore(k, j)
           Q(j) == Position(k, d, j)
           A(m) == /\ \A p \in 1..Len(d) :
                        (\E j \in 1..m : Q(j) = p) <=> p <= L(m + 1) \/ p > Len(d) - (m - L(m + 1))
                   /\ \A j \in 1..m : Q(j) \in 1..Len(d)
                   /\ \A i, j \in 1..m : Q(i) = Q(j) => i = j
           S == {m \in 0..n : A(m)}
<1>1. /\ L(1) = 0
      /\ \A j \in Nat \ {0} :
           /\ L(j) \in Nat /\ L(j) <= j - 1
           /\ L(j + 1) = L(j) + IF call[listWaits[k][j]].left THEN 1 ELSE 0
  BY LeftsCount
<1>2. PICK D \in Nat : D = Len(d) /\ n \in 0..D
  OBVIOUS
<1>3. \A j : Q(j) = IF call[listWaits[k][j]].left THEN L(j) + 1 ELSE D - ((j - 1) - L(j))
  BY <1>2 DEF Position
<1> HIDE DEF L, Q
<1>4. 0 \in S
  <2>1. 0 + 1 = 1 /\ 1..0 = {} /\ 0 \in 0..n
    BY <1>2
  <2>2. L(0 + 1) = 0
    BY <1>1, <2>1
  <2>3. \A p \in 1..D : ~(p <= 0 \/ p > D - (0 - 0))
    OBVIOUS
  <2>4. A(0)
    BY <1>2, <2>1, <2>2, <2>3
  <2> QED
    BY <2>1, <2>4
<1>5. ASSUME NEW m \in 0..(n - 1), m \in S PROVE m + 1 \in S
  <2>1. m \in Nat /\ m + 1 \in Nat \ {0} /\ m + 1 \in 0..n /\ m + 1 <= D
    BY <1>2
  <2>2. PICK a \in Nat : a = L(m + 1) /\ a <= m
    <3>1. L(m + 1) \in Nat /\ L(m + 1) <= (m + 1) - 1
      BY <1>1, <2>1
    <3> QED
      BY <2>1, <3>1
  <2>3. PICK q : q = Q(m + 1)
    OBVIOUS
  <2>4. PICK b : b = L((m + 1) + 1)
    OBVIOUS
  <2>5. \/ q = a + 1 /\ b = a + 1
        \/ q = D - (m - a) /\ b = a
    <3>1. b = a + IF call[listWaits[k][m + 1]].left THEN 1 ELSE 0
      BY <1>1, <2>1, <2>2, <2>4
    <3>2. q = IF call[listWaits[k][m + 1]].left THEN a + 1 ELSE D - (((m + 1) - 1) - a)
      BY <1>3, <2>2, <2>3
    <3>3. (m + 1) - 1 = m /\ a + 0 = a
      BY <2>1
    <3> QED
      BY <3>1, <3>2, <3>3
  <2>6. /\ \A p \in 1..D : (\E j \in 1..m : Q(j) = p) <=> p <= a \/ p > D - (m - a)
        /\ \A j \in 1..m : Q(j) \in 1..D
        /\ \A i, j \in 1..m : Q(i) = Q(j) => i = j
    BY <1>2, <1>5, <2>2
  <2>7. q \in 1..D /\ ~(q <= a \/ q > D - (m - a))
    BY <2>1, <2>2, <2>5
  <2>8. \A j \in 1..m : Q(j) # q
    BY <2>6, <2>7
  <2>9. \A p \in 1..D : (p = q \/ p <= a \/ p > D - (m - a)) <=> (p <= b \/ p > D - ((m + 1) - b))
    BY <2>1, <2>2, <2>5
  <2>10. \A j : j \in 1..(m + 1) <=> j \in 1..m \/ j = m + 1
    BY <2>1
  <2>11. \A p \in 1..D : (\E j \in 1..(m + 1) : Q(j) = p) <=> (p <= b \/ p > D - ((m + 1) - b))
    <3> SUFFICES ASSUME NEW p \in 1..D
                 PROVE  (\E j \in 1..(m + 1) : Q(j) = p) <=> (p = q \/ \E j \in 1..m : Q(j) = p)
      BY <2>6, <2>9
    <3> QED
      BY <2>3, <2>10
  <2>12. \A j \in 1..(m + 1) : Q(j) \in 1..D
    BY <2>3, <2>6, <2>7, <2>10
  <2>13. \A i, j \in 1..(m + 1) : Q(i) = Q(j) => i = j
    BY <2>3, <2>6, <2>8, <2>10
  <2> QED
    BY <1>2, <2>1, <2>4, <2>11, <2>12, <2>13
<1>6. A(n)
  <2> HIDE DEF S
  <2>1. \A i \in 0..(n - 1) : i \in S => i + 1 \in S
    BY <1>5
  <2>2. n \in Nat
    BY <1>2
  <2>3. \A i \in 0..n : i \in S
    BY <1>4, <2>1, <2>2, CountUp
  <2>4. n \in S
    BY <2>2, <2>3
  <2> QED
    BY <2>4 DEF S
<1>7. L(n + 1) \in 0..n
  <2>1. n + 1 \in Nat \ {0}
    BY <1>2
  <2>2. L(n + 1) \in Nat /\ L(n + 1) <= (n + 1) - 1
    BY <1>1, <2>1
  <2> QED
    BY <1>2, <2>2
<1> QED
  BY <1>6, <1>7 DEF L, Q

(***************************************************************************)
(* The hand-over: a list without repetition is split between the waiters   *)
(* that are served and what remains, and no two of them get the same.      *)
(***************************************************************************)
LEMMA HandOver ==
  ASSUME NEW k, listWaits[k] \in Seq(Consumers), NEW d \in Seq(Values),
         \A i, j \in DOMAIN d : d[i] = d[j] => i = j
  PROVE  LET N == Handed(k, d)
             R == Remaining(k, d)
             H == {Popped(k, d, j) : j \in 1..N}
         IN  /\ N \in 0..Len(d) /\ N \in 0..Len(listWaits[k])
             /\ R \in Seq(Values)
             /\ \A i, j \in DOMAIN R : R[i] = R[j] => i = j
             /\ \A i, j \in 1..N : Popped(k, d, i) = Popped(k, d, j) => i = j
             /\ H \cup ToSet(R) = ToSet(d) /\ H \cap ToSet(R) = {}
             /\ N = Len(d) => R = <<>>
             /\ N # Len(d) => N = Len(listWaits[k])
<1>1. PICK D \in Nat : D = Len(d) /\ DOMAIN d = 1..D
  OBVIOUS
<1>2. PICK W \in Nat : W = Len(listWaits[k])
  OBVIOUS
<1>3. PICK n : n = Handed(k, d)
  OBVIOUS
<1>4. n \in 0..D /\ n \in 0..W /\ (n # D => n = W)
  BY <1>1, <1>2, <1>3 DEF Handed
<1>5. PICK l : l = LeftsBefore(k, n + 1)
  OBVIOUS
<1> DEFINE Q(j) == Position(k, d, j)
<1>6. /\ l \in 0..n
      /\ \A p \in 1..D : (\E j \in 1..n : Q(j) = p) <=> p <= l \/ p > D - (n - l)
      /\ \A j \in 1..n : Q(j) \in 1..D
      /\ \A i, j \in 1..n : Q(i) = Q(j) => i = j
  <2>1. Len(d) \in Nat /\ n \in 0..Len(d)
    BY <1>1, <1>4
  <2>2. /\ LeftsBefore(k, n + 1) \in 0..n
        /\ \A p \in 1..Len(d) :
             (\E j \in 1..n : Position(k, d, j) = p)
               <=> p <= LeftsBefore(k, n + 1) \/ p > Len(d) - (n - LeftsBefore(k, n + 1))
        /\ \A j \in 1..n : Position(k, d, j) \in 1..Len(d)
        /\ \A i, j \in 1..n : Position(k, d, i) = Position(k, d, j) => i = j
    BY <2>1, Positions
  <2> QED
    BY <1>1, <1>5, <2>2
<1>7. \A j : Popped(k, d, j) = d[Q(j)]
  BY DEF Popped, Position
<1> HIDE DEF Q
<1>8. PICK R : R = Remaining(k, d)
  OBVIOUS
<1>9. R = SubSeq(d, l + 1, D - (n - l))
  BY <1>1, <1>3, <1>5, <1>8 DEF Remaining
<1>10. /\ R \in Seq(Values) /\ DOMAIN R = 1..(D - n)
       /\ \A i \in 1..(D - n) : R[i] = d[l + i]
  <2>1. l + 1 \in Nat /\ D - (n - l) \in Nat /\ l + 1 >= 1 /\ D - (n - l) <= D
        /\ (D - (n - l)) - (l + 1) + 1 = D - n /\ D - n \in Nat
    BY <1>4, <1>6
  <2>2. \A i \in 1..(D - n) : l + i \in 1..D /\ (l + 1) + (i - 1) = l + i /\ (l + 1) + i - 1 = l + i
    BY <1>4, <1>6
  <2>3. Len(R) = D - n
    BY <1>1, <1>9, <2>1
  <2>4. \A i \in 1..(D - n) : R[i] = d[l + i]
    BY <1>1, <1>9, <2>1, <2>2, <2>3
  <2>5. R \in Seq(Values)
    BY <1>1, <1>9, <2>1, <2>2
  <2> QED
    BY <2>3, <2>4, <2>5
<1>11. \A i, j \in DOMAIN R : R[i] = R[j] => i = j
  <2> SUFFICES ASSUME NEW i \in 1..(D - n), NEW j \in 1..(D - n), R[i] = R[j] PROVE i = j
    BY <1>10
  <2>1. l + i \in 1..D /\ l + j \in 1..D
    BY <1>4, <1>6
  <2>2. l + i = l + j
    BY <1>1, <1>10, <2>1
  <2> QED
    BY <1>6, <2>2
<1>12. \A i, j \in 1..n : Popped(k, d, i) = Popped(k, d, j) => i = j
  BY <1>1, <1>6, <1>7
<1> DEFINE H == {Popped(k, d, j) : j \in 1..n}
<1>13. \A v : v \in H <=> \E p \in 1..D : d[p] = v /\ (p <= l \/ p > D - (n - l))
  BY <1>6, <1>7
<1>14. \A v : v \in ToSet(R) <=> \E p \in 1..D : d[p] = v /\ ~(p <= l \/ p > D - (n - l))
  <2>1. ASSUME NEW i \in 1..(D - n)
        PROVE  l + i \in 1..D /\ ~(l + i <= l \/ l + i > D - (n - l))
    BY <1>4, <1>6
  <2>2. ASSUME NEW p \in 1..D, ~(p <= l \/ p > D - (n - l))
        PROVE  p - l \in 1..(D - n) /\ l + (p - l) = p
    BY <1>4, <1>6, <2>2
  <2>3. ASSUME NEW v, NEW i \in 1..(D - n), R[i] = v
        PROVE  \E p \in 1..D : d[p] = v /\ ~(p <= l \/ p > D - (n - l))
    BY <1>10, <2>1, <2>3
  <2>4. ASSUME NEW v, NEW p \in 1..D, d[p] = v, ~(p <= l \/ p > D - (n - l))
        PROVE  \E i \in 1..(D - n) : R[i] = v
    BY <1>10, <2>2, <2>4
  <2> QED
    BY <1>10, <2>3, <2>4 DEF ToSet
<1> HIDE DEF H
<1>15. H \cup ToSet(R) = ToSet(d)
  <2>1. \A v : v \in ToSet(d) <=> \E p \in 1..D : d[p] = v
    BY <1>1 DEF ToSet
  <2> QED
    BY <1>13, <1>14, <2>1
<1>16. H \cap ToSet(R) = {}
  BY <1>1, <1>13, <1>14
<1>17. n = D => R = <<>>
  BY <1>4, <1>10
<1> QED
  BY <1>1, <1>2, <1>3, <1>4, <1>8, <1>10, <1>11, <1>12, <1>15, <1>16, <1>17 DEF H

-----------------------------------------------------------------------------
(***************************************************************************)
(* A list without repetition.                                              *)
(***************************************************************************)
Single(d) == \A i, j \in DOMAIN d : d[i] = d[j] => i = j

(***************************************************************************)
(* Two lists that share nothing, one after the other.                      *)
(***************************************************************************)
LEMMA ConcatSingle ==
  ASSUME NEW X, NEW a \in Seq(X), NEW b \in Seq(X), Single(a), Single(b),
         ToSet(a) \cap ToSet(b) = {}
  PROVE  /\ a \o b \in Seq(X) /\ Single(a \o b)
         /\ ToSet(a \o b) = ToSet(a) \cup ToSet(b)
<1>1. PICK m \in Nat : m = Len(a) /\ DOMAIN a = 1..m
  OBVIOUS
<1>2. PICK n \in Nat : n = Len(b) /\ DOMAIN b = 1..n
  OBVIOUS
<1>3. PICK c : c = a \o b
  OBVIOUS
<1>4. c \in Seq(X) /\ DOMAIN c = 1..(m + n)
  BY <1>1, <1>2, <1>3
<1>5. \A i \in 1..m : c[i] = a[i]
  BY <1>1, <1>2, <1>3
<1>6. \A i \in 1..n : c[m + i] = b[i] /\ m + i \in 1..(m + n)
  BY <1>1, <1>2, <1>3
<1>7. \A i \in 1..(m + n) : i \in 1..m \/ (i - m \in 1..n /\ m + (i - m) = i)
  OBVIOUS
<1>8. \A i \in 1..(m + n) : i \notin 1..m => i - m \in 1..n /\ c[i] = b[i - m]
  BY <1>6, <1>7
<1>9. \A i \in 1..m, j \in 1..n : a[i] # b[j]
  BY <1>1, <1>2 DEF ToSet
<1>10. Single(c)
  <2> SUFFICES ASSUME NEW i \in 1..(m + n), NEW j \in 1..(m + n), c[i] = c[j] PROVE i = j
    BY <1>4 DEF Single
  <2>1. CASE i \in 1..m /\ j \in 1..m
    BY <1>1, <1>5, <2>1 DEF Single
  <2>2. CASE i \in 1..m /\ j \notin 1..m
    BY <1>5, <1>8, <1>9, <2>2
  <2>3. CASE i \notin 1..m /\ j \in 1..m
    BY <1>5, <1>8, <1>9, <2>3
  <2>4. CASE i \notin 1..m /\ j \notin 1..m
    <3>1. i - m \in 1..n /\ j - m \in 1..n /\ b[i - m] = b[j - m]
      BY <1>8, <2>4
    <3>2. i - m = j - m
      BY <1>2, <3>1 DEF Single
    <3> QED
      BY <3>2
  <2> QED
    BY <2>1, <2>2, <2>3, <2>4
<1>11. ToSet(c) = ToSet(a) \cup ToSet(b)
  <2>1. \A i \in 1..m : i \in 1..(m + n)
    OBVIOUS
  <2>2. \A v : v \in ToSet(c) <=> \E i \in 1..(m + n) : c[i] = v
    BY <1>4 DEF ToSet
  <2>3. \A v : v \in ToSet(a) <=> \E i \in 1..m : a[i] = v
    BY <1>1 DEF ToSet
  <2>4. \A v : v \in ToSet(b) <=> \E i \in 1..n : b[i] = v
    BY <1>2 DEF ToSet
  <2>5. ASSUME NEW v \in ToSet(c) PROVE v \in ToSet(a) \cup ToSet(b)
    <3>1. PICK i \in 1..(m + n) : c[i] = v
      BY <2>2
    <3> QED
      BY <1>5, <1>8, <2>3, <2>4, <3>1
  <2>6. ASSUME NEW v \in ToSet(a) PROVE v \in ToSet(c)
    BY <1>5, <2>1, <2>2, <2>3
  <2>7. ASSUME NEW v \in ToSet(b) PROVE v \in ToSet(c)
    BY <1>6, <2>2, <2>4
  <2> QED
    BY <2>5, <2>6, <2>7
<1> QED
  BY <1>3, <1>4, <1>10, <1>11

(***************************************************************************)
(* A list of one element.                                                  *)
(***************************************************************************)
LEMMA OneElement ==
  ASSUME NEW X, NEW v \in X
  PROVE  <<v>> \in Seq(X) /\ Single(<<v>>) /\ ToSet(<<v>>) = {v}
<1>1. <<v>> \in Seq(X) /\ DOMAIN <<v>> = {1} /\ <<v>>[1] = v
  OBVIOUS
<1> QED
  BY <1>1 DEF Single, ToSet

(***************************************************************************)
(* Popping takes one element off a list without repetition.                *)
(***************************************************************************)
LEMMA EndTaken ==
  ASSUME NEW X, NEW d \in Seq(X), d # <<>>, Single(d), NEW left \in BOOLEAN
  PROVE  /\ End(d, left) \in ToSet(d) /\ End(d, left) \in X
         /\ WithoutEnd(d, left) \in Seq(X) /\ Single(WithoutEnd(d, left))
         /\ ToSet(WithoutEnd(d, left)) = ToSet(d) \ {End(d, left)}
<1>1. PICK n \in Nat : n = Len(d) /\ DOMAIN d = 1..n /\ n > 0 /\ \A i \in 1..n : d[i] \in X
  OBVIOUS
<1>2. \A i, j \in 1..n : d[i] = d[j] => i = j
  BY <1>1 DEF Single
<1>3. \A v : v \in ToSet(d) <=> \E i \in 1..n : d[i] = v
  BY <1>1 DEF ToSet
<1>4. CASE left = TRUE
  <2>1. PICK r : r = Tail(d)
    OBVIOUS
  <2>2. r \in Seq(X) /\ DOMAIN r = 1..(n - 1) /\ \A i \in 1..(n - 1) : r[i] = d[i + 1] /\ i + 1 \in 1..n
    BY <1>1, <2>1
  <2>3. End(d, left) = d[1] /\ WithoutEnd(d, left) = r /\ 1 \in 1..n
    BY <1>1, <1>4, <2>1 DEF End, WithoutEnd
  <2>4. Single(r)
    <3> SUFFICES ASSUME NEW i \in 1..(n - 1), NEW j \in 1..(n - 1), r[i] = r[j] PROVE i = j
      BY <2>2 DEF Single
    <3>1. i + 1 = j + 1
      BY <1>2, <2>2
    <3> QED
      BY <3>1
  <2>5. ToSet(r) = ToSet(d) \ {d[1]}
    <3>1. ASSUME NEW i \in 1..(n - 1) PROVE r[i] \in ToSet(d) /\ r[i] # d[1]
      <4>1. PICK m \in 1..n : m = i + 1 /\ m # 1 /\ r[i] = d[m]
        BY <2>2
      <4> QED
        BY <1>2, <1>3, <2>3, <4>1
    <3>2. ASSUME NEW i \in 1..n, d[i] # d[1] PROVE \E j \in 1..(n - 1) : r[j] = d[i]
      <4>1. i - 1 \in 1..(n - 1) /\ (i - 1) + 1 = i
        BY <3>2
      <4> QED
        BY <2>2, <4>1
    <3>3. \A v : v \in ToSet(r) <=> \E i \in 1..(n - 1) : r[i] = v
      BY <2>2 DEF ToSet
    <3> QED
      BY <1>3, <3>1, <3>2, <3>3
  <2> QED
    BY <1>1, <1>3, <2>2, <2>3, <2>4, <2>5
<1>5. CASE left = FALSE
  <2>1. PICK r : r = Front(d)
    OBVIOUS
  <2>2. r \in Seq(X) /\ DOMAIN r = 1..(n - 1) /\ \A i \in 1..(n - 1) : r[i] = d[i] /\ i \in 1..n
    <3>1. n - 1 \in Nat /\ n - 1 <= n /\ \A i \in 1..(n - 1) : d[i] \in X
      BY <1>1
    <3>2. r = SubSeq(d, 1, n - 1)
      BY <1>1, <2>1 DEF Front
    <3>3. r \in Seq(X) /\ Len(r) = n - 1
      BY <1>1, <3>1, <3>2
    <3> QED
      BY <1>1, <3>1, <3>2, <3>3
  <2>3. End(d, left) = d[n] /\ WithoutEnd(d, left) = r /\ n \in 1..n
    BY <1>1, <1>5, <2>1 DEF End, WithoutEnd, Last
  <2>4. Single(r)
    BY <1>2, <2>2 DEF Single
  <2>5. ToSet(r) = ToSet(d) \ {d[n]}
    <3>1. ASSUME NEW i \in 1..(n - 1) PROVE r[i] \in ToSet(d) /\ r[i] # d[n]
      <4>1. i # n
        OBVIOUS
      <4> QED
        BY <1>2, <1>3, <2>2, <2>3, <4>1
    <3>2. ASSUME NEW i \in 1..n, d[i] # d[n] PROVE \E j \in 1..(n - 1) : r[j] = d[i]
      <4>1. i \in 1..(n - 1)
        BY <3>2
      <4> QED
        BY <2>2, <4>1
    <3>3. \A v : v \in ToSet(r) <=> \E i \in 1..(n - 1) : r[i] = v
      BY <2>2 DEF ToSet
    <3> QED
      BY <1>3, <3>1, <3>2, <3>3
  <2> QED
    BY <1>1, <1>3, <2>2, <2>3, <2>4, <2>5
<1> QED
  BY <1>4, <1>5

(***************************************************************************)
(* The values of one push are new, in either order.                        *)
(***************************************************************************)
LEMMA NewValues ==
  ASSUME NEW v \in Nat, NEW n \in Nat, v + n <= MaxVals, MaxVals \in Nat
  PROVE  LET new == [i \in 1..n |-> v + i] IN
         /\ new \in Seq(Values) /\ Single(new) /\ ToSet(new) = (v + 1)..(v + n)
         /\ Reverse(new) \in Seq(Values) /\ Single(Reverse(new))
         /\ ToSet(Reverse(new)) = (v + 1)..(v + n)
<1>1. PICK new : new = [i \in 1..n |-> v + i]
  OBVIOUS
<1>2. \A i \in 1..n : v + i \in 1..MaxVals /\ v + i \in (v + 1)..(v + n)
  OBVIOUS
<1>3. new \in Seq(Values) /\ Len(new) = n
  BY <1>1, <1>2 DEF Values
<1>4. \A w \in (v + 1)..(v + n) : w - v \in 1..n /\ v + (w - v) = w
  OBVIOUS
<1>5. Single(new)
  BY <1>1 DEF Single
<1>6. ToSet(new) = (v + 1)..(v + n)
  BY <1>1, <1>2, <1>4 DEF ToSet
<1>7. PICK r : r = Reverse(new)
  OBVIOUS
<1>8. \A i \in 1..n : (n - i) + 1 \in 1..n
  OBVIOUS
<1>9. r = [i \in 1..n |-> v + ((n - i) + 1)]
  BY <1>1, <1>3, <1>7, <1>8 DEF Reverse
<1>10. \A i \in 1..n : v + ((n - i) + 1) \in 1..MaxVals /\ v + ((n - i) + 1) \in (v + 1)..(v + n)
  OBVIOUS
<1>11. r \in Seq(Values)
  BY <1>9, <1>10 DEF Values
<1>12. Single(r)
  BY <1>9 DEF Single
<1>13. \A w \in (v + 1)..(v + n) : (n - (w - v)) + 1 \in 1..n /\ v + ((n - ((n - (w - v)) + 1)) + 1) = w
  OBVIOUS
<1>14. ToSet(r) = (v + 1)..(v + n)
  BY <1>9, <1>10, <1>13 DEF ToSet
<1> QED
  BY <1>1, <1>3, <1>5, <1>6, <1>7, <1>11, <1>12, <1>14

(***************************************************************************)
(* One list changes, and takes nothing from the others.                    *)
(***************************************************************************)
LEMMA OneListChanges ==
  ASSUME NEW q \in [Keys -> Seq(Values)], Apart(q), NEW k \in Keys,
         NEW d \in Seq(Values), Single(d), \A l \in Keys \ {k} : ToSet(d) \cap ToSet(q[l]) = {}
  PROVE  /\ [q EXCEPT ![k] = d] \in [Keys -> Seq(Values)]
         /\ Apart([q EXCEPT ![k] = d])
         /\ AllOf([q EXCEPT ![k] = d]) = (AllOf(q) \ ToSet(q[k])) \cup ToSet(d)
<1>1. PICK r : r = [q EXCEPT ![k] = d]
  OBVIOUS
<1>2. r \in [Keys -> Seq(Values)] /\ r[k] = d /\ \A l \in Keys \ {k} : r[l] = q[l]
  BY <1>1
<1>3. \A l \in Keys : \A v : v \in ToSet(q[l]) <=> \E i \in DOMAIN q[l] : q[l][i] = v
  BY DEF ToSet
<1>4. \A v : v \in ToSet(d) <=> \E i \in DOMAIN d : d[i] = v
  BY DEF ToSet
<1>5. Apart(r)
  <2> SUFFICES ASSUME NEW l \in Keys, NEW m \in Keys, NEW i \in DOMAIN r[l], NEW j \in DOMAIN r[m],
                      r[l][i] = r[m][j]
               PROVE  l = m /\ i = j
    BY DEF Apart
  <2>1. CASE l = k /\ m = k
    BY <1>2, <2>1 DEF Single
  <2>2. CASE l = k /\ m # k
    BY <1>2, <1>3, <1>4, <2>2
  <2>3. CASE l # k /\ m = k
    BY <1>2, <1>3, <1>4, <2>3
  <2>4. CASE l # k /\ m # k
    BY <1>2, <2>4 DEF Apart
  <2> QED
    BY <2>1, <2>2, <2>3, <2>4
<1>6. \A l, m \in Keys : l # m => ToSet(q[l]) \cap ToSet(q[m]) = {}
  BY <1>3 DEF Apart
<1>7. AllOf(r) = (AllOf(q) \ ToSet(q[k])) \cup ToSet(d)
  <2>1. ASSUME NEW v PROVE v \in AllOf(r) <=> \E l \in Keys : v \in ToSet(r[l])
    BY DEF AllOf
  <2>2. ASSUME NEW v PROVE v \in AllOf(q) <=> \E l \in Keys : v \in ToSet(q[l])
    BY DEF AllOf
  <2>3. ASSUME NEW v PROVE v \in AllOf(r) <=> v \in ToSet(d) \/ \E l \in Keys \ {k} : v \in ToSet(q[l])
    BY <1>2, <2>1
  <2>4. ASSUME NEW v
        PROVE  (\E l \in Keys \ {k} : v \in ToSet(q[l])) <=> v \in AllOf(q) /\ v \notin ToSet(q[k])
    BY <1>6, <2>2
  <2> QED
    BY <2>3, <2>4
<1> QED
  BY <1>1, <1>2, <1>5, <1>7

-----------------------------------------------------------------------------
(***************************************************************************)
(* What wakeListWaitersLocked does with a list d: its elements remain, or  *)
(* are on their way to a sleeping call (flying), or are lost (gone); the   *)
(* waiters are in order afterwards, and none is left if elements are.      *)
(***************************************************************************)
Shared(d, rest, flying, gone) ==
  /\ rest \in Seq(Values) /\ Single(rest)
  /\ ToSet(rest) \cup flying \cup gone = ToSet(d)
  /\ ToSet(rest) \cap (flying \cup gone) = {} /\ flying \cap gone = {}

(***************************************************************************)
(* The waiters, their calls and their channels have their types.           *)
(***************************************************************************)
WaitTypes ==
  /\ listWaits \in [Keys -> Seq(Consumers)]
  /\ pc \in [Consumers -> {"idle", "select", "leave"}]
  /\ call \in [Consumers -> Calls]
  /\ served \in [Consumers -> BOOLEAN]
  /\ chan \in [Consumers -> Seq(Values)] /\ \A c \in Consumers : Len(chan[c]) <= 1

(***************************************************************************)
(* What becomes of the channels: a waiter whose once fires gets its        *)
(* element, the others keep what they have.                                *)
(***************************************************************************)
Delivered(k, d) ==
  /\ \A c \in Consumers : (\A j \in 1..Handed(k, d) : Fires(k, j) => listWaits[k][j] # c) =>
       chan'[c] = chan[c] /\ served'[c] = served[c]
  /\ \A j \in 1..Handed(k, d) : Fires(k, j) =>
       /\ chan'[listWaits[k][j]] = <<Popped(k, d, j)>> /\ served'[listWaits[k][j]] = TRUE
       /\ chan[listWaits[k][j]] = <<>>

(***************************************************************************)
(* That is what wakeListWaitersLocked does with them.                      *)
(***************************************************************************)
LEMMA ChannelsAfter ==
  ASSUME IndInv, NEW k \in Keys, NEW d \in Seq(Values), Single(d), wakeListWaitersLocked(k, d)
  PROVE  Delivered(k, d)
<1>0. PICK N : N = Handed(k, d)
  OBVIOUS
<1>1. /\ listWaits \in [Keys -> Seq(Consumers)] /\ listWaits[k] \in Seq(Consumers)
      /\ served \in [Consumers -> BOOLEAN]
      /\ \A c \in Consumers : ~served[c] => chan[c] = <<>>
  BY DEF IndInv, TypeOK, UnservedEmpty
<1>2. N \in 0..Len(listWaits[k])
  <2>1. \A i, j \in DOMAIN d : d[i] = d[j] => i = j
    BY DEF Single
  <2>2. Handed(k, d) \in 0..Len(listWaits[k])
    BY <1>1, <2>1, HandOver
  <2> QED
    BY <1>0, <2>2
<1>3. PICK ws \in Seq(Consumers) : ws = listWaits[k]
  BY <1>1
<1>4. \A j \in 1..N : ws[j] \in Consumers
  BY <1>2, <1>3
<1> DEFINE slot(c) == {j \in {i \in 1..N : Fires(k, i)} : ws[j] = c}
<1>5. /\ served' = [c \in Consumers |-> served[c] \/ slot(c) # {}]
      /\ chan' = [c \in Consumers |->
                    IF slot(c) = {} THEN chan[c]
                    ELSE <<Popped(k, d, CHOOSE j \in slot(c) : TRUE)>>]
  BY <1>0, <1>3 DEF wakeListWaitersLocked
<1>6. ASSUME NEW c \in Consumers, \A j \in 1..N : Fires(k, j) => ws[j] # c
      PROVE  chan'[c] = chan[c] /\ served'[c] = served[c]
  <2>1. slot(c) = {}
    BY <1>6
  <2> HIDE DEF slot
  <2>2. chan'[c] = chan[c]
    BY <1>5, <2>1
  <2>3. served'[c] = (served[c] \/ FALSE)
    BY <1>5, <2>1
  <2>4. served[c] \in BOOLEAN
    BY <1>1
  <2> QED
    BY <2>2, <2>3, <2>4
<1>7. ASSUME NEW j \in 1..N, Fires(k, j)
      PROVE  chan'[ws[j]] = <<Popped(k, d, j)>> /\ served'[ws[j]] = TRUE /\ chan[ws[j]] = <<>>
  <2>1. PICK c \in Consumers : c = ws[j]
    BY <1>4
  <2>2. j \in slot(c) /\ slot(c) # {}
    BY <1>7, <2>1
  <2>3. \A i \in slot(c) : i = j
    <3> SUFFICES ASSUME NEW i \in 1..N, Fires(k, i), ws[i] = c PROVE i = j
      OBVIOUS
    <3>1. i \in Nat /\ j \in Nat
      BY <1>2
    <3>2. ~(i < j) /\ ~(j < i)
      <4>1. i < j => i \in 1..(j - 1)
        BY <3>1
      <4>2. j < i => j \in 1..(i - 1)
        BY <3>1
      <4>3. \A m \in 1..(j - 1) : ws[m] # ws[j]
        BY <1>3, <1>7 DEF Fires
      <4>4. \A m \in 1..(i - 1) : ws[m] # ws[i]
        BY <1>3 DEF Fires
      <4> QED
        BY <2>1, <4>1, <4>2, <4>3, <4>4
    <3> QED
      BY <3>1, <3>2
  <2> HIDE DEF slot
  <2>4. (CHOOSE i \in slot(c) : TRUE) = j
    BY <2>2, <2>3
  <2>5. chan'[c] = <<Popped(k, d, CHOOSE i \in slot(c) : TRUE)>>
    BY <1>5, <2>2
  <2>6. served'[c] = (served[c] \/ TRUE)
    BY <1>5, <2>2
  <2>7. chan[c] = <<>>
    <3>1. ~served[ws[j]]
      BY <1>3, <1>7 DEF Fires
    <3> QED
      BY <1>1, <2>1, <3>1
  <2> QED
    BY <2>1, <2>4, <2>5, <2>6, <2>7
<1> QED
  BY <1>0, <1>3, <1>6, <1>7 DEF Delivered

(***************************************************************************)
(* A push hands out, keeps or loses each element once, and leaves waiters  *)
(* and channels in order.                                                  *)
(***************************************************************************)
LEMMA Wakes ==
  ASSUME IndInv, NEW k \in Keys, NEW d \in Seq(Values), Single(d),
         ToSet(d) \cap InFlight = {}, wakeListWaitersLocked(k, d)
  PROVE  /\ WaitTypes' /\ NoStaleWaiter' /\ UnservedEmpty' /\ ChansApart'
         /\ \E flying, gone : /\ Shared(d, Remaining(k, d), flying, gone)
                              /\ InFlight' = InFlight \cup flying
                              /\ lost' = lost \cup gone
         /\ Remaining(k, d) # <<>> => listWaits'[k] = <<>>
<1>1. /\ listWaits \in [Keys -> Seq(Consumers)]
      /\ pc \in [Consumers -> {"idle", "select", "leave"}]
      /\ call \in [Consumers -> Calls]
      /\ served \in [Consumers -> BOOLEAN]
      /\ chan \in [Consumers -> Seq(Values)] /\ \A c \in Consumers : Len(chan[c]) <= 1
      /\ \A c \in Consumers : ~served[c] => chan[c] = <<>>
      /\ ChansApart
  BY DEF IndInv, TypeOK, UnservedEmpty
<1>2. PICK ws \in Seq(Consumers) : ws = listWaits[k]
  BY <1>1
<1>3. PICK N : N = Handed(k, d)
  OBVIOUS
<1>4. PICK R : R = Remaining(k, d)
  OBVIOUS
<1> DEFINE Po(j) == Popped(k, d, j)
           Fi(j) == Fires(k, j)
           H == {Po(j) : j \in 1..N}
<1>5. /\ N \in 0..Len(d) /\ N \in 0..Len(ws)
      /\ R \in Seq(Values) /\ Single(R)
      /\ \A i, j \in 1..N : Po(i) = Po(j) => i = j
      /\ H \cup ToSet(R) = ToSet(d) /\ H \cap ToSet(R) = {}
      /\ N = Len(d) => R = <<>>
      /\ N # Len(d) => N = Len(ws)
  <2>1. \A i, j \in DOMAIN d : d[i] = d[j] => i = j
    BY DEF Single
  <2>2. listWaits[k] \in Seq(Consumers)
    BY <1>1
  <2>3. LET M == Handed(k, d)
            Q == Remaining(k, d)
            G == {Popped(k, d, j) : j \in 1..M}
        IN  /\ M \in 0..Len(d) /\ M \in 0..Len(listWaits[k])
            /\ Q \in Seq(Values)
            /\ \A i, j \in DOMAIN Q : Q[i] = Q[j] => i = j
            /\ \A i, j \in 1..M : Popped(k, d, i) = Popped(k, d, j) => i = j
            /\ G \cup ToSet(Q) = ToSet(d) /\ G \cap ToSet(Q) = {}
            /\ M = Len(d) => Q = <<>>
            /\ M # Len(d) => M = Len(listWaits[k])
    BY <2>1, <2>2, HandOver
  <2> QED
    BY <1>2, <1>3, <1>4, <2>3 DEF Single
<1>6. /\ \A c \in Consumers : (\A j \in 1..N : Fi(j) => ws[j] # c) =>
           chan'[c] = chan[c] /\ served'[c] = served[c]
      /\ \A j \in 1..N : Fi(j) =>
           chan'[ws[j]] = <<Po(j)>> /\ served'[ws[j]] = TRUE /\ chan[ws[j]] = <<>>
  <2>1. Delivered(k, d)
    BY ChannelsAfter
  <2> QED
    BY <1>2, <1>3, <2>1 DEF Delivered
<1>7. /\ pc' = pc /\ call' = call
      /\ listWaits' = [listWaits EXCEPT ![k] = SubSeq(ws, N + 1, Len(ws))]
      /\ lost' = lost \cup Vanishing(k, d)
      /\ DOMAIN chan' = Consumers /\ DOMAIN served' = Consumers
      /\ chan' = [c \in Consumers |-> chan'[c]] /\ served' = [c \in Consumers |-> served'[c]]
  BY <1>1, <1>2, <1>3 DEF wakeListWaitersLocked
<1>8. \A j \in 1..N : ws[j] \in Consumers /\ pc[ws[j]] \in {"select", "leave"}
  <2> SUFFICES ASSUME NEW j \in 1..N PROVE ws[j] \in Consumers /\ pc[ws[j]] \in {"select", "leave"}
    OBVIOUS
  <2>1. j \in DOMAIN ws /\ ws[j] \in Consumers
    BY <1>5
  <2>2. ws[j] \in ToSet(listWaits[k])
    BY <1>2, <2>1 DEF ToSet
  <2>3. pc[ws[j]] # "idle"
    BY <2>2 DEF IndInv, NoStaleWaiter
  <2> QED
    BY <1>1, <2>1, <2>3
<1>9. \A j \in 1..N : Po(j) \in Values /\ Po(j) \in ToSet(d)
  <2>1. ToSet(d) \subseteq Values
    BY DEF ToSet
  <2> QED
    BY <1>5, <2>1
<1> HIDE DEF Po, Fi
<1>10. ASSUME NEW c \in Consumers
       PROVE  \/ chan'[c] = chan[c] /\ served'[c] = served[c]
              \/ \E j \in 1..N : /\ Fi(j) /\ ws[j] = c /\ chan'[c] = <<Po(j)>> /\ served'[c] = TRUE
                                 /\ chan[c] = <<>>
  <2>1. CASE \A j \in 1..N : Fi(j) => ws[j] # c
    BY <1>6, <2>1
  <2>2. ASSUME NEW j \in 1..N, Fi(j), ws[j] = c
        PROVE  chan'[c] = <<Po(j)>> /\ served'[c] = TRUE /\ chan[c] = <<>>
    <3>1. chan'[ws[j]] = <<Po(j)>> /\ served'[ws[j]] = TRUE /\ chan[ws[j]] = <<>>
      BY <1>6, <2>2
    <3> QED
      BY <2>2, <3>1
  <2> QED
    BY <2>1, <2>2
<1>11. WaitTypes'
  <2>1. \A c \in Consumers : chan'[c] \in Seq(Values) /\ Len(chan'[c]) <= 1 /\ served'[c] \in BOOLEAN
    <3> SUFFICES ASSUME NEW c \in Consumers
                 PROVE  chan'[c] \in Seq(Values) /\ Len(chan'[c]) <= 1 /\ served'[c] \in BOOLEAN
      OBVIOUS
    <3>1. CASE chan'[c] = chan[c] /\ served'[c] = served[c]
      BY <1>1, <3>1
    <3>2. CASE \E j \in 1..N : chan'[c] = <<Po(j)>> /\ served'[c] = TRUE
      <4>1. PICK j \in 1..N : chan'[c] = <<Po(j)>> /\ served'[c] = TRUE
        BY <3>2
      <4>2. PICK v \in Values : v = Po(j)
        BY <1>9
      <4>3. <<v>> \in Seq(Values) /\ Len(<<v>>) = 1
        OBVIOUS
      <4>4. chan'[c] = <<v>> /\ served'[c] \in BOOLEAN
        BY <4>1, <4>2
      <4> QED
        BY <4>3, <4>4
    <3> QED
      BY <1>10, <3>1, <3>2
  <2>2. chan' \in [Consumers -> Seq(Values)] /\ served' \in [Consumers -> BOOLEAN]
    BY <1>7, <2>1
  <2>3. listWaits' \in [Keys -> Seq(Consumers)]
    <3>1. SubSeq(ws, N + 1, Len(ws)) \in Seq(Consumers)
      <4>1. N + 1 \in Nat /\ N + 1 >= 1 /\ Len(ws) \in Nat /\ \A i \in (N + 1)..Len(ws) : ws[i] \in Consumers
        BY <1>5
      <4> QED
        BY <4>1
    <3> QED
      BY <1>1, <1>7, <3>1
  <2> QED
    BY <1>1, <1>7, <2>1, <2>2, <2>3 DEF WaitTypes
<1>12. NoStaleWaiter'
  <2>1. ToSet(listWaits'[k]) \subseteq ToSet(listWaits[k])
    <3>1. PICK r : r = SubSeq(ws, N + 1, Len(ws))
      OBVIOUS
    <3>2. \A i \in DOMAIN r : (N + 1) + (i - 1) \in DOMAIN ws /\ r[i] = ws[(N + 1) + (i - 1)]
      <4>1. N \in Nat /\ Len(ws) \in Nat /\ N <= Len(ws) /\ DOMAIN ws = 1..Len(ws)
        BY <1>5
      <4>2. DOMAIN r = 1..(Len(ws) - N)
        BY <3>1, <4>1
      <4>3. \A i \in 1..(Len(ws) - N) : (N + 1) + (i - 1) \in 1..Len(ws)
        BY <4>1
      <4> QED
        BY <3>1, <4>1, <4>2, <4>3
    <3>3. listWaits'[k] = r
      BY <1>1, <1>7, <3>1
    <3> QED
      BY <1>2, <3>2, <3>3 DEF ToSet
  <2>2. \A l \in Keys \ {k} : listWaits'[l] = listWaits[l]
    BY <1>1, <1>7
  <2>3. \A l \in Keys : ToSet(listWaits'[l]) \subseteq ToSet(listWaits[l])
    BY <2>1, <2>2
  <2> QED
    BY <1>7, <2>3 DEF IndInv, NoStaleWaiter
<1>13. UnservedEmpty'
  BY <1>1, <1>10 DEF UnservedEmpty
<1>14. ASSUME NEW c \in Consumers, pc[c] = "select", chan[c] # <<>>
       PROVE  \A j \in 1..N : chan[c] # <<Po(j)>>
  <2> SUFFICES ASSUME NEW j \in 1..N, chan[c] = <<Po(j)>> PROVE FALSE
    OBVIOUS
  <2>1. Po(j) \in ToSet(chan[c])
    <3>1. ToSet(<<Po(j)>>) = {Po(j)}
      BY <1>9, OneElement
    <3> QED
      BY <3>1
  <2>2. Po(j) \in InFlight
    BY <1>14, <2>1 DEF InFlight
  <2> QED
    BY <1>9, <2>2
<1>15. ChansApart'
  <2> SUFFICES ASSUME NEW c \in Consumers, NEW e \in Consumers, pc[c] = "select", pc[e] = "select",
                      chan'[c] # <<>>, chan'[c] = chan'[e]
               PROVE  c = e
    BY <1>7 DEF ChansApart
  <2>1. CASE chan'[c] = chan[c] /\ chan'[e] = chan[e]
    BY <1>1, <2>1 DEF ChansApart
  <2>2. ASSUME NEW i \in 1..N, ws[i] = c, chan'[c] = <<Po(i)>> PROVE c = e
    <3>1. CASE chan'[e] = chan[e]
      BY <1>14, <2>2, <3>1
    <3>2. ASSUME NEW j \in 1..N, ws[j] = e, chan'[e] = <<Po(j)>> PROVE c = e
      <4>1. Po(i) = Po(j)
        <5>1. <<Po(i)>>[1] = Po(i) /\ <<Po(j)>>[1] = Po(j)
          OBVIOUS
        <5> QED
          BY <2>2, <3>2, <5>1
      <4> QED
        BY <1>5, <2>2, <3>2, <4>1 DEF Po
    <3> QED
      BY <1>10, <3>1, <3>2
  <2>3. ASSUME NEW j \in 1..N, ws[j] = e, chan'[e] = <<Po(j)>>, chan'[c] = chan[c] PROVE c = e
    BY <1>14, <2>3
  <2> QED
    BY <1>10, <2>1, <2>2, <2>3
<1> DEFINE F == {Po(j) : j \in {i \in 1..N : Fi(i) /\ pc[ws[i]] = "select"}}
           V == {Po(j) : j \in {i \in 1..N : ~Fi(i) \/ pc[ws[i]] = "leave"}}
<1>16. lost' = lost \cup V
  <2>1. Vanishing(k, d) = V
    BY <1>2, <1>3 DEF Vanishing, Po, Fi
  <2> QED
    BY <1>7, <2>1
<1>17. F \cup V = H /\ F \cap V = {}
  <2>1. F \cup V = H
    BY <1>8
  <2>2. F \cap V = {}
    <3> SUFFICES ASSUME NEW i \in 1..N, NEW j \in 1..N, Fi(i), pc[ws[i]] = "select",
                        ~Fi(j) \/ pc[ws[j]] = "leave", Po(i) = Po(j)
                 PROVE  FALSE
      OBVIOUS
    <3>1. i = j
      BY <1>5 DEF Po
    <3> QED
      BY <3>1
  <2> QED
    BY <2>1, <2>2
<1>18. InFlight' = InFlight \cup F
  <2>1. \A v : v \in InFlight' <=> \E c \in Consumers : pc[c] = "select" /\ v \in ToSet(chan'[c])
    BY <1>7 DEF InFlight
  <2>2. \A v : v \in InFlight <=> \E c \in Consumers : pc[c] = "select" /\ v \in ToSet(chan[c])
    BY DEF InFlight
  <2>3. \A j \in 1..N : ToSet(<<Po(j)>>) = {Po(j)}
    BY <1>9, OneElement
  <2>4. ToSet(<<>>) = {}
    BY DEF ToSet
  <2>5. ASSUME NEW v, v \in InFlight' PROVE v \in InFlight \cup F
    <3>1. PICK c \in Consumers : pc[c] = "select" /\ v \in ToSet(chan'[c])
      BY <2>1, <2>5
    <3>2. CASE chan'[c] = chan[c]
      BY <2>2, <3>1, <3>2
    <3>3. ASSUME NEW j \in 1..N, Fi(j), ws[j] = c, chan'[c] = <<Po(j)>> PROVE v \in F
      BY <2>3, <3>1, <3>3
    <3> QED
      BY <1>10, <3>2, <3>3
  <2>6. ASSUME NEW v, v \in InFlight PROVE v \in InFlight'
    <3>1. PICK c \in Consumers : pc[c] = "select" /\ v \in ToSet(chan[c])
      BY <2>2, <2>6
    <3>2. chan[c] # <<>>
      BY <2>4, <3>1
    <3>3. chan'[c] = chan[c]
      BY <1>10, <3>2
    <3> QED
      BY <2>1, <3>1, <3>3
  <2>7. ASSUME NEW j \in 1..N, Fi(j), pc[ws[j]] = "select" PROVE Po(j) \in InFlight'
    <3>1. chan'[ws[j]] = <<Po(j)>> /\ ws[j] \in Consumers
      BY <1>6, <1>8, <2>7
    <3> QED
      BY <2>1, <2>3, <2>7, <3>1
  <2> QED
    BY <2>5, <2>6, <2>7
<1> HIDE DEF F, V
<1>19. Shared(d, R, F, V)
  BY <1>5, <1>17 DEF Shared
<1>20. R # <<>> => listWaits'[k] = <<>>
  <2> SUFFICES ASSUME R # <<>> PROVE listWaits'[k] = <<>>
    OBVIOUS
  <2>1. N = Len(ws) /\ Len(ws) \in Nat
    BY <1>5
  <2>2. SubSeq(ws, N + 1, Len(ws)) = <<>>
    BY <2>1
  <2> QED
    BY <1>1, <1>7, <2>2
<1> QED
  BY <1>4, <1>11, <1>12, <1>13, <1>15, <1>16, <1>18, <1>19, <1>20

-----------------------------------------------------------------------------
(***************************************************************************)
(* Elements that are pushed or moved: of those of one list (old) and the   *)
(* new ones some remain (rest), some are on their way, some are lost.      *)
(***************************************************************************)
LEMMA PushAccounted ==
  ASSUME NEW inLists, NEW inFlight, NEW ret, NEW gone, NEW del, NEW n \in Nat, NEW m \in Nat,
         Accounted(inLists, inFlight, ret, gone, del, n),
         NEW old, old \subseteq inLists, NEW rest, NEW flying, NEW more,
         rest \cup flying \cup more = old \cup ((n + 1)..(n + m)),
         rest \cap (flying \cup more) = {}, flying \cap more = {}
  PROVE  Accounted((inLists \ old) \cup rest, inFlight \cup flying, ret, gone \cup more, del, n + m)
<1>1. PICK new : new = (n + 1)..(n + m)
  OBVIOUS
<1>2. PICK was : was = 1..n
  OBVIOUS
<1>3. 1..(n + m) = was \cup new /\ was \cap new = {}
  BY <1>1, <1>2
<1>4. /\ inLists \cup inFlight \cup ret \cup gone \cup del = was
      /\ inLists \cap (inFlight \cup ret \cup gone \cup del) = {}
      /\ inFlight \cap (ret \cup gone \cup del) = {}
      /\ ret \cap (gone \cup del) = {}
      /\ gone \cap del = {}
  BY <1>2 DEF Accounted
<1>5. rest \cup flying \cup more = old \cup new
  BY <1>1
<1>6. ((inLists \ old) \cup rest) \cup (inFlight \cup flying) \cup ret \cup (gone \cup more) \cup del = was \cup new
  BY <1>4, <1>5
<1>7. ((inLists \ old) \cup rest) \cap ((inFlight \cup flying) \cup ret \cup (gone \cup more) \cup del) = {}
  BY <1>3, <1>4, <1>5
<1>8. (inFlight \cup flying) \cap (ret \cup (gone \cup more) \cup del) = {}
  BY <1>3, <1>4, <1>5
<1>9. ret \cap ((gone \cup more) \cup del) = {} /\ (gone \cup more) \cap del = {}
  BY <1>3, <1>4, <1>5
<1> QED
  BY <1>3, <1>6, <1>7, <1>8, <1>9 DEF Accounted

(***************************************************************************)
(* Elements that leave the lists or a channel for good.                    *)
(***************************************************************************)
LEMMA GoneAccounted ==
  ASSUME NEW inLists, NEW inFlight, NEW ret, NEW gone, NEW del, NEW n,
         Accounted(inLists, inFlight, ret, gone, del, n), NEW some
  PROVE  /\ some \subseteq inLists => Accounted(inLists \ some, inFlight, ret \cup some, gone, del, n)
         /\ some \subseteq inLists => Accounted(inLists \ some, inFlight, ret, gone, del \cup some, n)
         /\ some \subseteq inFlight => Accounted(inLists, inFlight \ some, ret \cup some, gone, del, n)
         /\ some \subseteq inFlight => Accounted(inLists, inFlight \ some, ret, gone \cup some, del, n)
<1>1. PICK was : was = 1..n
  OBVIOUS
<1>2. /\ inLists \cup inFlight \cup ret \cup gone \cup del = was
      /\ inLists \cap (inFlight \cup ret \cup gone \cup del) = {}
      /\ inFlight \cap (ret \cup gone \cup del) = {}
      /\ ret \cap (gone \cup del) = {}
      /\ gone \cap del = {}
  BY <1>1 DEF Accounted
<1>3. ASSUME some \subseteq inLists PROVE Accounted(inLists \ some, inFlight, ret \cup some, gone, del, n)
  BY <1>1, <1>2, <1>3 DEF Accounted
<1>4. ASSUME some \subseteq inLists PROVE Accounted(inLists \ some, inFlight, ret, gone, del \cup some, n)
  BY <1>1, <1>2, <1>4 DEF Accounted
<1>5. ASSUME some \subseteq inFlight PROVE Accounted(inLists, inFlight \ some, ret \cup some, gone, del, n)
  BY <1>1, <1>2, <1>5 DEF Accounted
<1>6. ASSUME some \subseteq inFlight PROVE Accounted(inLists, inFlight \ some, ret, gone \cup some, del, n)
  BY <1>1, <1>2, <1>6 DEF Accounted
<1> QED
  BY <1>3, <1>4, <1>5, <1>6

(***************************************************************************)
(* The parts of the invariant on the waiters.                              *)
(***************************************************************************)
WaitInv == WaitTypes /\ NoStaleWaiter /\ UnservedEmpty /\ ChansApart

(***************************************************************************)
(* The parts of the invariant on the elements.                             *)
(***************************************************************************)
ListInv ==
  /\ lists \in [Keys -> Seq(Values)] /\ Apart(lists)
  /\ nextVal \in 0..MaxVals /\ stopped \in BOOLEAN
  /\ Accounted(AllOf(lists), InFlight, returned, lost, dropped, nextVal)

(***************************************************************************)
(* Together they are the invariant.                                        *)
(***************************************************************************)
LEMMA InvParts == IndInv <=> WaitInv /\ ListInv
<1>1. ASSUME ListInv PROVE returned \subseteq Values /\ lost \subseteq Values /\ dropped \subseteq Values
  <2>1. 1..nextVal \subseteq Values
    BY <1>1, ListAssumption DEF ListInv, Values
  <2>2. returned \cup lost \cup dropped \subseteq 1..nextVal
    BY <1>1 DEF ListInv, Accounted
  <2> QED
    BY <2>1, <2>2
<1> QED
  BY <1>1 DEF IndInv, TypeOK, WaitInv, WaitTypes, ListInv

(***************************************************************************)
(* The facts a step starts from.                                           *)
(***************************************************************************)
LEMMA ListFacts ==
  ASSUME ListInv
  PROVE  /\ \A k \in Keys : lists[k] \in Seq(Values) /\ Single(lists[k]) /\ ToSet(lists[k]) \subseteq AllOf(lists)
         /\ \A k, l \in Keys : k # l => ToSet(lists[k]) \cap ToSet(lists[l]) = {}
         /\ nextVal \in Nat /\ AllOf(lists) \subseteq 1..nextVal /\ AllOf(lists) \cap InFlight = {}
<1>1. \A k \in Keys : lists[k] \in Seq(Values)
  BY DEF ListInv
<1>2. \A k \in Keys : Single(lists[k])
  BY DEF ListInv, Apart, Single
<1>3. \A k \in Keys : ToSet(lists[k]) \subseteq AllOf(lists)
  BY DEF AllOf
<1>4. \A k, l \in Keys : k # l => ToSet(lists[k]) \cap ToSet(lists[l]) = {}
  BY DEF ListInv, Apart, ToSet
<1>5. nextVal \in Nat
  BY ListAssumption DEF ListInv
<1>6. AllOf(lists) \subseteq 1..nextVal /\ AllOf(lists) \cap InFlight = {}
  BY DEF ListInv, Accounted
<1> QED
  BY <1>1, <1>2, <1>3, <1>4, <1>5, <1>6

(***************************************************************************)
(* A step that does not touch the waiters.                                 *)
(***************************************************************************)
LEMMA WaitersStay ==
  ASSUME WaitInv, UNCHANGED waitVars
  PROVE  WaitInv' /\ InFlight' = InFlight
<1>1. InFlight' = InFlight
  BY DEF waitVars, InFlight
<1>2. WaitTypes'
  BY DEF WaitInv, WaitTypes, waitVars
<1>3. NoStaleWaiter' /\ UnservedEmpty' /\ ChansApart'
  BY DEF WaitInv, NoStaleWaiter, UnservedEmpty, ChansApart, waitVars
<1> QED
  BY <1>1, <1>2, <1>3 DEF WaitInv

(***************************************************************************)
(* A call that is not asleep, before or after, changes its own channel.    *)
(***************************************************************************)
LEMMA CallAside ==
  ASSUME NEW c \in Consumers, \A e \in Consumers \ {c} : pc'[e] = pc[e] /\ chan'[e] = chan[e],
         pc[c] # "select", pc'[c] # "select" \/ chan'[c] = <<>>
  PROVE  InFlight' = InFlight
<1>1. \A v : v \in InFlight' <=> \E e \in Consumers : pc'[e] = "select" /\ v \in ToSet(chan'[e])
  BY DEF InFlight
<1>2. \A v : v \in InFlight <=> \E e \in Consumers : pc[e] = "select" /\ v \in ToSet(chan[e])
  BY DEF InFlight
<1>3. ToSet(<<>>) = {}
  BY DEF ToSet
<1>4. \A v : ~(pc'[c] = "select" /\ v \in ToSet(chan'[c]))
  BY <1>3
<1>5. \A v, e : e \in Consumers => ((pc'[e] = "select" /\ v \in ToSet(chan'[e])) <=> (pc[e] = "select" /\ v \in ToSet(chan[e])))
  BY <1>4
<1> QED
  BY <1>1, <1>2, <1>5

(***************************************************************************)
(* A sleeping call wakes up: what was in its channel is no longer on its   *)
(* way, and nothing else.                                                  *)
(***************************************************************************)
LEMMA CallLeaves ==
  ASSUME WaitInv, NEW c \in Consumers, pc[c] = "select", pc' = [pc EXCEPT ![c] = "leave"],
         \A e \in Consumers \ {c} : chan'[e] = chan[e]
  PROVE  InFlight' = InFlight \ ToSet(chan[c]) /\ ToSet(chan[c]) \subseteq InFlight
<1>1. pc \in [Consumers -> {"idle", "select", "leave"}]
      /\ chan \in [Consumers -> Seq(Values)] /\ \A e \in Consumers : Len(chan[e]) <= 1
  BY DEF WaitInv, WaitTypes
<1>2. pc'[c] = "leave" /\ \A e \in Consumers \ {c} : pc'[e] = pc[e]
  BY <1>1
<1>3. \A v : v \in InFlight' <=> \E e \in Consumers : pc'[e] = "select" /\ v \in ToSet(chan'[e])
  BY DEF InFlight
<1>4. \A v : v \in InFlight <=> \E e \in Consumers : pc[e] = "select" /\ v \in ToSet(chan[e])
  BY DEF InFlight
<1>5. ASSUME NEW e \in Consumers, NEW v \in ToSet(chan[e]) PROVE chan[e] = <<v>>
  <2>1. PICK s \in Seq(Values) : s = chan[e] /\ Len(s) <= 1
    BY <1>1
  <2>2. PICK i \in DOMAIN s : s[i] = v
    BY <2>1 DEF ToSet
  <2>3. PICK n \in Nat : n = Len(s) /\ DOMAIN s = 1..n
    OBVIOUS
  <2>4. n <= 1 /\ i \in 1..n
    BY <2>1, <2>2, <2>3
  <2>5. n = 1 /\ i = 1
    BY <2>4
  <2> QED
    BY <2>1, <2>2, <2>3, <2>5
<1>6. \A e \in Consumers \ {c} : pc[e] = "select" => ToSet(chan[e]) \cap ToSet(chan[c]) = {}
  <2> SUFFICES ASSUME NEW e \in Consumers \ {c}, pc[e] = "select", NEW v \in ToSet(chan[e]), v \in ToSet(chan[c])
               PROVE  FALSE
    OBVIOUS
  <2>1. chan[e] = <<v>> /\ chan[c] = <<v>> /\ <<v>> # <<>>
    BY <1>5
  <2> QED
    BY <2>1 DEF WaitInv, ChansApart
<1>7. ASSUME NEW v PROVE v \in InFlight' <=> v \in InFlight /\ v \notin ToSet(chan[c])
  <2>1. ASSUME v \in InFlight' PROVE v \in InFlight /\ v \notin ToSet(chan[c])
    <3>1. PICK e \in Consumers : pc'[e] = "select" /\ v \in ToSet(chan'[e])
      BY <1>3, <2>1
    <3>2. e # c /\ pc[e] = "select" /\ chan'[e] = chan[e]
      BY <1>2, <3>1
    <3> QED
      BY <1>4, <1>6, <3>1, <3>2
  <2>2. ASSUME v \in InFlight, v \notin ToSet(chan[c]) PROVE v \in InFlight'
    <3>1. PICK e \in Consumers : pc[e] = "select" /\ v \in ToSet(chan[e])
      BY <1>4, <2>2
    <3>2. e # c
      BY <2>2, <3>1
    <3> QED
      BY <1>2, <1>3, <3>1, <3>2
  <2> QED
    BY <2>1, <2>2
<1> QED
  BY <1>4, <1>7

-----------------------------------------------------------------------------
(***************************************************************************)
(* A step that leaves the waiters alone and takes elements out of the      *)
(* lists for good, to a client or with their key.                          *)
(***************************************************************************)
LEMMA TakenOut ==
  ASSUME IndInv, UNCHANGED <<waitVars, stopped, nextVal, lost>>, NEW some, some \subseteq AllOf(lists),
         lists' \in [Keys -> Seq(Values)], Apart(lists'), AllOf(lists') = AllOf(lists) \ some,
         \/ returned' = returned \cup some /\ dropped' = dropped
         \/ dropped' = dropped \cup some /\ returned' = returned
  PROVE  IndInv'
<1>1. WaitInv /\ ListInv
  BY InvParts
<1>2. WaitInv' /\ InFlight' = InFlight
  BY <1>1, WaitersStay
<1>3. Accounted(AllOf(lists), InFlight, returned, lost, dropped, nextVal)
  BY <1>1 DEF ListInv
<1>4. /\ Accounted(AllOf(lists) \ some, InFlight, returned \cup some, lost, dropped, nextVal)
      /\ Accounted(AllOf(lists) \ some, InFlight, returned, lost, dropped \cup some, nextVal)
  BY <1>3, GoneAccounted
<1>5. Accounted(AllOf(lists'), InFlight', returned', lost', dropped', nextVal')
  BY <1>2, <1>4
<1>6. ListInv'
  BY <1>1, <1>5 DEF ListInv, Apart, AllOf
<1> QED
  BY <1>2, <1>6, InvParts, PTL

(***************************************************************************)
(* popList, and BPop when a list has an element.                           *)
(***************************************************************************)
LEMMA PopIndInv ==
  ASSUME IndInv, NEW k \in Keys, NEW left \in BOOLEAN, lists[k] # <<>>,
         returned' = returned \cup {End(lists[k], left)},
         lists' = [lists EXCEPT ![k] = WithoutEnd(@, left)],
         UNCHANGED <<waitVars, stopped, nextVal, lost, dropped>>
  PROVE  IndInv'
<1>1. ListInv
  BY InvParts
<1>2. /\ lists \in [Keys -> Seq(Values)] /\ Apart(lists)
      /\ lists[k] \in Seq(Values) /\ Single(lists[k]) /\ ToSet(lists[k]) \subseteq AllOf(lists)
      /\ \A l \in Keys \ {k} : ToSet(lists[k]) \cap ToSet(lists[l]) = {}
  BY <1>1, ListFacts DEF ListInv
<1>3. PICK v : v = End(lists[k], left)
  OBVIOUS
<1>4. PICK d : d = WithoutEnd(lists[k], left)
  OBVIOUS
<1>5. v \in ToSet(lists[k]) /\ d \in Seq(Values) /\ Single(d) /\ ToSet(d) = ToSet(lists[k]) \ {v}
  BY <1>2, <1>3, <1>4, EndTaken
<1>6. \A l \in Keys \ {k} : ToSet(d) \cap ToSet(lists[l]) = {}
  BY <1>2, <1>5
<1>7. PICK q : q = [lists EXCEPT ![k] = d]
  OBVIOUS
<1>8. q \in [Keys -> Seq(Values)] /\ Apart(q) /\ AllOf(q) = (AllOf(lists) \ ToSet(lists[k])) \cup ToSet(d)
  BY <1>2, <1>5, <1>6, <1>7, OneListChanges
<1>9. lists' = q
  BY <1>4, <1>7
<1>10. AllOf(q) = AllOf(lists) \ {v} /\ {v} \subseteq AllOf(lists)
  <2>1. AllOf(q) \subseteq AllOf(lists) \ {v}
    <3>1. ASSUME NEW w \in AllOf(lists), w \notin ToSet(lists[k]) PROVE w # v
      BY <1>5, <3>1
    <3> QED
      BY <1>2, <1>5, <1>8, <3>1
  <2> QED
    BY <1>2, <1>5, <1>8, <2>1
<1>11. AllOf(lists') = AllOf(lists) \ {v} /\ Apart(lists') /\ lists' \in [Keys -> Seq(Values)]
  BY <1>8, <1>9, <1>10
<1>12. returned' = returned \cup {v} /\ dropped' = dropped
  BY <1>3
<1> QED
  BY <1>10, <1>11, <1>12, TakenOut

(***************************************************************************)
(* deleteKeyLocked.                                                        *)
(***************************************************************************)
LEMMA DeleteIndInv ==
  ASSUME IndInv, NEW k \in Keys, lists' = [lists EXCEPT ![k] = <<>>],
         dropped' = dropped \cup ToSet(lists[k]),
         UNCHANGED <<waitVars, stopped, nextVal, returned, lost>>
  PROVE  IndInv'
<1>1. ListInv
  BY InvParts
<1>2. /\ lists \in [Keys -> Seq(Values)] /\ Apart(lists)
      /\ ToSet(lists[k]) \subseteq AllOf(lists)
  BY <1>1, ListFacts DEF ListInv
<1>3. PICK d : d = <<>>
  OBVIOUS
<1>4. d \in Seq(Values) /\ Single(d) /\ ToSet(d) = {}
  BY <1>3 DEF Single, ToSet
<1>5. PICK q : q = [lists EXCEPT ![k] = d]
  OBVIOUS
<1>9. \A l \in Keys \ {k} : ToSet(d) \cap ToSet(lists[l]) = {}
  BY <1>4
<1>6. q \in [Keys -> Seq(Values)] /\ Apart(q) /\ AllOf(q) = (AllOf(lists) \ ToSet(lists[k])) \cup ToSet(d)
  BY <1>2, <1>4, <1>5, <1>9, OneListChanges
<1>7. lists' = q
  BY <1>3, <1>5
<1>8. AllOf(lists') = AllOf(lists) \ ToSet(lists[k]) /\ Apart(lists') /\ lists' \in [Keys -> Seq(Values)]
  BY <1>4, <1>6, <1>7
<1> QED
  BY <1>2, <1>8, TakenOut

(***************************************************************************)
(* Rename to another name: the list under the new name goes away, and the  *)
(* list moves there.                                                       *)
(***************************************************************************)
LEMMA RenameIndInv ==
  ASSUME IndInv, NEW k \in Keys, NEW l \in Keys, k # l,
         lists' = [lists EXCEPT ![l] = lists[k], ![k] = <<>>],
         dropped' = dropped \cup ToSet(lists[l]),
         UNCHANGED <<waitVars, stopped, nextVal, returned, lost>>
  PROVE  IndInv'
<1>1. ListInv
  BY InvParts
<1>2. lists \in [Keys -> Seq(Values)] /\ Apart(lists) /\ ToSet(lists[l]) \subseteq AllOf(lists)
  BY <1>1, ListFacts DEF ListInv
<1>3. PICK q : q = lists'
  OBVIOUS
<1>4. /\ q \in [Keys -> Seq(Values)] /\ q[l] = lists[k] /\ q[k] = <<>>
      /\ \A m \in Keys \ {k, l} : q[m] = lists[m]
  BY <1>2, <1>3
<1>5. Apart(q)
  <2> SUFFICES ASSUME NEW m \in Keys, NEW n \in Keys, NEW i \in DOMAIN q[m], NEW j \in DOMAIN q[n], q[m][i] = q[n][j]
               PROVE  m = n /\ i = j
    BY DEF Apart
  <2>0. m # k /\ n # k
    BY <1>4
  <2>1. PICK a \in Keys : q[m] = lists[a] /\ (m = l => a = k) /\ (m # l => a = m)
    BY <1>4, <2>0
  <2>2. PICK b \in Keys : q[n] = lists[b] /\ (n = l => b = k) /\ (n # l => b = n)
    BY <1>4, <2>0
  <2>3. i \in DOMAIN lists[a] /\ j \in DOMAIN lists[b] /\ lists[a][i] = lists[b][j]
    BY <2>1, <2>2
  <2>4. a = b /\ i = j
    BY <1>2, <2>3 DEF Apart
  <2> QED
    BY <2>0, <2>1, <2>2, <2>4
<1>6. ASSUME NEW v PROVE v \in AllOf(q) <=> v \in AllOf(lists) /\ v \notin ToSet(lists[l])
  <2>1. \A r : v \in AllOf(r) <=> \E m \in Keys : v \in ToSet(r[m])
    BY DEF AllOf
  <2>2. ToSet(q[k]) = {}
    BY <1>4 DEF ToSet
  <2>3. \A m, n \in Keys : m # n => ToSet(lists[m]) \cap ToSet(lists[n]) = {}
    BY <1>1, ListFacts
  <2>4. ASSUME v \in AllOf(q) PROVE v \in AllOf(lists) /\ v \notin ToSet(lists[l])
    <3>1. PICK m \in Keys : v \in ToSet(q[m])
      BY <2>1, <2>4
    <3>2. PICK a \in Keys : v \in ToSet(lists[a]) /\ a # l
      BY <1>4, <2>2, <3>1
    <3> QED
      BY <2>1, <2>3, <3>2
  <2>5. ASSUME v \in AllOf(lists), v \notin ToSet(lists[l]) PROVE v \in AllOf(q)
    <3>1. PICK a \in Keys : v \in ToSet(lists[a])
      BY <2>1, <2>5
    <3>2. a # l
      BY <2>5, <3>1
    <3>3. v \in ToSet(q[l]) \/ v \in ToSet(q[a])
      BY <1>4, <3>1, <3>2
    <3> QED
      BY <2>1, <3>3
  <2> QED
    BY <2>4, <2>5
<1>7. AllOf(lists') = AllOf(lists) \ ToSet(lists[l]) /\ Apart(lists') /\ lists' \in [Keys -> Seq(Values)]
  BY <1>3, <1>4, <1>5, <1>6
<1> QED
  BY <1>2, <1>7, TakenOut

(***************************************************************************)
(* FlushDB, which also forgets the waiters.                                *)
(***************************************************************************)
LEMMA FlushIndInv ==
  ASSUME IndInv, FlushDB
  PROVE  IndInv'
<1>1. WaitInv /\ ListInv
  BY InvParts
<1>2. InFlight' = InFlight
  BY DEF FlushDB, InFlight
<1>3. WaitTypes' /\ UnservedEmpty' /\ ChansApart'
  BY <1>1 DEF FlushDB, WaitInv, WaitTypes, UnservedEmpty, ChansApart
<1>4. NoStaleWaiter'
  BY DEF FlushDB, NoStaleWaiter, ToSet
<1>5. PICK all : all = AllOf(lists)
  OBVIOUS
<1>6. PICK none : none = {}
  OBVIOUS
<1>7. lists' \in [Keys -> Seq(Values)] /\ Apart(lists') /\ AllOf(lists') = none
  BY <1>6 DEF FlushDB, Apart, AllOf, ToSet
<1>8. dropped' = dropped \cup all
  BY <1>5 DEF FlushDB, AllOf
<1>9. Accounted(all, InFlight, returned, lost, dropped, nextVal)
  BY <1>1, <1>5 DEF ListInv
<1>10. Accounted(all \ all, InFlight, returned, lost, dropped \cup all, nextVal)
  BY <1>9, GoneAccounted
<1>11. all \ all = none
  BY <1>6
<1>12. Accounted(AllOf(lists'), InFlight', returned', lost', dropped', nextVal')
  BY <1>2, <1>7, <1>8, <1>10, <1>11 DEF FlushDB
<1>13. ListInv'
  BY <1>1, <1>7, <1>12 DEF FlushDB, ListInv, Apart, AllOf
<1>14. WaitInv'
  BY <1>3, <1>4 DEF WaitInv
<1> QED
  BY <1>13, <1>14, InvParts, PTL

(***************************************************************************)
(* A waiter's channel is the only thing that changes: the lists, and what  *)
(* has become of the elements that left them, stay.                        *)
(***************************************************************************)
LEMMA ListsStay ==
  ASSUME IndInv, UNCHANGED <<lists, stopped, nextVal>>, WaitInv',
         Accounted(AllOf(lists), InFlight', returned', lost', dropped', nextVal)
  PROVE  IndInv'
<1>1. ListInv
  BY InvParts
<1>2. AllOf(lists') = AllOf(lists) /\ Apart(lists') /\ nextVal' = nextVal
  BY <1>1 DEF ListInv
<1>3. Accounted(AllOf(lists'), InFlight', returned', lost', dropped', nextVal')
  BY <1>2
<1>4. ListInv'
  BY <1>1, <1>2, <1>3 DEF ListInv, Apart, AllOf
<1> QED
  BY <1>4, InvParts, PTL

(***************************************************************************)
(* The select of a call takes a value.                                     *)
(***************************************************************************)
LEMMA ReceiveIndInv ==
  ASSUME IndInv, NEW c \in Consumers, Receive(c)
  PROVE  IndInv'
<1>1. WaitInv /\ ListInv
  BY InvParts
<1>2. /\ pc \in [Consumers -> {"idle", "select", "leave"}]
      /\ chan \in [Consumers -> Seq(Values)] /\ \A e \in Consumers : Len(chan[e]) <= 1
      /\ served \in [Consumers -> BOOLEAN]
  BY <1>1 DEF WaitInv, WaitTypes
<1>3. /\ pc' \in [Consumers -> {"idle", "select", "leave"}] /\ pc'[c] = "leave"
      /\ \A e \in Consumers \ {c} : pc'[e] = pc[e]
      /\ chan' \in [Consumers -> Seq(Values)] /\ chan'[c] = <<>>
      /\ \A e \in Consumers \ {c} : chan'[e] = chan[e]
  BY <1>2 DEF Receive
<1>4. WaitTypes' /\ UnservedEmpty'
  BY <1>1, <1>2, <1>3 DEF Receive, WaitInv, WaitTypes, UnservedEmpty
<1>5. NoStaleWaiter'
  BY <1>1, <1>3 DEF Receive, WaitInv, WaitTypes, NoStaleWaiter, ToSet
<1>6. ChansApart'
  BY <1>1, <1>3 DEF WaitInv, ChansApart
<1>7. InFlight' = InFlight \ ToSet(chan[c]) /\ ToSet(chan[c]) \subseteq InFlight
  BY <1>1, <1>3, CallLeaves DEF Receive
<1>8. ToSet(chan[c]) = {Head(chan[c])}
  <2>1. PICK s \in Seq(Values) : s = chan[c] /\ Len(s) <= 1 /\ s # <<>>
    BY <1>2 DEF Receive
  <2>3. PICK n \in Nat : n = Len(s) /\ DOMAIN s = 1..n /\ n # 0
    BY <2>1
  <2>4. n <= 1
    BY <2>1, <2>3
  <2>5. n = 1 /\ 1..n = {1}
    BY <2>3, <2>4
  <2>2. DOMAIN s = {1} /\ Head(s) = s[1]
    BY <2>1, <2>3, <2>5
  <2> QED
    BY <2>1, <2>2 DEF ToSet
<1>9. PICK some : some = ToSet(chan[c])
  OBVIOUS
<1>10. Accounted(AllOf(lists), InFlight, returned, lost, dropped, nextVal)
  BY <1>1 DEF ListInv
<1>11. Accounted(AllOf(lists), InFlight \ some, returned \cup some, lost, dropped, nextVal)
  BY <1>7, <1>9, <1>10, GoneAccounted
<1>12. InFlight' = InFlight \ some /\ returned' = returned \cup some /\ lost' = lost /\ dropped' = dropped
  BY <1>7, <1>8, <1>9 DEF Receive
<1>13. Accounted(AllOf(lists), InFlight', returned', lost', dropped', nextVal)
  BY <1>11, <1>12
<1>14. WaitInv'
  BY <1>4, <1>5, <1>6 DEF WaitInv
<1> QED
  BY <1>13, <1>14, ListsStay DEF Receive

(***************************************************************************)
(* The select ends by timeout or shutdown: a value in the channel is lost. *)
(***************************************************************************)
LEMMA GiveUpIndInv ==
  ASSUME IndInv, NEW c \in Consumers, GiveUp(c)
  PROVE  IndInv'
<1>1. WaitInv /\ ListInv
  BY InvParts
<1>2. /\ pc \in [Consumers -> {"idle", "select", "leave"}]
  BY <1>1 DEF WaitInv, WaitTypes
<1>3. /\ pc' \in [Consumers -> {"idle", "select", "leave"}] /\ pc'[c] = "leave"
      /\ \A e \in Consumers \ {c} : pc'[e] = pc[e]
  BY <1>2 DEF GiveUp
<1>4. WaitTypes' /\ UnservedEmpty'
  BY <1>1, <1>3 DEF GiveUp, WaitInv, WaitTypes, UnservedEmpty
<1>5. NoStaleWaiter'
  <2> SUFFICES ASSUME NEW k \in Keys, NEW e \in ToSet(listWaits[k])
               PROVE  pc'[e] # "idle" /\ k \in ToSet(call[e].keys)
    BY DEF NoStaleWaiter, GiveUp
  <2>1. e \in Consumers
    BY <1>1 DEF WaitInv, WaitTypes, ToSet
  <2> QED
    BY <1>1, <1>3, <2>1 DEF WaitInv, NoStaleWaiter
<1>6. ChansApart'
  BY <1>1, <1>3 DEF GiveUp, WaitInv, ChansApart
<1>7. InFlight' = InFlight \ ToSet(chan[c]) /\ ToSet(chan[c]) \subseteq InFlight
  BY <1>1, CallLeaves DEF GiveUp
<1>8. PICK some : some = ToSet(chan[c])
  OBVIOUS
<1>9. Accounted(AllOf(lists), InFlight, returned, lost, dropped, nextVal)
  BY <1>1 DEF ListInv
<1>10. Accounted(AllOf(lists), InFlight \ some, returned, lost \cup some, dropped, nextVal)
  BY <1>7, <1>8, <1>9, GoneAccounted
<1>11. InFlight' = InFlight \ some /\ returned' = returned /\ lost' = lost \cup some /\ dropped' = dropped
  BY <1>7, <1>8 DEF GiveUp
<1>12. Accounted(AllOf(lists), InFlight', returned', lost', dropped', nextVal)
  BY <1>10, <1>11
<1>13. WaitInv'
  BY <1>4, <1>5, <1>6 DEF WaitInv
<1> QED
  BY <1>12, <1>13, ListsStay DEF GiveUp

(***************************************************************************)
(* removeListWaiter: the call was registered on its own keys only, so no   *)
(* entry of it is left, whichever keys its call names.                     *)
(***************************************************************************)
LEMMA RemoveIndInv ==
  ASSUME IndInv, NEW c \in Consumers, removeListWaiter(c)
  PROVE  IndInv'
<1>1. WaitInv /\ ListInv
  BY InvParts
<1>2. /\ listWaits \in [Keys -> Seq(Consumers)]
      /\ pc \in [Consumers -> {"idle", "select", "leave"}] /\ call \in [Consumers -> Calls]
      /\ chan \in [Consumers -> Seq(Values)] /\ \A e \in Consumers : Len(chan[e]) <= 1
      /\ served \in [Consumers -> BOOLEAN]
  BY <1>1 DEF WaitInv, WaitTypes
<1>3. NoCall \in Calls
  BY DEF NoCall, Calls
<1>4. /\ pc' \in [Consumers -> {"idle", "select", "leave"}] /\ pc'[c] = "idle" /\ pc[c] = "leave"
      /\ \A e \in Consumers \ {c} : pc'[e] = pc[e]
      /\ call' \in [Consumers -> Calls] /\ \A e \in Consumers \ {c} : call'[e] = call[e]
      /\ chan' \in [Consumers -> Seq(Values)] /\ chan'[c] = <<>>
      /\ \A e \in Consumers \ {c} : chan'[e] = chan[e]
      /\ served' \in [Consumers -> BOOLEAN] /\ \A e \in Consumers \ {c} : served'[e] = served[e]
  BY <1>2, <1>3 DEF removeListWaiter
<1>5. ASSUME NEW k \in Keys
      PROVE  listWaits'[k] \in Seq(Consumers) /\ ToSet(listWaits'[k]) \subseteq ToSet(listWaits[k]) \ {c}
  <2>1. PICK ws \in Seq(Consumers) : ws = listWaits[k]
    BY <1>2
  <2>2. Kept(ws, c) \in Seq(Consumers) /\ ToSet(Kept(ws, c)) \subseteq ToSet(ws) \ {c}
    BY KeptWaiters
  <2>3. CASE k \in ToSet(call[c].keys)
    <3>1. listWaits'[k] = Kept(ws, c)
      BY <2>1, <2>3 DEF removeListWaiter
    <3> QED
      BY <2>1, <2>2, <3>1
  <2>4. CASE k \notin ToSet(call[c].keys)
    <3>1. listWaits'[k] = ws
      BY <2>1, <2>4 DEF removeListWaiter
    <3>2. c \notin ToSet(ws)
      BY <1>1, <2>1, <2>4 DEF WaitInv, NoStaleWaiter
    <3> QED
      BY <2>1, <3>1, <3>2
  <2> QED
    BY <2>3, <2>4
<1>6. WaitTypes'
  <2>1. listWaits' = [k \in Keys |-> listWaits'[k]]
    BY DEF removeListWaiter
  <2>2. listWaits' \in [Keys -> Seq(Consumers)]
    BY <1>5, <2>1
  <2>3. \A e \in Consumers : Len(chan'[e]) <= 1
    BY <1>2, <1>4
  <2> QED
    BY <1>4, <2>2, <2>3 DEF WaitTypes
<1>7. UnservedEmpty' /\ ChansApart'
  <2>1. UnservedEmpty'
    BY <1>1, <1>4 DEF WaitInv, UnservedEmpty
  <2>2. ChansApart'
    BY <1>1, <1>4 DEF WaitInv, ChansApart
  <2> QED
    BY <2>1, <2>2
<1>8. NoStaleWaiter'
  <2> SUFFICES ASSUME NEW k \in Keys, NEW e \in ToSet(listWaits'[k])
               PROVE  pc'[e] # "idle" /\ k \in ToSet(call'[e].keys)
    BY DEF NoStaleWaiter
  <2>1. e \in ToSet(listWaits[k]) /\ e # c
    BY <1>5
  <2>2. e \in Consumers
    BY <1>2, <2>1 DEF ToSet
  <2> QED
    BY <1>1, <1>4, <2>1, <2>2 DEF WaitInv, NoStaleWaiter
<1>9. InFlight' = InFlight
  BY <1>4, CallAside
<1>10. Accounted(AllOf(lists), InFlight', returned', lost', dropped', nextVal)
  BY <1>1, <1>9 DEF ListInv, removeListWaiter
<1>11. WaitInv'
  BY <1>6, <1>7, <1>8 DEF WaitInv
<1> QED
  BY <1>10, <1>11, ListsStay DEF removeListWaiter

(***************************************************************************)
(* BPop registers its waiter on every key it names, once per mention.      *)
(***************************************************************************)
LEMMA BlockIndInv ==
  ASSUME IndInv, NEW c \in Consumers, NEW ks \in KeyArgs, NEW left \in BOOLEAN, NEW forever \in BOOLEAN,
         BPopBlocks(c, ks, left, forever)
  PROVE  IndInv'
<1>1. WaitInv /\ ListInv
  BY InvParts
<1>2. /\ listWaits \in [Keys -> Seq(Consumers)]
      /\ pc \in [Consumers -> {"idle", "select", "leave"}] /\ call \in [Consumers -> Calls]
      /\ chan \in [Consumers -> Seq(Values)] /\ \A e \in Consumers : Len(chan[e]) <= 1
      /\ served \in [Consumers -> BOOLEAN]
  BY <1>1 DEF WaitInv, WaitTypes
<1>3. PICK new : new = [keys |-> ks, left |-> left, forever |-> forever]
  OBVIOUS
<1>4. new \in Calls /\ new.keys = ks
  BY <1>3 DEF Calls
<1>5. /\ pc' \in [Consumers -> {"idle", "select", "leave"}] /\ pc'[c] = "select" /\ pc[c] = "idle"
      /\ \A e \in Consumers \ {c} : pc'[e] = pc[e]
      /\ call' \in [Consumers -> Calls] /\ call'[c] = new /\ \A e \in Consumers \ {c} : call'[e] = call[e]
      /\ chan' \in [Consumers -> Seq(Values)] /\ chan'[c] = <<>>
      /\ \A e \in Consumers \ {c} : chan'[e] = chan[e]
      /\ served' \in [Consumers -> BOOLEAN] /\ \A e \in Consumers \ {c} : served'[e] = served[e]
  BY <1>2, <1>3, <1>4 DEF BPopBlocks
<1>6. ks \in Seq(Keys)
  BY ListAssumption
<1>7. ASSUME NEW k \in Keys
      PROVE  /\ listWaits'[k] \in Seq(Consumers)
             /\ \A e \in ToSet(listWaits'[k]) : e \in ToSet(listWaits[k]) \/ (e = c /\ k \in ToSet(ks))
  <2>1. PICK n \in Nat : n = Len(ks) /\ DOMAIN ks = 1..n
    BY <1>6
  <2>2. PICK S : S = {j \in 1..n : ks[j] = k}
    OBVIOUS
  <2>3. IsFiniteSet(S)
    <3>1. IsFiniteSet(1..n)
      BY FS_Interval
    <3>2. S \subseteq 1..n
      BY <2>2
    <3> QED
      BY <3>1, <3>2, FS_Subset
  <2>4. PICK m \in Nat : m = Cardinality(S)
    BY <2>3, FS_CardinalityType
  <2>5. PICK ws \in Seq(Consumers) : ws = listWaits[k]
    BY <1>2
  <2>6. PICK more : more = [i \in 1..m |-> c]
    OBVIOUS
  <2>7. more \in Seq(Consumers) /\ Len(more) = m /\ DOMAIN more = 1..m /\ \A i \in 1..m : more[i] = c
    BY <2>6
  <2>8. listWaits'[k] = ws \o more
    BY <2>1, <2>2, <2>4, <2>5, <2>6 DEF BPopBlocks
  <2>9. ws \o more \in Seq(Consumers)
    BY <2>7
  <2>10. ASSUME NEW e \in ToSet(ws \o more) PROVE e \in ToSet(ws) \/ (e = c /\ k \in ToSet(ks))
    <3>1. PICK p \in Nat : p = Len(ws) /\ DOMAIN ws = 1..p
      OBVIOUS
    <3>2. DOMAIN (ws \o more) = 1..(p + m)
      BY <2>7, <3>1
    <3>3. PICK i \in 1..(p + m) : e = (ws \o more)[i]
      BY <2>10, <3>2 DEF ToSet
    <3>4. CASE i <= p
      <4>1. e = ws[i] /\ i \in 1..p
        BY <2>7, <3>1, <3>3, <3>4
      <4> QED
        BY <3>1, <4>1 DEF ToSet
    <3>5. CASE i > p
      <4>1. i - p \in 1..m
        BY <3>3, <3>5
      <4>2. e = more[i - p]
        BY <2>7, <3>1, <3>2, <3>3, <3>5, <4>1
      <4>3. m # 0
        BY <4>1
      <4>4. S # {}
        BY <2>3, <2>4, <4>3, FS_EmptySet
      <4>5. PICK j \in 1..n : ks[j] = k
        BY <2>2, <4>4
      <4> QED
        BY <2>1, <2>7, <4>1, <4>2, <4>5 DEF ToSet
    <3>6. i <= p \/ i > p
      BY <3>1, <3>3
    <3> QED
      BY <3>4, <3>5, <3>6
  <2> QED
    BY <2>5, <2>8, <2>9, <2>10
<1>8. WaitTypes'
  <2>1. listWaits' = [k \in Keys |-> listWaits'[k]]
    BY DEF BPopBlocks
  <2>2. listWaits' \in [Keys -> Seq(Consumers)]
    BY <1>7, <2>1
  <2>4. Len(chan'[c]) = 0
    BY <1>5
  <2>5. \A e \in Consumers \ {c} : Len(chan'[e]) = Len(chan[e])
    BY <1>5
  <2>3. \A e \in Consumers : Len(chan'[e]) <= 1
    BY <1>2, <2>4, <2>5
  <2> QED
    BY <1>5, <2>2, <2>3 DEF WaitTypes
<1>9. UnservedEmpty'
  BY <1>1, <1>5 DEF WaitInv, UnservedEmpty
<1>10. ChansApart'
  BY <1>1, <1>5 DEF WaitInv, ChansApart
<1>11. NoStaleWaiter'
  <2> SUFFICES ASSUME NEW k \in Keys, NEW e \in ToSet(listWaits'[k])
               PROVE  pc'[e] # "idle" /\ k \in ToSet(call'[e].keys)
    BY DEF NoStaleWaiter
  <2>1. CASE e = c /\ k \in ToSet(ks)
    BY <1>4, <1>5, <2>1
  <2>2. CASE e \in ToSet(listWaits[k])
    <3>1. e \in Consumers
      BY <1>2, <2>2 DEF ToSet
    <3>2. pc[e] # "idle" /\ k \in ToSet(call[e].keys)
      BY <1>1, <2>2 DEF WaitInv, NoStaleWaiter
    <3> QED
      BY <1>5, <3>1, <3>2
  <2> QED
    BY <1>7, <2>1, <2>2
<1>12. InFlight' = InFlight
  BY <1>5, CallAside
<1>13. Accounted(AllOf(lists), InFlight', returned', lost', dropped', nextVal)
  BY <1>1, <1>12 DEF ListInv, BPopBlocks
<1>14. WaitInv'
  BY <1>8, <1>9, <1>10, <1>11 DEF WaitInv
<1> QED
  BY <1>13, <1>14, ListsStay DEF BPopBlocks

(***************************************************************************)
(* Elements are put into the list of k, which becomes d, and its waiters   *)
(* are served: d holds elements that were in the lists (old) and new ones. *)
(***************************************************************************)
LEMMA Placed ==
  ASSUME IndInv, NEW q \in [Keys -> Seq(Values)], Apart(q), NEW k \in Keys,
         NEW d \in Seq(Values), Single(d), NEW old, old \subseteq AllOf(lists),
         AllOf(q) \ ToSet(q[k]) = AllOf(lists) \ old,
         NEW m \in Nat, nextVal + m <= MaxVals,
         ToSet(d) = old \cup ((nextVal + 1)..(nextVal + m)),
         lists' = [q EXCEPT ![k] = Remaining(k, d)], wakeListWaitersLocked(k, d),
         nextVal' = nextVal + m, UNCHANGED <<stopped, returned, dropped>>
  PROVE  IndInv' /\ (lists'[k] # <<>> => listWaits'[k] = <<>>)
<1>1. WaitInv /\ ListInv
  BY InvParts
<1>2. nextVal \in Nat /\ AllOf(lists) \subseteq 1..nextVal /\ AllOf(lists) \cap InFlight = {}
  BY <1>1, ListFacts
<1>3. PICK n \in Nat : n = nextVal
  BY <1>2
<1>4. PICK new : new = (n + 1)..(n + m)
  OBVIOUS
<1>5. PICK was : was = 1..n
  OBVIOUS
<1>6. was \cap new = {}
  BY <1>4, <1>5
<1>7. InFlight \subseteq was
  BY <1>1, <1>3, <1>5 DEF ListInv, Accounted
<1>8. ToSet(d) = old \cup new /\ AllOf(lists) \subseteq was
  BY <1>2, <1>3, <1>4, <1>5
<1>9. ToSet(d) \cap InFlight = {}
  BY <1>2, <1>6, <1>7, <1>8
<1>10. PICK R : R = Remaining(k, d)
  OBVIOUS
<1>11. /\ WaitTypes' /\ NoStaleWaiter' /\ UnservedEmpty' /\ ChansApart'
       /\ \E flying, gone : /\ Shared(d, R, flying, gone)
                            /\ InFlight' = InFlight \cup flying
                            /\ lost' = lost \cup gone
       /\ R # <<>> => listWaits'[k] = <<>>
  BY <1>9, <1>10, Wakes
<1>12. PICK flying, gone : /\ Shared(d, R, flying, gone)
                           /\ InFlight' = InFlight \cup flying
                           /\ lost' = lost \cup gone
  BY <1>11
<1>13. /\ R \in Seq(Values) /\ Single(R) /\ ToSet(R) \cup flying \cup gone = old \cup new
       /\ ToSet(R) \cap (flying \cup gone) = {} /\ flying \cap gone = {}
  BY <1>8, <1>12 DEF Shared
<1>14. ASSUME NEW l \in Keys \ {k} PROVE ToSet(R) \cap ToSet(q[l]) = {}
  <2>1. ToSet(q[l]) \subseteq AllOf(q)
    BY DEF AllOf
  <2>2. ToSet(q[l]) \cap ToSet(q[k]) = {}
    BY DEF Apart, ToSet
  <2>3. ToSet(q[l]) \subseteq AllOf(lists) \ old
    BY <2>1, <2>2
  <2>4. ToSet(R) \subseteq old \cup new
    BY <1>13
  <2> QED
    BY <1>6, <1>8, <2>3, <2>4
<1>15. PICK r : r = [q EXCEPT ![k] = R]
  OBVIOUS
<1>16. r \in [Keys -> Seq(Values)] /\ Apart(r) /\ AllOf(r) = (AllOf(q) \ ToSet(q[k])) \cup ToSet(R)
  <2>1. R \in Seq(Values) /\ Single(R)
    BY <1>13
  <2>2. \A l \in Keys \ {k} : ToSet(R) \cap ToSet(q[l]) = {}
    BY <1>14
  <2>3. /\ [q EXCEPT ![k] = R] \in [Keys -> Seq(Values)]
        /\ Apart([q EXCEPT ![k] = R])
        /\ AllOf([q EXCEPT ![k] = R]) = (AllOf(q) \ ToSet(q[k])) \cup ToSet(R)
    BY <2>1, <2>2, OneListChanges
  <2> QED
    BY <1>15, <2>3
<1>17. lists' = r
  BY <1>10, <1>15
<1>18. Accounted(AllOf(lists), InFlight, returned, lost, dropped, n)
  BY <1>1, <1>3 DEF ListInv
<1>19. PICK rest : rest = ToSet(R)
  OBVIOUS
<1>20. /\ rest \cup flying \cup gone = old \cup ((n + 1)..(n + m))
       /\ rest \cap (flying \cup gone) = {} /\ flying \cap gone = {}
  BY <1>4, <1>13, <1>19
<1>21. Accounted((AllOf(lists) \ old) \cup rest, InFlight \cup flying, returned, lost \cup gone, dropped, n + m)
  BY <1>18, <1>20, PushAccounted
<1>22. AllOf(lists') = (AllOf(lists) \ old) \cup rest /\ nextVal' = n + m
  BY <1>3, <1>16, <1>17, <1>19
<1>23. Accounted(AllOf(lists'), InFlight', returned', lost', dropped', nextVal')
  BY <1>12, <1>21, <1>22
<1>24. nextVal' \in 0..MaxVals
  BY <1>3, ListAssumption
<1>25. Apart(lists') /\ lists' \in [Keys -> Seq(Values)]
  BY <1>16, <1>17
<1>26. ListInv'
  BY <1>1, <1>23, <1>24, <1>25 DEF ListInv, Apart, AllOf
<1>27. WaitInv'
  BY <1>11 DEF WaitInv
<1>28. IndInv'
  BY <1>26, <1>27, InvParts, PTL
<1>29. lists'[k] = R
  BY <1>15, <1>17
<1> QED
  BY <1>11, <1>28, <1>29

(***************************************************************************)
(* What the list of k becomes by a push of n values, before any waiter is  *)
(* served.                                                                 *)
(***************************************************************************)
Pushed(k, n, left) ==
  LET new == [i \in 1..n |-> nextVal + i]
  IN  IF left THEN Reverse(new) \o lists[k] ELSE lists[k] \o new

(***************************************************************************)
(* It holds the new values and those that were there, none twice.          *)
(***************************************************************************)
LEMMA PushedValues ==
  ASSUME IndInv, NEW k \in Keys, NEW n \in Nat, NEW left \in BOOLEAN, nextVal + n <= MaxVals
  PROVE  /\ Pushed(k, n, left) \in Seq(Values) /\ Single(Pushed(k, n, left))
         /\ ToSet(Pushed(k, n, left)) = ToSet(lists[k]) \cup ((nextVal + 1)..(nextVal + n))
<1>1. ListInv
  BY InvParts
<1>2. /\ lists[k] \in Seq(Values) /\ Single(lists[k]) /\ ToSet(lists[k]) \subseteq AllOf(lists)
      /\ nextVal \in Nat /\ AllOf(lists) \subseteq 1..nextVal
  BY <1>1, ListFacts
<1>3. PICK new : new = [i \in 1..n |-> nextVal + i]
  OBVIOUS
<1>4. PICK rev : rev = Reverse(new)
  OBVIOUS
<1>5. PICK some : some = (nextVal + 1)..(nextVal + n)
  OBVIOUS
<1>6. /\ new \in Seq(Values) /\ Single(new) /\ ToSet(new) = some
      /\ rev \in Seq(Values) /\ Single(rev) /\ ToSet(rev) = some
  BY <1>2, <1>3, <1>4, <1>5, ListAssumption, NewValues
<1>7. PICK d \in Seq(Values) : d = lists[k]
  BY <1>2
<1>8. (1..nextVal) \cap some = {}
  BY <1>2, <1>5
<1>9. Single(d) /\ ToSet(d) \cap some = {}
  BY <1>2, <1>7, <1>8
<1>10. rev \o d \in Seq(Values) /\ Single(rev \o d) /\ ToSet(rev \o d) = ToSet(rev) \cup ToSet(d)
  BY <1>6, <1>9, ConcatSingle
<1>11. d \o new \in Seq(Values) /\ Single(d \o new) /\ ToSet(d \o new) = ToSet(d) \cup ToSet(new)
  BY <1>6, <1>9, ConcatSingle
<1>12. Pushed(k, n, left) = IF left THEN rev \o d ELSE d \o new
  BY <1>3, <1>4, <1>7 DEF Pushed
<1>13. PICK p : p = Pushed(k, n, left)
  OBVIOUS
<1>14. p \in Seq(Values) /\ Single(p) /\ ToSet(p) = ToSet(d) \cup some
  BY <1>6, <1>10, <1>11, <1>12, <1>13
<1> QED
  BY <1>5, <1>7, <1>13, <1>14

(***************************************************************************)
(* pushList.                                                               *)
(***************************************************************************)
LEMMA PushIndInv ==
  ASSUME IndInv, NEW k \in Keys, NEW n \in PushSizes, NEW left \in BOOLEAN, pushList(k, n, left)
  PROVE  IndInv' /\ (lists'[k] # <<>> => listWaits'[k] = <<>>)
<1>1. ListInv /\ n \in Nat /\ nextVal + n <= MaxVals
  BY InvParts, ListAssumption DEF pushList
<1>2. lists \in [Keys -> Seq(Values)] /\ Apart(lists) /\ ToSet(lists[k]) \subseteq AllOf(lists)
  BY <1>1, ListFacts DEF ListInv
<1>3. PICK d : d = Pushed(k, n, left)
  OBVIOUS
<1>4. d \in Seq(Values) /\ Single(d) /\ ToSet(d) = ToSet(lists[k]) \cup ((nextVal + 1)..(nextVal + n))
  BY <1>1, <1>3, PushedValues
<1>5. lists' = [lists EXCEPT ![k] = Remaining(k, d)] /\ wakeListWaitersLocked(k, d)
  BY <1>3 DEF pushList, Pushed
<1>6. nextVal' = nextVal + n /\ UNCHANGED <<stopped, returned, dropped>>
  BY DEF pushList
<1>7. PICK old : old = ToSet(lists[k])
  OBVIOUS
<1>8. /\ old \subseteq AllOf(lists) /\ AllOf(lists) \ ToSet(lists[k]) = AllOf(lists) \ old
      /\ ToSet(d) = old \cup ((nextVal + 1)..(nextVal + n))
  BY <1>2, <1>4, <1>7
<1> QED
  BY <1>1, <1>2, <1>4, <1>5, <1>6, <1>8, Placed

(***************************************************************************)
(* LMove: the element leaves the source and is placed in the destination,  *)
(* which may be the same list.                                             *)
(***************************************************************************)
LEMMA MoveIndInv ==
  ASSUME IndInv, NEW src \in Keys, NEW dst \in Keys, NEW sl \in BOOLEAN, NEW dl \in BOOLEAN,
         LMove(src, dst, sl, dl)
  PROVE  IndInv' /\ (lists'[dst] # <<>> => listWaits'[dst] = <<>>)
<1>1. ListInv
  BY InvParts
<1>2. /\ lists \in [Keys -> Seq(Values)] /\ Apart(lists)
      /\ lists[src] \in Seq(Values) /\ Single(lists[src]) /\ ToSet(lists[src]) \subseteq AllOf(lists)
      /\ lists[src] # <<>> /\ nextVal \in Nat
      /\ \A l \in Keys \ {src} : ToSet(lists[src]) \cap ToSet(lists[l]) = {}
  BY <1>1, ListFacts DEF ListInv, LMove
<1>3. PICK v : v = End(lists[src], sl)
  OBVIOUS
<1>4. PICK s : s = WithoutEnd(lists[src], sl)
  OBVIOUS
<1>5. /\ v \in ToSet(lists[src]) /\ v \in Values /\ s \in Seq(Values) /\ Single(s)
      /\ ToSet(s) = ToSet(lists[src]) \ {v}
  BY <1>2, <1>3, <1>4, EndTaken
<1>6. \A l \in Keys \ {src} : ToSet(s) \cap ToSet(lists[l]) = {}
  BY <1>2, <1>5
<1>7. PICK rest : rest = [lists EXCEPT ![src] = s]
  OBVIOUS
<1>8. /\ rest \in [Keys -> Seq(Values)] /\ Apart(rest)
      /\ AllOf(rest) = (AllOf(lists) \ ToSet(lists[src])) \cup ToSet(s)
  BY <1>2, <1>5, <1>6, <1>7, OneListChanges
<1>9. AllOf(rest) = AllOf(lists) \ {v} /\ v \in AllOf(lists)
  <2>1. ASSUME NEW w PROVE w \in AllOf(rest) <=> w \in AllOf(lists) /\ w # v
    BY <1>2, <1>5, <1>8
  <2> QED
    BY <1>2, <1>5, <2>1
<1>10. PICK t \in Seq(Values) : t = rest[dst]
  BY <1>8
<1>11. ToSet(t) \subseteq AllOf(rest) /\ Single(t)
  BY <1>8, <1>10 DEF AllOf, Apart, Single
<1>12. PICK one : one = <<v>>
  OBVIOUS
<1>13. one \in Seq(Values) /\ Single(one) /\ ToSet(one) = {v}
  BY <1>5, <1>12, OneElement
<1>14. ToSet(one) \cap ToSet(t) = {} /\ ToSet(t) \cap ToSet(one) = {}
  BY <1>9, <1>11, <1>13
<1>15. one \o t \in Seq(Values) /\ Single(one \o t) /\ ToSet(one \o t) = ToSet(one) \cup ToSet(t)
  BY <1>11, <1>13, <1>14, ConcatSingle
<1>16. t \o one \in Seq(Values) /\ Single(t \o one) /\ ToSet(t \o one) = ToSet(t) \cup ToSet(one)
  BY <1>11, <1>13, <1>14, ConcatSingle
<1>17. PICK d : d = IF dl THEN one \o t ELSE t \o one
  OBVIOUS
<1>18. d \in Seq(Values) /\ Single(d) /\ ToSet(d) = ToSet(t) \cup {v}
  BY <1>13, <1>15, <1>16, <1>17
<1>19. lists' = [rest EXCEPT ![dst] = Remaining(dst, d)] /\ wakeListWaitersLocked(dst, d)
  BY <1>3, <1>4, <1>7, <1>10, <1>12, <1>17 DEF LMove
<1>20. PICK old : old = ToSet(t) \cup {v}
  OBVIOUS
<1>21. old \subseteq AllOf(lists) /\ AllOf(rest) \ ToSet(rest[dst]) = AllOf(lists) \ old
  BY <1>9, <1>10, <1>11, <1>20
<1>22. PICK m \in Nat : m = 0
  OBVIOUS
<1>23. /\ nextVal + m = nextVal /\ nextVal + m <= MaxVals /\ (nextVal + 1)..(nextVal + m) = {}
  BY <1>1, <1>2, <1>22, ListAssumption DEF ListInv
<1>24. ToSet(d) = old \cup ((nextVal + 1)..(nextVal + m))
  BY <1>18, <1>20, <1>23
<1>25. nextVal' = nextVal + m /\ UNCHANGED <<stopped, returned, dropped>>
  BY <1>23 DEF LMove
<1> QED
  BY <1>8, <1>18, <1>19, <1>21, <1>23, <1>24, <1>25, Placed

(***************************************************************************)
(* Every step keeps the invariant.                                         *)
(***************************************************************************)
LEMMA NextIndInv == IndInv /\ [Next]_vars => IndInv'
<1> SUFFICES ASSUME IndInv, [Next]_vars PROVE IndInv'
  OBVIOUS
<1>1. ASSUME NEW k \in Keys, NEW n \in PushSizes, NEW left \in BOOLEAN, pushList(k, n, left) PROVE IndInv'
  BY <1>1, PushIndInv
<1>2. ASSUME NEW k \in Keys, NEW left \in BOOLEAN, popList(k, left) PROVE IndInv'
  BY <1>2, PopIndInv DEF popList
<1>3. ASSUME NEW k \in Keys, deleteKeyLocked(k) PROVE IndInv'
  BY <1>3, DeleteIndInv DEF deleteKeyLocked
<1>4. ASSUME NEW k \in Keys, NEW newkey \in Keys, Rename(k, newkey) PROVE IndInv'
  <2>1. CASE k = newkey
    BY <1>4, <2>1, DeleteIndInv DEF Rename
  <2>2. CASE k # newkey
    BY <1>4, <2>2, RenameIndInv DEF Rename
  <2> QED
    BY <2>1, <2>2
<1>5. ASSUME NEW k \in Keys, NEW dst \in Keys, NEW sl \in BOOLEAN, NEW dl \in BOOLEAN, LMove(k, dst, sl, dl)
      PROVE  IndInv'
  BY <1>5, MoveIndInv
<1>6. ASSUME NEW c \in Consumers, NEW ks \in KeyArgs, NEW left \in BOOLEAN, BPopTakes(c, ks, left) PROVE IndInv'
  <2>1. PICK i \in 1..Len(ks) :
          /\ FirstNonEmpty(ks, i)
          /\ returned' = returned \cup {End(lists[ks[i]], left)}
          /\ lists' = [lists EXCEPT ![ks[i]] = WithoutEnd(@, left)]
    BY <1>6 DEF BPopTakes
  <2>2. ks \in Seq(Keys)
    BY ListAssumption
  <2>3. PICK k \in Keys : k = ks[i]
    BY <2>2
  <2>4. /\ lists[k] # <<>> /\ returned' = returned \cup {End(lists[k], left)}
        /\ lists' = [lists EXCEPT ![k] = WithoutEnd(@, left)]
    BY <2>1, <2>3 DEF FirstNonEmpty
  <2> QED
    BY <1>6, <2>4, PopIndInv DEF BPopTakes
<1>7. ASSUME NEW c \in Consumers, NEW ks \in KeyArgs, NEW left \in BOOLEAN, NEW forever \in BOOLEAN,
             BPopBlocks(c, ks, left, forever)
      PROVE  IndInv'
  BY <1>7, BlockIndInv
<1>8. ASSUME NEW c \in Consumers, Receive(c) \/ GiveUp(c) \/ removeListWaiter(c) PROVE IndInv'
  BY <1>8, ReceiveIndInv, GiveUpIndInv, RemoveIndInv
<1>9. CASE FlushDB
  BY <1>9, FlushIndInv
<1>10. CASE StopExpiry \/ UNCHANGED vars
  <2>1. WaitInv /\ ListInv
    BY InvParts
  <2>2. UNCHANGED <<waitVars, lists, nextVal, returned, lost, dropped>> /\ stopped' \in BOOLEAN
    BY <1>10, <2>1 DEF StopExpiry, vars, ListInv
  <2>3. WaitInv' /\ InFlight' = InFlight
    BY <2>1, <2>2, WaitersStay
  <2>4. ListInv'
    BY <2>1, <2>2, <2>3 DEF ListInv, Apart, AllOf
  <2> QED
    BY <2>3, <2>4, InvParts, PTL
<1> QED
  BY <1>1, <1>2, <1>3, <1>4, <1>5, <1>6, <1>7, <1>8, <1>9, <1>10 DEF Next

(***************************************************************************)
(* The store starts without elements and without waiters.                  *)
(***************************************************************************)
LEMMA InitIndInv == Init => IndInv
<1> SUFFICES ASSUME Init PROVE IndInv
  OBVIOUS
<1>1. WaitTypes /\ NoStaleWaiter /\ UnservedEmpty
  <2>1. NoCall \in Calls
    BY DEF NoCall, Calls
  <2> QED
    BY <2>1 DEF Init, WaitTypes, NoStaleWaiter, UnservedEmpty, ToSet
<1>2. ChansApart
  BY DEF Init, ChansApart
<1>3. PICK none : none = {}
  OBVIOUS
<1>4. AllOf(lists) = none /\ InFlight = none
  BY <1>3 DEF Init, AllOf, InFlight, ToSet
<1>5. 1..0 = none
  BY <1>3
<1>6. Accounted(none, none, none, none, none, 0)
  BY <1>3, <1>5 DEF Accounted
<1>7. returned = none /\ lost = none /\ dropped = none /\ nextVal = 0
  BY <1>3 DEF Init
<1>8. Accounted(AllOf(lists), InFlight, returned, lost, dropped, nextVal)
  BY <1>4, <1>6, <1>7
<1>9. lists \in [Keys -> Seq(Values)] /\ Apart(lists) /\ stopped \in BOOLEAN
  <2>1. \A k \in Keys : lists[k] = <<>> /\ DOMAIN lists[k] = {}
    BY DEF Init
  <2>2. lists \in [Keys -> Seq(Values)]
    BY DEF Init
  <2>3. Apart(lists)
    BY <2>1 DEF Apart
  <2>4. stopped \in BOOLEAN
    BY DEF Init
  <2> QED
    BY <2>2, <2>3, <2>4
<1>10. nextVal \in 0..MaxVals
  BY <1>7, ListAssumption
<1>11. ListInv
  BY <1>8, <1>9, <1>10 DEF ListInv
<1> QED
  BY <1>1, <1>2, <1>11, InvParts DEF WaitInv

-----------------------------------------------------------------------------
(***************************************************************************)
(* The inductive invariant holds throughout.                               *)
(***************************************************************************)
LEMMA AlwaysIndInv == Spec => []IndInv
  BY InitIndInv, NextIndInv, PTL DEF Spec

(***************************************************************************)
(* The lists, the waiters and their channels are sound, and nobody is      *)
(* registered as a waiter who is not inside a BPop on that key: the        *)
(* deferred removeListWaiter takes out every entry of its call, whichever  *)
(* way the call ended and however often it names a key.                    *)
(***************************************************************************)
THEOREM NobodyLeftWaiting == Spec => []Inv
<1>1. IndInv => Inv
  BY DEF IndInv, Inv
<1> QED
  BY <1>1, AlwaysIndInv, PTL

(***************************************************************************)
(* Whatever pushList, popList, LMove, BPop, DEL, RENAME and FLUSHDB do and *)
(* in whatever order, every element pushed is in exactly one place: one    *)
(* position of one list, the channel of one sleeping call, returned once,  *)
(* deleted with its key, or lost with a call that gave up.                 *)
(***************************************************************************)
THEOREM ElementsAtMostOnce == Spec => []AtMostOnce
<1>1. IndInv => AtMostOnce
  BY DEF IndInv, AtMostOnce, Accounted, Apart, AllOf, InLists, ChansApart
<1> QED
  BY <1>1, AlwaysIndInv, PTL

(***************************************************************************)
(* A push or a move that leaves an element in its list has served every    *)
(* waiter of the key: wakeListWaitersLocked stops only when it runs out of *)
(* waiters or of elements.                                                 *)
(***************************************************************************)
THEOREM PushesServeAll == Spec => PushServesAll
<1> DEFINE Served == \A k \in Keys : lists'[k] # <<>> /\ listWaits'[k] # <<>> => ~PutsInto(k)
<1>1. IndInv /\ [Next]_vars => [Served]_vars
  <2> SUFFICES ASSUME IndInv, NEW k \in Keys, PutsInto(k), lists'[k] # <<>>
               PROVE  listWaits'[k] = <<>>
    OBVIOUS
  <2>1. ASSUME NEW n \in PushSizes, NEW left \in BOOLEAN, pushList(k, n, left)
        PROVE  listWaits'[k] = <<>>
    BY <2>1, PushIndInv
  <2>2. ASSUME NEW src \in Keys, NEW sl \in BOOLEAN, NEW dl \in BOOLEAN, LMove(src, k, sl, dl)
        PROVE  listWaits'[k] = <<>>
    BY <2>2, MoveIndInv
  <2> QED
    BY <2>1, <2>2 DEF PutsInto
<1> QED
  BY <1>1, AlwaysIndInv, PTL DEF Spec, PushServesAll
=============================================================================
