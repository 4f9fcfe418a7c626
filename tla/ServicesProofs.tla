--------------------------- MODULE ServicesProofs ---------------------------
(***************************************************************************)
(* What holds of the components that share no state, for every value of    *)
(* their constants: cluster membership, the links between masters, the     *)
(* rate limiter, the ring buffer, sorted sets and eviction. One part per   *)
(* component, after the lemmas about sequences and finite sets that they   *)
(* have in common.                                                         *)
(***************************************************************************)
EXTENDS Cluster, MultiMaster, RateLimiter, Deque, SortedSet, Eviction,
        FiniteSetTheorems, SequenceTheorems, TLAPS

-----------------------------------------------------------------------------
(***************************************************************************)
(* SEQUENCES AND FINITE SETS                                               *)
(***************************************************************************)

(***************************************************************************)
(* What the elements of a part of a sequence are.                          *)
(***************************************************************************)
LEMMA SubSeqFacts ==
  ASSUME NEW S, NEW q \in Seq(S), NEW a \in 1..(Len(q) + 1), NEW b \in (a - 1)..Len(q)
  PROVE  /\ SubSeq(q, a, b) \in Seq(S)
         /\ Len(SubSeq(q, a, b)) = b - a + 1
         /\ DOMAIN SubSeq(q, a, b) = 1..(b - a + 1)
         /\ \A j \in 1..(b - a + 1) : SubSeq(q, a, b)[j] = q[a + j - 1]
<1>1. Len(q) \in Nat /\ DOMAIN q = 1..Len(q) /\ \A j \in 1..Len(q) : q[j] \in S
  BY LenProperties, ElementOfSeq
<1>2. a \in Int /\ b \in Int /\ a <= b + 1 /\ \A j \in a..b : q[j] \in S
  BY <1>1
<1>3. /\ SubSeq(q, a, b) \in Seq(S)
      /\ Len(SubSeq(q, a, b)) = b - a + 1
      /\ \A j \in 1..(b - a + 1) : SubSeq(q, a, b)[j] = q[a + j - 1]
  BY <1>2, SubSeqProperties
<1> QED
  BY <1>3, LenProperties

(***************************************************************************)
(* A sequence without one of its elements.                                 *)
(***************************************************************************)
LEMMA RemoveAtFacts ==
  ASSUME NEW S, NEW q \in Seq(S), NEW i \in 1..Len(q)
  PROVE  /\ RemoveAt(q, i) \in Seq(S)
         /\ Len(RemoveAt(q, i)) = Len(q) - 1
         /\ DOMAIN RemoveAt(q, i) = 1..(Len(q) - 1)
         /\ \A j \in 1..(Len(q) - 1) :
              RemoveAt(q, i)[j] = IF j < i THEN q[j] ELSE q[j + 1]
<1>1. PICK n \in Nat : n = Len(q)
  BY LenProperties
<1>2. PICK a : a = SubSeq(q, 1, i - 1)
  OBVIOUS
<1>3. PICK b : b = SubSeq(q, i + 1, n)
  OBVIOUS
<1>4. RemoveAt(q, i) = a \o b
  BY <1>1, <1>2, <1>3 DEF RemoveAt
<1>5. a \in Seq(S) /\ Len(a) = i - 1 /\ \A j \in 1..(i - 1) : a[j] = q[j]
  <2>1. 1 \in 1..(Len(q) + 1) /\ i - 1 \in (1 - 1)..Len(q)
    BY <1>1
  <2>2. /\ SubSeq(q, 1, i - 1) \in Seq(S)
        /\ Len(SubSeq(q, 1, i - 1)) = (i - 1) - 1 + 1
        /\ \A j \in 1..((i - 1) - 1 + 1) : SubSeq(q, 1, i - 1)[j] = q[1 + j - 1]
    BY <2>1, SubSeqFacts
  <2>3. (i - 1) - 1 + 1 = i - 1 /\ \A j \in 1..(i - 1) : 1 + j - 1 = j
    BY <1>1
  <2> QED
    BY <1>2, <2>2, <2>3
<1>6. b \in Seq(S) /\ Len(b) = n - i /\ \A j \in 1..(n - i) : b[j] = q[i + j]
  <2>1. PICK m \in 1..(Len(q) + 1) : m = i + 1
    BY <1>1
  <2>2. n \in (m - 1)..Len(q)
    BY <1>1, <2>1
  <2>3. /\ SubSeq(q, m, n) \in Seq(S)
        /\ Len(SubSeq(q, m, n)) = n - m + 1
        /\ \A j \in 1..(n - m + 1) : SubSeq(q, m, n)[j] = q[m + j - 1]
    BY <2>2, SubSeqFacts
  <2>4. n - m + 1 = n - i /\ \A j \in 1..(n - i) : m + j - 1 = i + j
    BY <1>1, <2>1
  <2> QED
    BY <1>3, <2>1, <2>3, <2>4
<1>7. /\ a \o b \in Seq(S) /\ Len(a \o b) = Len(a) + Len(b)
      /\ \A j \in 1..(Len(a) + Len(b)) : (a \o b)[j] = IF j <= Len(a) THEN a[j] ELSE b[j - Len(a)]
  BY <1>5, <1>6, ConcatProperties
<1>8. Len(a) + Len(b) = n - 1
  BY <1>1, <1>5, <1>6
<1>9. \A j \in 1..(n - 1) : (a \o b)[j] = IF j < i THEN q[j] ELSE q[j + 1]
  <2> SUFFICES ASSUME NEW j \in 1..(n - 1) PROVE (a \o b)[j] = IF j < i THEN q[j] ELSE q[j + 1]
    OBVIOUS
  <2>1. CASE j < i
    BY <1>1, <1>5, <1>7, <1>8, <2>1
  <2>2. CASE ~(j < i)
    <3>1. j - (i - 1) \in 1..(n - i) /\ i + (j - (i - 1)) = j + 1 /\ ~(j <= i - 1)
      BY <1>1, <2>2
    <3>2. (a \o b)[j] = b[j - (i - 1)]
      BY <1>5, <1>7, <1>8, <3>1
    <3>3. b[j - (i - 1)] = q[i + (j - (i - 1))]
      BY <1>6, <3>1
    <3> QED
      BY <2>2, <3>1, <3>2, <3>3
  <2> QED
    BY <2>1, <2>2
<1>10. DOMAIN (a \o b) = 1..(n - 1)
  BY <1>7, <1>8, LenProperties
<1> QED
  BY <1>1, <1>4, <1>7, <1>8, <1>9, <1>10

(***************************************************************************)
(* A sequence with one element more.                                       *)
(***************************************************************************)
LEMMA InsertAtFacts ==
  ASSUME NEW S, NEW q \in Seq(S), NEW i \in 1..(Len(q) + 1), NEW e \in S
  PROVE  /\ InsertAt(q, i, e) \in Seq(S)
         /\ Len(InsertAt(q, i, e)) = Len(q) + 1
         /\ DOMAIN InsertAt(q, i, e) = 1..(Len(q) + 1)
         /\ \A j \in 1..(Len(q) + 1) :
              InsertAt(q, i, e)[j] = IF j < i THEN q[j] ELSE IF j = i THEN e ELSE q[j - 1]
<1>1. PICK n \in Nat : n = Len(q)
  BY LenProperties
<1>2. PICK a : a = SubSeq(q, 1, i - 1)
  OBVIOUS
<1>3. PICK b : b = SubSeq(q, i, n)
  OBVIOUS
<1>4. InsertAt(q, i, e) = (a \o <<e>>) \o b
  BY <1>1, <1>2, <1>3 DEF InsertAt
<1>5. a \in Seq(S) /\ Len(a) = i - 1 /\ \A j \in 1..(i - 1) : a[j] = q[j]
  <2>1. 1 \in 1..(Len(q) + 1) /\ i - 1 \in (1 - 1)..Len(q)
    BY <1>1
  <2>2. /\ SubSeq(q, 1, i - 1) \in Seq(S)
        /\ Len(SubSeq(q, 1, i - 1)) = (i - 1) - 1 + 1
        /\ \A j \in 1..((i - 1) - 1 + 1) : SubSeq(q, 1, i - 1)[j] = q[1 + j - 1]
    BY <2>1, SubSeqFacts
  <2>3. (i - 1) - 1 + 1 = i - 1 /\ \A j \in 1..(i - 1) : 1 + j - 1 = j
    BY <1>1
  <2> QED
    BY <1>2, <2>2, <2>3
<1>6. b \in Seq(S) /\ Len(b) = n - i + 1 /\ \A j \in 1..(n - i + 1) : b[j] = q[i + j - 1]
  <2>1. n \in (i - 1)..Len(q)
    BY <1>1
  <2>2. /\ SubSeq(q, i, n) \in Seq(S)
        /\ Len(SubSeq(q, i, n)) = n - i + 1
        /\ \A j \in 1..(n - i + 1) : SubSeq(q, i, n)[j] = q[i + j - 1]
    BY <2>1, SubSeqFacts
  <2> QED
    BY <1>3, <2>2
<1>7. PICK c : c = a \o <<e>>
  OBVIOUS
<1>8. c \in Seq(S) /\ Len(c) = i /\ c[i] = e /\ \A j \in 1..(i - 1) : c[j] = q[j]
  <2>1. <<e>> \in Seq(S) /\ Len(<<e>>) = 1 /\ <<e>>[1] = e
    OBVIOUS
  <2>2. /\ a \o <<e>> \in Seq(S) /\ Len(a \o <<e>>) = Len(a) + Len(<<e>>)
        /\ \A j \in 1..(Len(a) + Len(<<e>>)) :
             (a \o <<e>>)[j] = IF j <= Len(a) THEN a[j] ELSE <<e>>[j - Len(a)]
    BY <1>5, <2>1, ConcatProperties
  <2>3. Len(a) + Len(<<e>>) = i /\ i \in 1..(Len(a) + Len(<<e>>)) /\ ~(i <= Len(a)) /\ i - Len(a) = 1
    BY <1>1, <1>5, <2>1
  <2>4. (a \o <<e>>)[i] = e
    BY <2>1, <2>2, <2>3
  <2>5. \A j \in 1..(i - 1) : j \in 1..(Len(a) + Len(<<e>>)) /\ j <= Len(a)
    BY <1>1, <1>5, <2>1
  <2>6. \A j \in 1..(i - 1) : (a \o <<e>>)[j] = q[j]
    BY <1>5, <2>2, <2>5
  <2> QED
    BY <1>7, <2>2, <2>3, <2>4, <2>6
<1>9. /\ c \o b \in Seq(S) /\ Len(c \o b) = Len(c) + Len(b)
      /\ \A j \in 1..(Len(c) + Len(b)) : (c \o b)[j] = IF j <= Len(c) THEN c[j] ELSE b[j - Len(c)]
  BY <1>6, <1>8, ConcatProperties
<1>10. Len(c) + Len(b) = n + 1
  BY <1>1, <1>6, <1>8
<1>11. \A j \in 1..(n + 1) :
         (c \o b)[j] = IF j < i THEN q[j] ELSE IF j = i THEN e ELSE q[j - 1]
  <2> SUFFICES ASSUME NEW j \in 1..(n + 1)
               PROVE  (c \o b)[j] = IF j < i THEN q[j] ELSE IF j = i THEN e ELSE q[j - 1]
    OBVIOUS
  <2>1. CASE j <= i
    <3>1. (c \o b)[j] = c[j]
      BY <1>1, <1>8, <1>9, <1>10, <2>1
    <3> QED
      BY <1>1, <1>8, <2>1, <3>1
  <2>2. CASE ~(j <= i)
    <3>1. j - i \in 1..(n - i + 1) /\ i + (j - i) - 1 = j - 1
      BY <1>1, <2>2
    <3>2. (c \o b)[j] = b[j - i]
      BY <1>8, <1>9, <1>10, <2>2
    <3>3. b[j - i] = q[i + (j - i) - 1]
      BY <1>6, <3>1
    <3> QED
      BY <1>1, <2>2, <3>1, <3>2, <3>3
  <2> QED
    BY <2>1, <2>2
<1>12. DOMAIN (c \o b) = 1..(n + 1)
  BY <1>9, <1>10, LenProperties
<1> QED
  BY <1>1, <1>4, <1>7, <1>9, <1>10, <1>11, <1>12

(***************************************************************************)
(* A set of numbers that is not empty has a least one: the intervals below *)
(* its members are finite sets, ordered by inclusion.                      *)
(***************************************************************************)
LEMMA LeastNumber ==
  ASSUME NEW T \in SUBSET Nat, T # {}
  PROVE  \E m \in T : \A k \in T : m <= k
<1> DEFINE I == {0..n : n \in T}
<1>1. I \subseteq FiniteSubsetsOf(Nat)
  <2> SUFFICES ASSUME NEW n \in T PROVE 0..n \in FiniteSubsetsOf(Nat)
    OBVIOUS
  <2>1. n \in Int /\ 0 \in Int
    OBVIOUS
  <2>2. IsFiniteSet(0..n)
    BY <2>1, FS_Interval
  <2> QED
    BY <2>2 DEF FiniteSubsetsOf
<1>2. I # {}
  OBVIOUS
<1> HIDE DEF I
<1>3. \E x \in I : \A y \in I : ~(<<y, x>> \in StrictSubsetOrdering(Nat))
  BY <1>1, <1>2, WFMin, FS_StrictSubsetOrderingWellFounded
<1>4. PICK m \in T : \A y \in I : ~(<<y, 0..m>> \in StrictSubsetOrdering(Nat))
  BY <1>3 DEF I
<1>5. ASSUME NEW k \in T PROVE m <= k
  <2> SUFFICES ASSUME k < m PROVE FALSE
    OBVIOUS
  <2>1. 0..k \subseteq 0..m /\ 0..k # 0..m /\ 0..k \in SUBSET Nat /\ 0..m \in SUBSET Nat
    <3>1. m \in 0..m /\ m \notin 0..k
      OBVIOUS
    <3> QED
      BY <3>1
  <2>2. <<0..k, 0..m>> \in StrictSubsetOrdering(Nat)
    BY <2>1 DEF StrictSubsetOrdering
  <2> QED
    BY <1>4, <2>2 DEF I
<1> QED
  BY <1>5

(***************************************************************************)
(* Induction over the numbers up to n, for a set of numbers.               *)
(***************************************************************************)
LEMMA CountUp ==
  ASSUME NEW n \in Nat, NEW S, 0 \in S, \A i \in 0..(n - 1) : i \in S => i + 1 \in S
  PROVE  \A i \in 0..n : i \in S
<1> DEFINE T == {i \in 0..n : i \notin S}
<1> SUFFICES ASSUME T # {} PROVE FALSE
  OBVIOUS
<1>1. T \in SUBSET Nat
  OBVIOUS
<1>2. PICK m \in T : \A k \in T : m <= k
  BY <1>1, LeastNumber
<1>3. m # 0 /\ m \in 0..n /\ m \notin S
  BY <1>2
<1>4. m - 1 \in 0..(n - 1) /\ m - 1 \in 0..n
  BY <1>3
<1>5. m - 1 \in S
  BY <1>2, <1>4
<1>6. (m - 1) + 1 \in S
  BY <1>4, <1>5
<1> QED
  BY <1>3, <1>6

(***************************************************************************)
(* Two sets that a function pairs off are equally large.                   *)
(***************************************************************************)
LEMMA PairedOff ==
  ASSUME NEW S, NEW T, IsFiniteSet(S), NEW f \in [S -> T],
         \A x, y \in S : f[x] = f[y] => x = y, \A y \in T : \E x \in S : f[x] = y
  PROVE  IsFiniteSet(T) /\ Cardinality(T) = Cardinality(S)
<1>1. f \in Surjection(S, T)
  BY DEF Surjection
<1>2. f \in Injection(S, T)
  BY DEF Injection, IsInjective
<1> QED
  BY <1>1, <1>2, FS_Surjection

-----------------------------------------------------------------------------
(***************************************************************************)
(* MULTI-MASTER LINKS                                                      *)
(***************************************************************************)

(***************************************************************************)
(* Where a replication loop can be.                                        *)
(***************************************************************************)
Places == {"starting", "top", "asked", "stream", "pause", "ended"}

(***************************************************************************)
(* The loops are numbered without gaps, so that a new one gets a number of *)
(* its own.                                                                *)
(***************************************************************************)
LoopsNumbered ==
  \E n \in 0..MaxLoops :
    loop \in [1..n -> [link : Links, at : Places]]

(***************************************************************************)
(* An active entry is that of a loop of the same link, which is reading; a *)
(* placeholder has a loop unless the node is being stopped.                *)
(***************************************************************************)
EntriesInv ==
  \A k \in Links :
    /\ entry[k].kind = "active" => /\ entry[k].loop \in DOMAIN loop
                                   /\ loop[entry[k].loop].link = k
                                   /\ loop[entry[k].loop].at = "stream"
    /\ (entry[k].kind = "connecting" /\ stopping[k[1]] = "no") =>
         \E l \in DOMAIN loop : loop[l].link = k /\ loop[l].at # "ended"

(***************************************************************************)
(* Before anything was lost or switched off: no node is being stopped,     *)
(* dialled connections are open, and a link with a loop has one loop and   *)
(* an entry, so that nobody starts a second one.                           *)
(***************************************************************************)
CleanInv ==
  (losses = 0 /\ ~disabled) =>
    /\ \A n \in Masters : stopping[n] = "no"
    /\ \A l \in DOMAIN loop : loop[l].at \in {"asked", "stream"} => l \in linked
    /\ \A l \in DOMAIN loop : entry[loop[l].link].kind # "none"
    /\ \A l, m \in DOMAIN loop : loop[l].link = loop[m].link => l = m

(***************************************************************************)
(* Types, and a loop has a live link only while it asks or streams.        *)
(***************************************************************************)
StateTypes ==
  /\ enabled \in [Masters -> BOOLEAN]
  /\ entry \in [Links -> [kind : {"none", "connecting", "active"}, loop : 0..MaxLoops]]
  /\ stopping \in [Masters -> {"no", "cancelled", "closed", "waited"}]
  /\ linked \subseteq DOMAIN loop
  /\ \A l \in linked : loop[l].at \in {"asked", "stream"}
  /\ DOMAIN remote \subseteq DOMAIN loop
  /\ losses \in Nat /\ disabled \in BOOLEAN

(***************************************************************************)
(* The inductive invariant of the masters, their entries and their loops.  *)
(***************************************************************************)
IndInv == LoopsNumbered /\ StateTypes /\ EntriesInv /\ CleanInv

-----------------------------------------------------------------------------
(***************************************************************************)
(* The links are finitely many.                                            *)
(***************************************************************************)
LEMMA LinksFinite == IsFiniteSet(Links)
<1>1. IsFiniteSet(Masters \X Masters)
  BY MultiMasterAssumption, FS_Product
<1>2. Links \in SUBSET (Masters \X Masters)
  BY DEF Links
<1> QED
  BY <1>1, <1>2, FS_Subset

(***************************************************************************)
(* New loops get the numbers after those in use, one each.                 *)
(***************************************************************************)
LEMMA NumberingIsBijection ==
  ASSUME NEW n \in Nat, DOMAIN loop = 1..n, NEW ks, IsFiniteSet(ks)
  PROVE  /\ Cardinality(DOMAIN loop) = n /\ Cardinality(ks) \in Nat
         /\ Numbering(ks) \in [ks -> (n + 1)..(n + Cardinality(ks))]
         /\ \A j, k \in ks : j # k => Numbering(ks)[j] # Numbering(ks)[k]
         /\ \A l \in (n + 1)..(n + Cardinality(ks)) : \E k \in ks : Numbering(ks)[k] = l
<1> DEFINE m == Cardinality(ks)
           T == (n + 1)..(n + m)
           f == Numbering(ks)
<1>1. m \in Nat
  BY FS_CardinalityType
<1>2. Cardinality(DOMAIN loop) = n
  BY FS_Interval
<1>3. IsFiniteSet(T) /\ Cardinality(T) = m
  <2> HIDE DEF m
  <2>1. n + 1 \in Int /\ n + m \in Int
    BY <1>1
  <2>2. IsFiniteSet(T) /\ Cardinality(T) = IF n + 1 > n + m THEN 0 ELSE (n + m) - (n + 1) + 1
    BY <2>1, FS_Interval
  <2> QED
    BY <1>1, <2>2
<1> HIDE DEF T
<1>4. ExistsBijection(ks, T)
  BY <1>3, FS_SameCardinalityBij
<1>5. \E g \in [ks -> T] : \A j, k \in ks : j # k => g[j] # g[k]
  BY <1>4 DEF ExistsBijection, Bijection, Injection, IsInjective
<1>6. f \in [ks -> T] /\ \A j, k \in ks : j # k => f[j] # f[k]
  BY <1>2, <1>5 DEF Numbering, T
<1> HIDE DEF f
<1>7. f \in Injection(ks, T)
  BY <1>6 DEF Injection, IsInjective
<1>8. f \in Surjection(ks, T)
  BY <1>3, <1>7, FS_Injection
<1> QED
  BY <1>1, <1>2, <1>6, <1>8 DEF Surjection, f, T

(***************************************************************************)
(* What ConnectToPeer does: one new loop and a placeholder for each link   *)
(* that has no entry, and nothing else.                                    *)
(***************************************************************************)
Connected(ks, n, m) ==
  /\ n \in Nat /\ m \in Nat /\ n + m <= MaxLoops
  /\ loop \in [1..n -> [link : Links, at : Places]]
  /\ loop' \in [1..(n + m) -> [link : Links, at : Places]]
  /\ \A l \in 1..n : loop'[l] = loop[l]
  /\ \A l \in (n + 1)..(n + m) : loop'[l].link \in Missing(ks) /\ loop'[l].at = "starting"
  /\ \A l, j \in (n + 1)..(n + m) : loop'[l].link = loop'[j].link => l = j
  /\ \A k \in Missing(ks) : \E l \in (n + 1)..(n + m) : loop'[l].link = k

(***************************************************************************)
(* connectToPeers starts loops with new numbers and registers each of      *)
(* them.                                                                   *)
(***************************************************************************)
LEMMA ConnectFacts ==
  ASSUME LoopsNumbered, NEW ks \in SUBSET Links, ConnectToPeers(ks)
  PROVE  \E n, m \in Nat : Connected(ks, n, m)
<1> DEFINE mis == Missing(ks)
           m == Cardinality(mis)
           new == Numbering(mis)
<1>1. PICK n \in 0..MaxLoops : loop \in [1..n -> [link : Links, at : Places]]
  BY DEF LoopsNumbered
<1>2. n \in Nat /\ DOMAIN loop = 1..n
  BY <1>1, MultiMasterAssumption
<1>3. mis \in SUBSET Links
  BY DEF Missing
<1>4. IsFiniteSet(mis)
  BY <1>3, LinksFinite, FS_Subset
<1>5. /\ Cardinality(DOMAIN loop) = n /\ m \in Nat
      /\ new \in [mis -> (n + 1)..(n + m)]
      /\ \A j, k \in mis : j # k => new[j] # new[k]
      /\ \A l \in (n + 1)..(n + m) : \E k \in mis : new[k] = l
  BY <1>2, <1>4, NumberingIsBijection
<1>6. /\ n + m <= MaxLoops
      /\ loop' = [l \in DOMAIN loop \cup {new[k] : k \in mis} |->
                    IF l \in DOMAIN loop THEN loop[l]
                    ELSE NewLoop(CHOOSE k \in mis : new[k] = l)]
  BY <1>5 DEF ConnectToPeers
<1> HIDE DEF mis, new
<1>7. DOMAIN loop \cup {new[k] : k \in mis} = 1..(n + m)
  <2> HIDE DEF m
  <2>1. {new[k] : k \in mis} = (n + 1)..(n + m)
    BY <1>5
  <2>2. (1..n) \cup (n + 1)..(n + m) = 1..(n + m)
    BY <1>2, <1>5
  <2> QED
    BY <1>2, <2>1, <2>2
<1> DEFINE a == [l \in (n + 1)..(n + m) |-> CHOOSE k \in mis : new[k] = l]
<1>8. ASSUME NEW l \in (n + 1)..(n + m)
      PROVE  a[l] \in mis /\ new[a[l]] = l
  BY <1>5
<1>9. ASSUME NEW l \in (n + 1)..(n + m) PROVE l \notin 1..n /\ l \in 1..(n + m)
  <2> HIDE DEF m
  <2> QED
    BY <1>2, <1>5
<1>10. \A l \in (n + 1)..(n + m) : loop'[l] = NewLoop(a[l])
  BY <1>2, <1>6, <1>7, <1>9
<1>11. \A l \in 1..n : loop'[l] = loop[l]
  <2>1. \A l \in 1..n : l \in 1..(n + m)
    <3> HIDE DEF m
    <3> QED
      BY <1>2, <1>5
  <2> QED
    BY <1>2, <1>6, <1>7, <2>1
<1> HIDE DEF a, m
<1>12. ASSUME NEW l \in 1..(n + m) PROVE l \in 1..n \/ l \in (n + 1)..(n + m)
  BY <1>2, <1>5
<1>13. loop' \in [1..(n + m) -> [link : Links, at : Places]]
  <2>1. ASSUME NEW l \in 1..(n + m) PROVE loop'[l] \in [link : Links, at : Places]
    <3>1. CASE l \in 1..n
      BY <1>1, <1>11, <3>1
    <3>2. CASE l \in (n + 1)..(n + m)
      <4>1. a[l] \in Links
        BY <1>3, <1>8, <3>2 DEF mis
      <4>2. loop'[l] = NewLoop(a[l])
        BY <1>10, <3>2
      <4> QED
        BY <4>1, <4>2 DEF Places, NewLoop
    <3> QED
      BY <1>12, <3>1, <3>2
  <2>2. loop' = [l \in 1..(n + m) |-> loop'[l]]
    BY <1>6, <1>7
  <2> QED
    BY <2>1, <2>2
<1>14. \A l \in (n + 1)..(n + m) : loop'[l].link = a[l] /\ loop'[l].at = "starting"
  <2>1. ASSUME NEW k PROVE NewLoop(k).link = k /\ NewLoop(k).at = "starting"
    BY DEF NewLoop
  <2> QED
    BY <1>10, <2>1
<1>15. \A l, j \in (n + 1)..(n + m) : loop'[l].link = loop'[j].link => l = j
  BY <1>8, <1>14
<1>16. \A k \in mis : \E l \in (n + 1)..(n + m) : loop'[l].link = k
  <2>1. ASSUME NEW k \in mis PROVE loop'[new[k]].link = k /\ new[k] \in (n + 1)..(n + m)
    <3>1. new[k] \in (n + 1)..(n + m)
      BY <1>5
    <3>2. a[new[k]] = k
      BY <1>5, <1>8, <3>1
    <3> QED
      BY <1>14, <3>1, <3>2
  <2> QED
    BY <2>1
<1>17. Connected(ks, n, m)
  BY <1>1, <1>2, <1>5, <1>6, <1>8, <1>11, <1>13, <1>14, <1>15, <1>16 DEF Connected, mis
<1> QED
  BY <1>2, <1>5, <1>17

-----------------------------------------------------------------------------
(***************************************************************************)
(* A loop that goes from one place to the next keeps its number and link,  *)
(* and the others stay where they are.                                     *)
(***************************************************************************)
Moved(l, where) ==
  /\ DOMAIN loop' = DOMAIN loop
  /\ \A x \in DOMAIN loop : loop'[x].link = loop[x].link /\ loop[x].link \in Links
  /\ \A x \in DOMAIN loop : x # l => loop'[x].at = loop[x].at
  /\ loop'[l].at = where

(***************************************************************************)
(* Goes moves one loop.                                                    *)
(***************************************************************************)
LEMMA MoveFacts ==
  ASSUME LoopsNumbered, NEW l \in DOMAIN loop, NEW where \in Places, Goes(l, where)
  PROVE  LoopsNumbered' /\ Moved(l, where)
<1>1. PICK n \in 0..MaxLoops : loop \in [1..n -> [link : Links, at : Places]]
  BY DEF LoopsNumbered
<1>2. loop' \in [1..n -> [link : Links, at : Places]]
  BY <1>1 DEF Goes
<1>3. LoopsNumbered'
  BY <1>2 DEF LoopsNumbered
<1>4. Moved(l, where)
  BY <1>1 DEF Goes, Moved
<1> QED
  BY <1>3, <1>4

(***************************************************************************)
(* The steps of a loop that touch neither the entries nor the connections: *)
(* a loop that is not reading goes elsewhere, and ends only if its node is *)
(* being stopped.                                                          *)
(***************************************************************************)
LEMMA PlainMove ==
  ASSUME IndInv, NEW l \in DOMAIN loop, NEW where \in {"top", "pause", "ended"},
         Goes(l, where), loop[l].at \notin {"asked", "stream"},
         where = "ended" => stopping[loop[l].link[1]] # "no",
         UNCHANGED <<enabled, entry, linked, remote, stopping, disabled>>,
         losses' \in Nat, losses' = 0 => losses = 0
  PROVE  IndInv'
<1>1. LoopsNumbered' /\ Moved(l, where)
  BY MoveFacts DEF IndInv, Places
<1>2. StateTypes'
  BY <1>1 DEF IndInv, StateTypes, Moved
<1>3. EntriesInv'
  <2> SUFFICES ASSUME NEW k \in Links
               PROVE /\ entry[k].kind = "active" => /\ entry[k].loop \in DOMAIN loop
                                                    /\ loop'[entry[k].loop].link = k
                                                    /\ loop'[entry[k].loop].at = "stream"
                     /\ (entry[k].kind = "connecting" /\ stopping[k[1]] = "no") =>
                           \E x \in DOMAIN loop : loop'[x].link = k /\ loop'[x].at # "ended"
    BY <1>1 DEF EntriesInv, Moved
  <2>1. ASSUME entry[k].kind = "active"
        PROVE  /\ entry[k].loop \in DOMAIN loop
               /\ loop'[entry[k].loop].link = k
               /\ loop'[entry[k].loop].at = "stream"
    BY <1>1, <2>1 DEF IndInv, EntriesInv, Moved
  <2>2. ASSUME entry[k].kind = "connecting", stopping[k[1]] = "no"
        PROVE  \E x \in DOMAIN loop : loop'[x].link = k /\ loop'[x].at # "ended"
    <3>1. PICK x \in DOMAIN loop : loop[x].link = k /\ loop[x].at # "ended"
      BY <2>2 DEF IndInv, EntriesInv
    <3> QED
      BY <1>1, <2>2, <3>1 DEF Moved
  <2> QED
    BY <2>1, <2>2
<1>4. CleanInv'
  BY <1>1 DEF IndInv, CleanInv, Moved
<1> QED
  BY <1>1, <1>2, <1>3, <1>4 DEF IndInv

(***************************************************************************)
(* The empty entry has the type of an entry.                               *)
(***************************************************************************)
LEMMA NoEntryType ==
  /\ NoEntry \in [kind : {"none", "connecting", "active"}, loop : 0..MaxLoops]
  /\ NoEntry.kind = "none"
<1>1. 0 \in 0..MaxLoops
  BY MultiMasterAssumption
<1> QED
  BY <1>1 DEF NoEntry

(***************************************************************************)
(* Steps that leave the loops and the entries alone.                       *)
(***************************************************************************)
LEMMA LoopsStay ==
  ASSUME IndInv, StateTypes', UNCHANGED <<loop, entry>>,
         \A n \in Masters : stopping'[n] = "no" => stopping[n] = "no",
         CleanInv'
  PROVE  IndInv'
<1>1. LoopsNumbered'
  BY DEF IndInv, LoopsNumbered
<1>2. EntriesInv'
  <2> SUFFICES ASSUME NEW k \in Links
               PROVE /\ entry[k].kind = "active" => /\ entry[k].loop \in DOMAIN loop
                                                    /\ loop[entry[k].loop].link = k
                                                    /\ loop[entry[k].loop].at = "stream"
                     /\ (entry[k].kind = "connecting" /\ stopping'[k[1]] = "no") =>
                           \E x \in DOMAIN loop : loop[x].link = k /\ loop[x].at # "ended"
    BY DEF EntriesInv
  <2>1. k[1] \in Masters
    BY DEF Links
  <2> QED
    BY <2>1 DEF IndInv, EntriesInv
<1> QED
  BY <1>1, <1>2 DEF IndInv

(***************************************************************************)
(* Dialling opens the loop's connection.                                   *)
(***************************************************************************)
LEMMA DialsStep ==
  ASSUME IndInv, NEW l \in Loops, Dials(l)
  PROVE  IndInv'
<1>1. l \in DOMAIN loop /\ loop[l].at = "top"
  BY DEF Dials, At
<1>2. LoopsNumbered' /\ Moved(l, "asked")
  BY <1>1, MoveFacts DEF IndInv, Places, Dials
<1>3. /\ linked' = linked \cup {l} /\ DOMAIN remote' = DOMAIN remote \cup {l}
      /\ UNCHANGED <<enabled, entry, stopping, losses, switches, disabled>>
  BY DEF Dials
<1>4. StateTypes'
  BY <1>1, <1>2, <1>3 DEF IndInv, StateTypes, Moved
<1>5. EntriesInv'
  <2> SUFFICES ASSUME NEW k \in Links
               PROVE /\ entry[k].kind = "active" => /\ entry[k].loop \in DOMAIN loop
                                                    /\ loop'[entry[k].loop].link = k
                                                    /\ loop'[entry[k].loop].at = "stream"
                     /\ (entry[k].kind = "connecting" /\ stopping[k[1]] = "no") =>
                           \E x \in DOMAIN loop : loop'[x].link = k /\ loop'[x].at # "ended"
    BY <1>2, <1>3 DEF EntriesInv, Moved
  <2>1. ASSUME entry[k].kind = "active"
        PROVE  /\ entry[k].loop \in DOMAIN loop
               /\ loop'[entry[k].loop].link = k
               /\ loop'[entry[k].loop].at = "stream"
    BY <1>1, <1>2, <2>1 DEF IndInv, EntriesInv, Moved
  <2>2. ASSUME entry[k].kind = "connecting", stopping[k[1]] = "no"
        PROVE  \E x \in DOMAIN loop : loop'[x].link = k /\ loop'[x].at # "ended"
    <3>1. PICK x \in DOMAIN loop : loop[x].link = k /\ loop[x].at # "ended"
      BY <2>2 DEF IndInv, EntriesInv
    <3> QED
      BY <1>2, <2>2, <3>1 DEF Moved
  <2> QED
    BY <2>1, <2>2
<1>6. CleanInv'
  BY <1>2, <1>3 DEF IndInv, CleanInv, Moved
<1> QED
  BY <1>2, <1>4, <1>5, <1>6 DEF IndInv

(***************************************************************************)
(* The snapshot has arrived: the loop's entry becomes active.              *)
(***************************************************************************)
LEMMA RegistersStep ==
  ASSUME IndInv, NEW l \in Loops, Registers(l)
  PROVE  IndInv'
<1>1. l \in DOMAIN loop /\ loop[l].at = "asked"
  BY DEF Registers, At
<1>2. LoopsNumbered' /\ Moved(l, "stream")
  BY <1>1, MoveFacts DEF IndInv, Places, Registers
<1>3. PICK k : k = loop[l].link
  OBVIOUS
<1>4. k \in Links
  BY <1>1, <1>2, <1>3 DEF Moved
<1>5. /\ entry' = [entry EXCEPT ![k] = [kind |-> "active", loop |-> l]]
      /\ UNCHANGED <<enabled, linked, remote, stopping, losses, switches, disabled>>
  BY <1>3 DEF Registers
<1>6. StateTypes'
  <2>1. l \in 0..MaxLoops
    BY MultiMasterAssumption DEF Loops
  <2>2. entry' \in [Links -> [kind : {"none", "connecting", "active"}, loop : 0..MaxLoops]]
    BY <1>5, <2>1 DEF IndInv, StateTypes
  <2> QED
    BY <1>1, <1>2, <1>5, <2>2 DEF IndInv, StateTypes, Moved
<1>7. /\ entry'[k].kind = "active" /\ entry'[k].loop = l
      /\ \A j \in Links : j # k => entry'[j] = entry[j]
  BY <1>4, <1>5 DEF IndInv, StateTypes
<1>8. EntriesInv'
  <2> SUFFICES ASSUME NEW j \in Links
               PROVE /\ entry'[j].kind = "active" => /\ entry'[j].loop \in DOMAIN loop
                                                     /\ loop'[entry'[j].loop].link = j
                                                     /\ loop'[entry'[j].loop].at = "stream"
                     /\ (entry'[j].kind = "connecting" /\ stopping[j[1]] = "no") =>
                           \E x \in DOMAIN loop : loop'[x].link = j /\ loop'[x].at # "ended"
    BY <1>2, <1>5 DEF EntriesInv, Moved
  <2>1. CASE j = k
    BY <1>1, <1>2, <1>3, <1>7, <2>1 DEF Moved
  <2>2. CASE j # k
    <3>1. entry'[j] = entry[j]
      BY <1>7, <2>2
    <3>2. ASSUME entry[j].kind = "active"
          PROVE  /\ entry[j].loop \in DOMAIN loop
                 /\ loop'[entry[j].loop].link = j
                 /\ loop'[entry[j].loop].at = "stream"
      BY <1>1, <1>2, <3>2 DEF IndInv, EntriesInv, Moved
    <3>3. ASSUME entry[j].kind = "connecting", stopping[j[1]] = "no"
          PROVE  \E x \in DOMAIN loop : loop'[x].link = j /\ loop'[x].at # "ended"
      <4>1. PICK x \in DOMAIN loop : loop[x].link = j /\ loop[x].at # "ended"
        BY <3>3 DEF IndInv, EntriesInv
      <4> QED
        BY <1>2, <4>1 DEF Moved
    <3> QED
      BY <3>1, <3>2, <3>3
  <2> QED
    BY <2>1, <2>2
<1>9. CleanInv'
  <2> SUFFICES ASSUME losses = 0, ~disabled
               PROVE  /\ \A n \in Masters : stopping[n] = "no"
                      /\ \A x \in DOMAIN loop : loop'[x].at \in {"asked", "stream"} => x \in linked
                      /\ \A x \in DOMAIN loop : entry'[loop'[x].link].kind # "none"
                      /\ \A x, y \in DOMAIN loop : loop'[x].link = loop'[y].link => x = y
    BY <1>2, <1>5 DEF CleanInv, Moved
  <2>1. l \in linked
    BY DEF Registers
  <2>2. \A x \in DOMAIN loop : entry'[loop[x].link].kind # "none"
    BY <1>2, <1>7 DEF IndInv, CleanInv, Moved
  <2> QED
    BY <1>2, <2>1, <2>2 DEF IndInv, CleanInv, Moved
<1> QED
  BY <1>2, <1>6, <1>8, <1>9 DEF IndInv

(***************************************************************************)
(* syncWithPeer returns: an entry of the same link is gone, whichever loop *)
(* it belonged to, so none is left behind for the loop that hangs up.  It  *)
(* does not happen before something was lost or switched off.              *)
(***************************************************************************)
LEMMA HangsStep ==
  ASSUME IndInv, NEW l \in DOMAIN loop, NEW where \in {"top", "pause", "ended"},
         Goes(l, where), Hangs(l), loop[l].at \in {"asked", "stream"},
         where = "ended" => stopping[loop[l].link[1]] # "no",
         l \notin linked \/ stopping[loop[l].link[1]] # "no",
         UNCHANGED <<enabled, remote, stopping, losses, disabled>>
  PROVE  IndInv'
<1>1. LoopsNumbered' /\ Moved(l, where)
  BY MoveFacts DEF IndInv, Places
<1>3. PICK k : k = loop[l].link
  OBVIOUS
<1>4. k \in Links
  BY <1>1, <1>3 DEF Moved
<1>5. linked' = linked \ {l} /\ entry' = [entry EXCEPT ![k] = NoEntry]
  BY <1>3 DEF Hangs
<1>6. StateTypes'
  <2>2. entry' \in [Links -> [kind : {"none", "connecting", "active"}, loop : 0..MaxLoops]]
    BY <1>5, NoEntryType DEF IndInv, StateTypes
  <2> QED
    BY <1>1, <1>5, <2>2 DEF IndInv, StateTypes, Moved
<1>7. /\ entry'[k].kind = "none"
      /\ \A j \in Links : j # k => entry'[j] = entry[j]
  BY <1>4, <1>5 DEF IndInv, StateTypes, NoEntry
<1>8. EntriesInv'
  <2> SUFFICES ASSUME NEW j \in Links
               PROVE /\ entry'[j].kind = "active" => /\ entry'[j].loop \in DOMAIN loop
                                                     /\ loop'[entry'[j].loop].link = j
                                                     /\ loop'[entry'[j].loop].at = "stream"
                     /\ (entry'[j].kind = "connecting" /\ stopping[j[1]] = "no") =>
                           \E x \in DOMAIN loop : loop'[x].link = j /\ loop'[x].at # "ended"
    BY <1>1 DEF EntriesInv, Moved
  <2>1. CASE j = k
    BY <1>7, <2>1
  <2>2. CASE j # k
    <3>1. entry'[j] = entry[j]
      BY <1>7, <2>2
    <3>2. ASSUME entry[j].kind = "active"
          PROVE  /\ entry[j].loop \in DOMAIN loop
                 /\ loop'[entry[j].loop].link = j
                 /\ loop'[entry[j].loop].at = "stream"
      BY <1>1, <1>3, <2>2, <3>2 DEF IndInv, EntriesInv, Moved
    <3>3. ASSUME entry[j].kind = "connecting", stopping[j[1]] = "no"
          PROVE  \E x \in DOMAIN loop : loop'[x].link = j /\ loop'[x].at # "ended"
      <4>1. PICK x \in DOMAIN loop : loop[x].link = j /\ loop[x].at # "ended"
        BY <3>3 DEF IndInv, EntriesInv
      <4> QED
        BY <1>1, <1>3, <2>2, <4>1 DEF Moved
    <3> QED
      BY <3>1, <3>2, <3>3
  <2> QED
    BY <2>1, <2>2
<1>9. CleanInv'
  <2>1. k[1] \in Masters
    BY <1>4 DEF Links
  <2>2. ~(losses = 0 /\ ~disabled)
    BY <1>3, <2>1 DEF IndInv, CleanInv
  <2> QED
    BY <2>2 DEF CleanInv
<1> QED
  BY <1>1, <1>6, <1>8, <1>9 DEF IndInv

(***************************************************************************)
(* ConnectToPeer starts a loop only for a link that has no entry, and so,  *)
(* before anything went wrong, only for one that has no loop.              *)
(***************************************************************************)
LEMMA ConnectStep ==
  ASSUME IndInv, NEW ks \in SUBSET Links, ConnectToPeers(ks),
         enabled' \in [Masters -> BOOLEAN], DOMAIN remote' = DOMAIN remote,
         UNCHANGED <<linked, stopping, losses, disabled>>
  PROVE  IndInv'
<1>1. PICK n \in Nat, m \in Nat : Connected(ks, n, m)
  BY ConnectFacts DEF IndInv
<1>2. /\ DOMAIN loop = 1..n /\ DOMAIN loop' = 1..(n + m)
      /\ \A l \in 1..n : l \in 1..(n + m)
      /\ \A l \in (n + 1)..(n + m) : l \in 1..(n + m)
      /\ \A l \in 1..(n + m) : l \in 1..n \/ l \in (n + 1)..(n + m)
      /\ n + m \in 0..MaxLoops
  BY <1>1, MultiMasterAssumption DEF Connected
<1>3. LoopsNumbered'
  BY <1>1, <1>2 DEF LoopsNumbered, Connected
<1>4. \A l \in DOMAIN loop : l \in DOMAIN loop' /\ loop'[l] = loop[l]
  BY <1>1, <1>2 DEF Connected
<1>5. /\ \A l \in DOMAIN loop' : loop'[l].link \in Links
      /\ \A l \in DOMAIN loop' : \/ l \in DOMAIN loop
                                 \/ loop'[l].link \in Missing(ks) /\ loop'[l].at = "starting"
      /\ \A l, j \in DOMAIN loop' : (l \notin DOMAIN loop /\ j \notin DOMAIN loop
                                      /\ loop'[l].link = loop'[j].link) => l = j
      /\ \A k \in Missing(ks) : \E l \in DOMAIN loop' : loop'[l].link = k /\ loop'[l].at = "starting"
  BY <1>1, <1>2 DEF Connected
<1>6. /\ \A k \in Missing(ks) : entry'[k].kind = "connecting"
      /\ \A k \in Links : k \notin Missing(ks) => entry'[k] = entry[k]
      /\ Missing(ks) \subseteq Links
      /\ \A k \in Links : k \in Missing(ks) => entry[k].kind = "none"
  <2>1. entry' = [k \in Links |-> IF k \in Missing(ks) THEN [kind |-> "connecting", loop |-> 0]
                                  ELSE entry[k]]
    BY DEF ConnectToPeers
  <2>2. /\ Missing(ks) \subseteq Links
        /\ \A k \in Links : k \in Missing(ks) => entry[k].kind = "none"
    BY DEF Missing
  <2> HIDE DEF Missing
  <2> QED
    BY <2>1, <2>2
<1>7. StateTypes'
  <2>1. [kind |-> "connecting", loop |-> 0]
          \in [kind : {"none", "connecting", "active"}, loop : 0..MaxLoops]
    <3>1. 0 \in 0..MaxLoops
      BY MultiMasterAssumption
    <3> QED
      BY <3>1
  <2>2. entry' \in [Links -> [kind : {"none", "connecting", "active"}, loop : 0..MaxLoops]]
    BY <2>1 DEF ConnectToPeers, IndInv, StateTypes
  <2> QED
    BY <1>4, <2>2 DEF IndInv, StateTypes
<1>8. EntriesInv'
  <2> SUFFICES ASSUME NEW k \in Links
               PROVE /\ entry'[k].kind = "active" => /\ entry'[k].loop \in DOMAIN loop'
                                                     /\ loop'[entry'[k].loop].link = k
                                                     /\ loop'[entry'[k].loop].at = "stream"
                     /\ (entry'[k].kind = "connecting" /\ stopping[k[1]] = "no") =>
                           \E x \in DOMAIN loop' : loop'[x].link = k /\ loop'[x].at # "ended"
    BY DEF EntriesInv
  <2>1. CASE k \in Missing(ks)
    BY <1>5, <1>6, <2>1
  <2>2. CASE k \notin Missing(ks)
    <3>1. entry'[k] = entry[k]
      BY <1>6, <2>2
    <3> QED
      BY <1>4, <3>1 DEF IndInv, EntriesInv
  <2> QED
    BY <2>1, <2>2
<1>9. CleanInv'
  <2> SUFFICES ASSUME losses = 0, ~disabled
               PROVE  /\ \A x \in Masters : stopping[x] = "no"
                      /\ \A x \in DOMAIN loop' : loop'[x].at \in {"asked", "stream"} => x \in linked
                      /\ \A x \in DOMAIN loop' : entry'[loop'[x].link].kind # "none"
                      /\ \A x, y \in DOMAIN loop' : loop'[x].link = loop'[y].link => x = y
    BY DEF CleanInv
  <2>1. \A x \in DOMAIN loop' : loop'[x].at \in {"asked", "stream"} => x \in linked
    BY <1>4, <1>5 DEF IndInv, CleanInv
  <2>2. \A x \in DOMAIN loop : loop[x].link \notin Missing(ks)
    BY <1>4, <1>5, <1>6 DEF IndInv, CleanInv
  <2>3. \A x \in DOMAIN loop' : entry'[loop'[x].link].kind # "none"
    BY <1>4, <1>5, <1>6, <2>2 DEF IndInv, CleanInv
  <2>4. ASSUME NEW x \in DOMAIN loop', NEW y \in DOMAIN loop', loop'[x].link = loop'[y].link
        PROVE  x = y
    <3>1. CASE x \in DOMAIN loop /\ y \in DOMAIN loop
      BY <1>4, <2>4, <3>1 DEF IndInv, CleanInv
    <3>2. CASE x \in DOMAIN loop /\ y \notin DOMAIN loop
      BY <1>4, <1>5, <2>2, <2>4, <3>2
    <3>3. CASE x \notin DOMAIN loop /\ y \in DOMAIN loop
      BY <1>4, <1>5, <2>2, <2>4, <3>3
    <3>4. CASE x \notin DOMAIN loop /\ y \notin DOMAIN loop
      BY <1>5, <2>4, <3>4
    <3> QED
      BY <3>1, <3>2, <3>3, <3>4
  <2> QED
    BY <2>1, <2>3, <2>4 DEF IndInv, CleanInv
<1> QED
  BY <1>3, <1>7, <1>8, <1>9 DEF IndInv

(***************************************************************************)
(* Enabling, CLUSTER MEET and the connection back go through ConnectToPeer.*)
(***************************************************************************)
LEMMA ConnectingSteps ==
  ASSUME IndInv,
         \/ \E n \in Masters : Enable(n)
         \/ \E k \in Links : MeetConnects(k)
         \/ \E l \in Loops : ConnectsBack(l)
  PROVE  IndInv'
<1>1. ASSUME NEW n \in Masters, Enable(n) PROVE IndInv'
  <2>1. {k \in Links : k[1] = n} \in SUBSET Links
    OBVIOUS
  <2>2. enabled' \in [Masters -> BOOLEAN]
    BY <1>1 DEF Enable, IndInv, StateTypes
  <2> QED
    BY <1>1, <2>1, <2>2, ConnectStep DEF Enable
<1>2. ASSUME NEW k \in Links, MeetConnects(k) PROVE IndInv'
  <2>1. {k} \in SUBSET Links
    OBVIOUS
  <2>2. enabled' \in [Masters -> BOOLEAN]
    BY <1>2 DEF MeetConnects, IndInv, StateTypes
  <2> QED
    BY <1>2, <2>1, <2>2, ConnectStep DEF MeetConnects
<1>3. ASSUME NEW l \in Loops, ConnectsBack(l) PROVE IndInv'
  <2>1. l \in DOMAIN remote /\ DOMAIN remote' = DOMAIN remote
    BY <1>3 DEF ConnectsBack, Handles
  <2>2. l \in DOMAIN loop
    BY <2>1 DEF IndInv, StateTypes
  <2>3. loop[l].link \in Links
    BY <2>2 DEF IndInv, LoopsNumbered
  <2>4. {<<PeerOf(l), OwnerOf(l)>>} \in SUBSET Links
    BY <2>3 DEF PeerOf, OwnerOf, Links
  <2>5. enabled' \in [Masters -> BOOLEAN]
    BY <1>3 DEF ConnectsBack, IndInv, StateTypes
  <2> QED
    BY <1>3, <2>1, <2>4, <2>5, ConnectStep DEF ConnectsBack
<1> QED
  BY <1>1, <1>2, <1>3

(***************************************************************************)
(* What handleReplPeer does besides connecting back, and a connection that *)
(* breaks.                                                                 *)
(***************************************************************************)
LEMMA RemoteSteps ==
  ASSUME IndInv, NEW l \in Loops,
         SendsSnapshot(l) \/ AddReplica(l) \/ RemoveReplica(l) \/ Break(l)
  PROVE  IndInv'
<1>1. ASSUME SendsSnapshot(l) \/ AddReplica(l) \/ RemoveReplica(l) PROVE IndInv'
  <2>1. /\ UNCHANGED <<enabled, entry, loop, linked, stopping, losses, switches, disabled>>
        /\ DOMAIN remote' = DOMAIN remote
    BY <1>1 DEF SendsSnapshot, AddReplica, RemoveReplica, Handles
  <2>2. StateTypes' /\ CleanInv'
    BY <2>1 DEF IndInv, StateTypes, CleanInv
  <2> QED
    BY <2>1, <2>2, LoopsStay
<1>2. ASSUME Break(l) PROVE IndInv'
  <2>1. StateTypes'
    BY <1>2 DEF Break, IndInv, StateTypes
  <2>2. CleanInv'
    BY <1>2 DEF Break, IndInv, StateTypes, CleanInv
  <2> QED
    BY <1>2, <2>1, <2>2, LoopsStay DEF Break
<1> QED
  BY <1>1, <1>2

(***************************************************************************)
(* Disabling and the steps of Stop: the entries go before the context is   *)
(* replaced, so a placeholder never outlives the loops that Stop ended.    *)
(***************************************************************************)
LEMMA StopSteps ==
  ASSUME IndInv, NEW n \in Masters,
         Disable(n) \/ StopCloses(n) \/ StopWaits(n) \/ StopResets(n)
  PROVE  IndInv'
<1>1. ASSUME Disable(n) PROVE IndInv'
  <2>1. StateTypes'
    BY <1>1 DEF Disable, StopStep, IndInv, StateTypes
  <2>2. CleanInv'
    BY <1>1 DEF Disable, CleanInv
  <2>3. \A i \in Masters : stopping'[i] = "no" => stopping[i] = "no"
    BY <1>1 DEF Disable, StopStep, IndInv, StateTypes
  <2> QED
    BY <1>1, <2>1, <2>2, <2>3, LoopsStay DEF Disable
<1>2. ASSUME NEW to \in {"closed", "waited", "no"}, stopping[n] # "no",
             stopping' = [stopping EXCEPT ![n] = to],
             linked' \subseteq linked, UNCHANGED <<enabled, loop, remote, losses, disabled>>,
             entry' \in [Links -> [kind : {"none", "connecting", "active"}, loop : 0..MaxLoops]]
      PROVE  StateTypes' /\ CleanInv'
  <2>1. StateTypes'
    BY <1>2 DEF IndInv, StateTypes
  <2>2. CleanInv'
    BY <1>2 DEF IndInv, CleanInv
  <2> QED
    BY <2>1, <2>2
<1>3. ASSUME StopCloses(n) \/ StopWaits(n) PROVE IndInv'
  <2>1. PICK to \in {"closed", "waited"} : stopping[n] # "no" /\ stopping' = [stopping EXCEPT ![n] = to]
    BY <1>3 DEF StopCloses, StopWaits, StopStep
  <2>2. linked' \subseteq linked /\ UNCHANGED <<enabled, entry, loop, remote, losses, disabled>>
    BY <1>3 DEF StopCloses, StopWaits
  <2>3. StateTypes' /\ CleanInv'
    BY <1>2, <2>1, <2>2 DEF IndInv, StateTypes
  <2>4. \A i \in Masters : stopping'[i] = "no" => stopping[i] = "no"
    BY <2>1 DEF IndInv, StateTypes
  <2> QED
    BY <2>2, <2>3, <2>4, LoopsStay
<1>4. ASSUME StopResets(n) PROVE IndInv'
  <2>1. /\ stopping[n] # "no" /\ stopping' = [stopping EXCEPT ![n] = "no"]
        /\ entry' = [k \in Links |-> IF k[1] = n THEN NoEntry ELSE entry[k]]
        /\ UNCHANGED <<enabled, loop, linked, remote, losses, disabled>>
    BY <1>4 DEF StopResets, StopStep
  <2>2. entry' \in [Links -> [kind : {"none", "connecting", "active"}, loop : 0..MaxLoops]]
    BY <2>1, NoEntryType DEF IndInv, StateTypes
  <2>3. StateTypes' /\ CleanInv'
    BY <1>2, <2>1, <2>2
  <2>4. LoopsNumbered'
    BY <2>1 DEF IndInv, LoopsNumbered
  <2>5. EntriesInv'
    <3> SUFFICES ASSUME NEW k \in Links
                 PROVE /\ entry'[k].kind = "active" => /\ entry'[k].loop \in DOMAIN loop
                                                       /\ loop[entry'[k].loop].link = k
                                                       /\ loop[entry'[k].loop].at = "stream"
                       /\ (entry'[k].kind = "connecting" /\ stopping'[k[1]] = "no") =>
                             \E x \in DOMAIN loop : loop[x].link = k /\ loop[x].at # "ended"
      BY <2>1 DEF EntriesInv
    <3>1. CASE k[1] = n
      <4>1. entry'[k].kind = "none"
        BY <2>1, <3>1, NoEntryType
      <4> QED
        BY <4>1
    <3>2. CASE k[1] # n
      <4>1. entry'[k] = entry[k] /\ k[1] \in Masters
        BY <2>1, <3>2 DEF Links
      <4>2. stopping'[k[1]] = stopping[k[1]]
        BY <2>1, <3>2, <4>1 DEF IndInv, StateTypes
      <4> QED
        BY <4>1, <4>2 DEF IndInv, EntriesInv
    <3> QED
      BY <3>1, <3>2
  <2> QED
    BY <2>3, <2>4, <2>5 DEF IndInv
<1> QED
  BY <1>1, <1>3, <1>4

(***************************************************************************)
(* The steps of peerLoop.                                                  *)
(***************************************************************************)
LEMMA LoopSteps ==
  ASSUME IndInv, NEW l \in Loops,
         \/ LoopStarts(l) \/ LoopEnds(l) \/ DialFails(l) \/ PauseEnds(l)
         \/ SyncCancelled(l) \/ SyncBroken(l)
  PROVE  IndInv'
<1>1. ASSUME LoopStarts(l) PROVE IndInv'
  BY <1>1, PlainMove DEF LoopStarts, At, IndInv, StateTypes
<1>2. ASSUME LoopEnds(l) PROVE IndInv'
  BY <1>2, PlainMove DEF LoopEnds, At, Cancelled, OwnerOf, IndInv, StateTypes
<1>3. ASSUME DialFails(l) PROVE IndInv'
  <2>1. losses' \in Nat /\ (losses' = 0 => losses = 0)
    BY <1>3 DEF DialFails, IndInv, StateTypes
  <2> QED
    BY <1>3, <2>1, PlainMove DEF DialFails, At
<1>4. ASSUME PauseEnds(l) PROVE IndInv'
  <2>1. PICK w \in {"top", "pause", "ended"} :
          Goes(l, w) /\ (w = "ended" => Cancelled(OwnerOf(l)))
    BY <1>4 DEF PauseEnds
  <2> QED
    BY <1>4, <2>1, PlainMove DEF PauseEnds, At, Cancelled, OwnerOf, IndInv, StateTypes
<1>5. ASSUME SyncCancelled(l) PROVE IndInv'
  BY <1>5, HangsStep DEF SyncCancelled, At, Cancelled, OwnerOf
<1>6. ASSUME SyncBroken(l) PROVE IndInv'
  <2>1. PICK w \in {"top", "pause", "ended"} :
          Goes(l, w) /\ (w = "ended" => Cancelled(OwnerOf(l)))
    BY <1>6 DEF SyncBroken, AfterError
  <2> QED
    BY <1>6, <2>1, HangsStep DEF SyncBroken, At, Cancelled, OwnerOf
<1> QED
  BY <1>1, <1>2, <1>3, <1>4, <1>5, <1>6

(***************************************************************************)
(* Nothing is connected at the start.                                      *)
(***************************************************************************)
LEMMA InitIndInv == MultiMasterInit => IndInv
<1> SUFFICES ASSUME MultiMasterInit PROVE IndInv
  OBVIOUS
<1>1. LoopsNumbered
  <2>1. loop \in [1..0 -> [link : Links, at : Places]]
    BY DEF MultiMasterInit
  <2>2. 0 \in 0..MaxLoops
    BY MultiMasterAssumption
  <2> QED
    BY <2>1, <2>2 DEF LoopsNumbered
<1>2. StateTypes
  BY NoEntryType DEF MultiMasterInit, StateTypes
<1>3. EntriesInv
  <2>1. \A k \in Links : entry[k].kind = "none"
    BY NoEntryType DEF MultiMasterInit
  <2> QED
    BY <2>1 DEF EntriesInv
<1>4. CleanInv
  BY DEF MultiMasterInit, CleanInv
<1> QED
  BY <1>1, <1>2, <1>3, <1>4 DEF IndInv

(***************************************************************************)
(* Every step keeps the inductive invariant.                               *)
(***************************************************************************)
LEMMA NextIndInv == IndInv /\ [MultiMasterNext]_mmVars => IndInv'
<1> SUFFICES ASSUME IndInv, [MultiMasterNext]_mmVars PROVE IndInv'
  OBVIOUS
<1>1. CASE UNCHANGED mmVars
  <2>1. StateTypes' /\ CleanInv'
    BY <1>1 DEF mmVars, IndInv, StateTypes, CleanInv
  <2> QED
    BY <1>1, <2>1, LoopsStay DEF mmVars
<1>2. ASSUME NEW n \in Masters,
             Enable(n) \/ Disable(n) \/ StopCloses(n) \/ StopWaits(n) \/ StopResets(n)
      PROVE  IndInv'
  BY <1>2, ConnectingSteps, StopSteps
<1>3. ASSUME NEW k \in Links, MeetConnects(k) PROVE IndInv'
  BY <1>3, ConnectingSteps
<1>4. ASSUME NEW l \in Loops,
             \/ LoopStarts(l) \/ LoopEnds(l) \/ DialFails(l) \/ Dials(l) \/ Registers(l)
             \/ SyncCancelled(l) \/ SyncBroken(l) \/ PauseEnds(l) \/ Break(l)
             \/ SendsSnapshot(l) \/ AddReplica(l) \/ ConnectsBack(l) \/ RemoveReplica(l)
      PROVE  IndInv'
  BY <1>4, LoopSteps, DialsStep, RegistersStep, RemoteSteps, ConnectingSteps
<1> QED
  BY <1>1, <1>2, <1>3, <1>4 DEF MultiMasterNext

(***************************************************************************)
(* A set of which any two members are equal has at most one.               *)
(***************************************************************************)
LEMMA AtMostOne ==
  ASSUME NEW S, \A x, y \in S : x = y
  PROVE  Cardinality(S) <= 1
<1>1. CASE S = {}
  BY <1>1, FS_EmptySet
<1>2. CASE S # {}
  <2>1. PICK x : x \in S
    BY <1>2
  <2>2. S = {x}
    BY <2>1
  <2> QED
    BY <2>2, FS_Singleton
<1> QED
  BY <1>1, <1>2

(***************************************************************************)
(* In any order of ENABLE, MEET, connections back, lost connections,       *)
(* DISABLE and the steps of Stop an entry in MultiMaster.peers has a loop  *)
(* behind it, an active one a loop that is reading. That no link has two   *)
(* loops holds up to the first lost connection or DISABLE only:            *)
(* syncWithPeer's cleanup removes the entry whoever put it there, so       *)
(* afterwards a second loop can be started beside one that is pausing.     *)
(***************************************************************************)
THEOREM EntriesHaveLoops == MultiMasterSpec => []MultiMasterInv
<1>1. IndInv => MultiMasterInv
  <2> SUFFICES ASSUME IndInv PROVE MultiMasterInv
    OBVIOUS
  <2>1. PICK n \in 0..MaxLoops : loop \in [1..n -> [link : Links, at : Places]]
    BY DEF IndInv, LoopsNumbered
  <2>2. MultiMasterTypeOK
    <3>1. 1..n \subseteq 1..MaxLoops
      BY MultiMasterAssumption
    <3> QED
      BY <2>1, <3>1 DEF IndInv, StateTypes, MultiMasterTypeOK, Loops, Places
  <2>3. EntryBacked
    BY DEF IndInv, EntriesInv, EntryBacked, At, Cancelled, Live
  <2>4. OneLoopPerPeer
    <3> SUFFICES ASSUME losses = 0, ~disabled, NEW k \in Links
                 PROVE  Cardinality(Live(k)) <= 1
      BY DEF OneLoopPerPeer
    <3>1. \A x, y \in Live(k) : x = y
      BY DEF Live, IndInv, CleanInv
    <3> QED
      BY <3>1, AtMostOne
  <2> QED
    BY <2>2, <2>3, <2>4 DEF MultiMasterInv
<1> QED
  BY <1>1, InitIndInv, NextIndInv, PTL DEF MultiMasterSpec

-----------------------------------------------------------------------------
(***************************************************************************)
(* CLUSTER VIEWS                                                           *)
(***************************************************************************)

(***************************************************************************)
(* The IDs are finitely many and strictly ordered.                         *)
(***************************************************************************)
LEMMA NodesOrdered ==
  /\ IsFiniteSet(Nodes)
  /\ \A a, b \in Nodes : a # b => Sooner(a, b) \/ Sooner(b, a)
  /\ \A a, b, c : Sooner(a, b) /\ Sooner(b, c) => Sooner(a, c)
  /\ \A a : ~Sooner(a, a)
<1>1. PICK n \in Nat : DOMAIN NodeOrder = 1..n
  BY ClusterAssumption, LenProperties
<1>2. \A x, y \in 1..n : NodeOrder[x] = NodeOrder[y] => x = y
  BY <1>1, ClusterAssumption DEF IsInjective
<1>3. Nodes = {NodeOrder[x] : x \in 1..n}
  BY <1>1 DEF Nodes, Range
<1>4. IsFiniteSet(Nodes)
  <2>1. IsFiniteSet(1..n)
    BY FS_Interval
  <2> DEFINE f == [x \in 1..n |-> NodeOrder[x]]
  <2>2. f \in Surjection(1..n, Nodes)
    BY <1>3 DEF Surjection
  <2> QED
    BY <2>1, <2>2, FS_Surjection
<1>5. ASSUME NEW a \in Nodes, NEW b \in Nodes, a # b PROVE Sooner(a, b) \/ Sooner(b, a)
  <2>1. PICK x \in 1..n : NodeOrder[x] = a
    BY <1>3
  <2>2. PICK y \in 1..n : NodeOrder[y] = b
    BY <1>3
  <2>3. x < y \/ y < x
    BY <1>5, <2>1, <2>2
  <2> QED
    BY <1>1, <2>1, <2>2, <2>3 DEF Sooner
<1>6. ASSUME NEW a, NEW b, NEW c, Sooner(a, b), Sooner(b, c) PROVE Sooner(a, c)
  <2>1. PICK x, y \in 1..n : x < y /\ NodeOrder[x] = a /\ NodeOrder[y] = b
    BY <1>1, <1>6 DEF Sooner
  <2>2. PICK z, w \in 1..n : z < w /\ NodeOrder[z] = b /\ NodeOrder[w] = c
    BY <1>1, <1>6 DEF Sooner
  <2>3. y = z
    BY <1>2, <2>1, <2>2
  <2>4. x < w
    BY <2>1, <2>2, <2>3
  <2> QED
    BY <1>1, <2>1, <2>2, <2>4 DEF Sooner
<1>7. ASSUME NEW a, Sooner(a, a) PROVE FALSE
  <2>1. PICK x, y \in 1..n : x < y /\ NodeOrder[x] = a /\ NodeOrder[y] = a
    BY <1>1, <1>7 DEF Sooner
  <2>2. x = y
    BY <1>2, <2>1
  <2> QED
    BY <2>1, <2>2
<1> QED
  BY <1>4, <1>5, <1>6, <1>7

(***************************************************************************)
(* B[a] are the members of the finite set A before a in some order, and    *)
(* P[a] is their number.                                                   *)
(***************************************************************************)
Ordered(A, B, P) ==
  /\ IsFiniteSet(A) /\ A # {}
  /\ \A a \in A : B[a] \subseteq A /\ a \notin B[a]
  /\ \A a, b \in A : a # b => a \in B[b] \/ b \in B[a]
  /\ \A a, b \in A : a \in B[b] => B[a] \subseteq B[b]
  /\ \A a \in A : P[a] = Cardinality(B[a])

Numbered(A, P) ==
  /\ Cardinality(A) \in Nat /\ Cardinality(A) > 0
  /\ \A a \in A : P[a] \in 0..(Cardinality(A) - 1)
  /\ \A a, b \in A : P[a] = P[b] => a = b
  /\ \A j \in 0..(Cardinality(A) - 1) : \E a \in A : P[a] = j

(***************************************************************************)
(* Such numbers begin at 0, and each member has one of its own.            *)
(***************************************************************************)
LEMMA PlacesNumber ==
  ASSUME NEW A, NEW B, NEW P, Ordered(A, B, P)
  PROVE  Numbered(A, P)
<1> USE DEF Ordered
<1>1. PICK n \in Nat : n = Cardinality(A)
  BY FS_CardinalityType
<1>2. n > 0
  BY <1>1, FS_EmptySet
<1>3. ASSUME NEW a \in A PROVE IsFiniteSet(B[a]) /\ Cardinality(B[a]) \in Nat
  <2>1. IsFiniteSet(B[a])
    BY FS_Subset
  <2> QED
    BY <2>1, FS_CardinalityType
<1>4. ASSUME NEW a \in A PROVE P[a] \in 0..(n - 1)
  <2>1. PICK F : F = B[a] /\ F \subseteq A /\ F # A
    OBVIOUS
  <2>2. Cardinality(F) <= Cardinality(A) /\ (Cardinality(F) = Cardinality(A) => F = A)
    BY <2>1, FS_Subset
  <2>3. PICK c \in Nat : c = Cardinality(F)
    BY <1>3, <2>1
  <2> QED
    BY <1>1, <2>1, <2>2, <2>3
<1>5. ASSUME NEW a \in A, NEW b \in A, a \in B[b] PROVE P[a] < P[b]
  <2>1. PICK F : F = B[a]
    OBVIOUS
  <2>2. PICK G : G = B[b]
    OBVIOUS
  <2>3. F \subseteq G /\ F # G /\ IsFiniteSet(G)
    BY <1>3, <1>5, <2>1, <2>2
  <2>4. Cardinality(F) <= Cardinality(G) /\ (Cardinality(F) = Cardinality(G) => F = G)
    BY <2>3, FS_Subset
  <2>5. Cardinality(F) \in Nat /\ Cardinality(G) \in Nat /\ P[a] = Cardinality(F) /\ P[b] = Cardinality(G)
    BY <1>3, <2>1, <2>2
  <2> QED
    BY <2>3, <2>4, <2>5
<1>6. ASSUME NEW a \in A, NEW b \in A, P[a] = P[b] PROVE a = b
  <2>1. P[a] \in Nat /\ P[b] \in Nat
    BY <1>4
  <2>2. a \notin B[b] /\ b \notin B[a]
    BY <1>5, <1>6, <2>1
  <2> QED
    BY <2>2
<1>7. ASSUME NEW j \in 0..(n - 1) PROVE \E a \in A : P[a] = j
  <2> DEFINE f == [a \in A |-> P[a]]
  <2>1. f \in Injection(A, 0..(n - 1))
    BY <1>4, <1>6 DEF Injection, IsInjective
  <2>2. IsFiniteSet(0..(n - 1)) /\ Cardinality(0..(n - 1)) = n
    <3>1. 0 \in Int /\ n - 1 \in Int
      OBVIOUS
    <3>2. IsFiniteSet(0..(n - 1)) /\ Cardinality(0..(n - 1)) = IF 0 > n - 1 THEN 0 ELSE (n - 1) - 0 + 1
      BY <3>1, FS_Interval
    <3> QED
      BY <1>2, <3>2
  <2>3. f \in Surjection(A, 0..(n - 1))
    <3> HIDE DEF f
    <3> QED
      BY <1>1, <2>1, <2>2, FS_Injection
  <2> QED
    BY <2>3 DEF Surjection
<1> QED
  BY <1>1, <1>2, <1>4, <1>6, <1>7 DEF Numbered

(***************************************************************************)
(* A list of entries whose IDs are those of nodes.                         *)
(***************************************************************************)
Listed(v, l) == l \in Nat /\ \A i \in 1..l : v[i].id \in Nodes

(***************************************************************************)
(* The entries of a list are strictly ordered.                             *)
(***************************************************************************)
LEMMA EntriesOrdered ==
  ASSUME NEW v, NEW l, Listed(v, l)
  PROVE  /\ \A i, k \in 1..l : i # k => Earlier(v, i, k) \/ Earlier(v, k, i)
         /\ \A i, j, k \in 1..l : Earlier(v, i, j) /\ Earlier(v, j, k) => Earlier(v, i, k)
         /\ \A i \in 1..l : ~Earlier(v, i, i)
<1>1. l \in Nat /\ \A i \in 1..l : v[i].id \in Nodes
  BY DEF Listed
<1>2. ASSUME NEW i \in 1..l, NEW k \in 1..l, i # k PROVE Earlier(v, i, k) \/ Earlier(v, k, i)
  <2>1. CASE v[i].id = v[k].id
    <3>1. i < k \/ k < i
      BY <1>1, <1>2
    <3> QED
      BY <2>1, <3>1 DEF Earlier
  <2>2. CASE v[i].id # v[k].id
    <3>1. Sooner(v[i].id, v[k].id) \/ Sooner(v[k].id, v[i].id)
      BY <1>1, <2>2, NodesOrdered
    <3> QED
      BY <3>1 DEF Earlier
  <2> QED
    BY <2>1, <2>2
<1>3. ASSUME NEW i \in 1..l, NEW j \in 1..l, NEW k \in 1..l, Earlier(v, i, j), Earlier(v, j, k)
      PROVE  Earlier(v, i, k)
  <2>1. PICK a, b, c : a = v[i].id /\ b = v[j].id /\ c = v[k].id
    OBVIOUS
  <2>2. (Sooner(a, b) \/ (a = b /\ i < j)) /\ (Sooner(b, c) \/ (b = c /\ j < k))
    BY <1>3, <2>1 DEF Earlier
  <2>3. Sooner(a, b) /\ Sooner(b, c) => Sooner(a, c)
    BY NodesOrdered
  <2>4. i < j /\ j < k => i < k
    BY <1>1
  <2>5. Sooner(a, c) \/ (a = c /\ i < k)
    BY <2>2, <2>3, <2>4
  <2> QED
    BY <2>1, <2>5 DEF Earlier
<1>4. ASSUME NEW i \in 1..l PROVE ~Earlier(v, i, i)
  <2>1. ~Sooner(v[i].id, v[i].id)
    BY NodesOrdered
  <2>2. ~(i < i)
    BY <1>1
  <2> QED
    BY <2>1, <2>2 DEF Earlier
<1> QED
  BY <1>2, <1>3, <1>4

(***************************************************************************)
(* Rank numbers some entries of a list from 0, each with its own number.   *)
(***************************************************************************)
LEMMA RankNumbers ==
  ASSUME NEW v, NEW l, Listed(v, l), NEW A \in SUBSET (1..l), A # {}
  PROVE  /\ Cardinality(A) \in Nat /\ Cardinality(A) > 0
         /\ \A a \in A : Rank(v, A, a) \in 0..(Cardinality(A) - 1)
         /\ \A a, b \in A : Rank(v, A, a) = Rank(v, A, b) => a = b
         /\ \A j \in 0..(Cardinality(A) - 1) : \E a \in A : Rank(v, A, a) = j
<1>1. IsFiniteSet(A)
  <2>1. IsFiniteSet(1..l)
    BY FS_Interval DEF Listed
  <2> QED
    BY <2>1, FS_Subset
<1>2. PICK B : B = [a \in A |-> {i \in A : Earlier(v, i, a)}]
  OBVIOUS
<1>3. PICK P : P = [a \in A |-> Rank(v, A, a)]
  OBVIOUS
<1>4. \A a \in A : B[a] \subseteq A /\ a \notin B[a]
  BY <1>2, EntriesOrdered
<1>5. \A a, b \in A : a # b => a \in B[b] \/ b \in B[a]
  BY <1>2, EntriesOrdered
<1>6. \A a, b \in A : a \in B[b] => B[a] \subseteq B[b]
  BY <1>2, EntriesOrdered
<1>7. \A a \in A : P[a] = Cardinality(B[a])
  BY <1>2, <1>3 DEF Rank
<1>8. Ordered(A, B, P)
  BY <1>1, <1>4, <1>5, <1>6, <1>7 DEF Ordered
<1>9. Numbered(A, P)
  BY <1>8, PlacesNumber
<1>10. \A a \in A : P[a] = Rank(v, A, a)
  BY <1>3
<1> QED
  BY <1>9, <1>10 DEF Numbered

-----------------------------------------------------------------------------
(***************************************************************************)
(* The slots of the j-th of k nodes.                                       *)
(***************************************************************************)
FirstSlot(k, j) == j * (SlotCount \div k)
LastSlot(k, j) == IF j = k - 1 THEN SlotCount - 1 ELSE (j + 1) * (SlotCount \div k) - 1

(***************************************************************************)
(* The ranges lie in the slots.                                            *)
(***************************************************************************)
LEMMA SlotRanges ==
  ASSUME NEW k \in Nat, k > 0
  PROVE  /\ \A j \in 0..(k - 1) : FirstSlot(k, j) \in 0..(SlotCount - 1)
         /\ \A j \in 0..(k - 1) : LastSlot(k, j) \in -1..(SlotCount - 1)
<1>1. PICK n \in Nat : n = SlotCount /\ n > 0
  BY ClusterAssumption
<1>2. PICK w \in Nat : w = n \div k /\ k * w <= n
  OBVIOUS
<1>3. ASSUME NEW j \in 0..(k - 1)
      PROVE  j * w \in Nat /\ j * w <= n - 1 /\ (j # k - 1 => (j + 1) * w \in Nat /\ (j + 1) * w <= n)
  <2>1. CASE w = 0
    BY <1>1, <2>1
  <2>2. CASE w > 0
    <3>1. j * w \in Nat /\ j * w <= (k - 1) * w
      BY <2>2
    <3>2. (k - 1) * w = k * w - w
      OBVIOUS
    <3>3. j * w <= n - 1
      BY <1>2, <2>2, <3>1, <3>2
    <3>4. (j + 1) * w \in Nat /\ (j + 1) * w <= k * w
      BY <2>2
    <3> QED
      BY <1>2, <3>1, <3>3, <3>4
  <2> QED
    BY <2>1, <2>2
<1>4. ASSUME NEW j \in 0..(k - 1) PROVE FirstSlot(k, j) \in 0..(n - 1) /\ LastSlot(k, j) \in -1..(n - 1)
  <2>1. FirstSlot(k, j) = j * w
    BY <1>1, <1>2 DEF FirstSlot
  <2>2. LastSlot(k, j) = IF j = k - 1 THEN n - 1 ELSE (j + 1) * w - 1
    BY <1>1, <1>2 DEF LastSlot
  <2>3. CASE j = k - 1
    BY <1>1, <1>3, <2>1, <2>2, <2>3
  <2>4. CASE j # k - 1
    <3>1. PICK z \in Nat : z = (j + 1) * w /\ z <= n
      BY <1>3, <2>4
    <3> QED
      BY <1>1, <1>3, <2>1, <2>2, <2>4, <3>1
  <2> QED
    BY <2>3, <2>4
<1> QED
  BY <1>1, <1>4

(***************************************************************************)
(* Every slot is that of exactly one of k nodes.                           *)
(***************************************************************************)
Falls(slot, k, j) ==
  \A i \in 0..(k - 1) : FirstSlot(k, i) <= slot /\ slot <= LastSlot(k, i) <=> i = j

LEMMA OneOfThem ==
  ASSUME NEW k \in Nat, k > 0, NEW slot \in Slots
  PROVE  \E j \in 0..(k - 1) : Falls(slot, k, j)
<1> USE DEF Falls
<1>1. PICK n \in Nat : n = SlotCount /\ n > 0
  BY ClusterAssumption
<1>2. PICK w \in Nat : w = n \div k /\ k * w <= n
  OBVIOUS
<1>3. slot \in Nat /\ slot < n
  BY <1>1 DEF Slots
<1>4. ASSUME NEW i \in 0..(k - 1)
      PROVE  /\ FirstSlot(k, i) = i * w
             /\ LastSlot(k, i) = IF i = k - 1 THEN n - 1 ELSE (i + 1) * w - 1
  BY <1>1, <1>2 DEF FirstSlot, LastSlot
<1>5. CASE w = 0
  <2>1. ASSUME NEW i \in 0..(k - 1)
        PROVE  FirstSlot(k, i) <= slot /\ slot <= LastSlot(k, i) <=> i = k - 1
    <3>1. i * w = 0 /\ (i + 1) * w = 0
      BY <1>5
    <3> QED
      BY <1>3, <1>4, <3>1
  <2> QED
    BY <2>1
<1>6. CASE w > 0
  <2>1. PICK d \in Nat : d = slot \div w /\ d * w <= slot /\ slot < (d + 1) * w
    BY <1>3, <1>6
  <2>2. PICK j \in 0..(k - 1) : j = IF d < k - 1 THEN d ELSE k - 1
    OBVIOUS
  <2>3. ASSUME NEW i \in 0..(k - 1)
        PROVE  FirstSlot(k, i) <= slot /\ slot <= LastSlot(k, i) <=> i = j
    <3>1. i * w <= slot <=> i <= d
      BY <1>3, <1>6, <2>1
    <3>2. slot < (i + 1) * w <=> d <= i
      BY <1>3, <1>6, <2>1
    <3>3. PICK x \in Nat : x = i * w
      OBVIOUS
    <3>4. PICK y \in Nat : y = (i + 1) * w
      OBVIOUS
    <3>5. FirstSlot(k, i) = x /\ LastSlot(k, i) = IF i = k - 1 THEN n - 1 ELSE y - 1
      BY <1>4, <3>3, <3>4
    <3>6. (x <= slot <=> i <= d) /\ (slot < y <=> d <= i)
      BY <3>1, <3>2, <3>3, <3>4
    <3> QED
      BY <1>3, <2>2, <3>5, <3>6
  <2> QED
    BY <2>3
<1> QED
  BY <1>5, <1>6

-----------------------------------------------------------------------------
ViewEntries ==
  [id : Nodes, addr : Addresses, start : -1..(SlotCount - 1), end : -1..(SlotCount - 1),
   state : {"online", "failing", "offline"}, recent : BOOLEAN]

(***************************************************************************)
(* The ranges that the entries in A divide the slots into.                 *)
(***************************************************************************)
LEMMA RangeIs ==
  ASSUME NEW v, NEW l, Listed(v, l), NEW A \in SUBSET (1..l), A # {}
  PROVE  /\ \A a : a \notin A => RangeOf(v, A, a).start = -1 /\ RangeOf(v, A, a).end = -1
         /\ \A a \in A : /\ RangeOf(v, A, a).start = FirstSlot(Cardinality(A), Rank(v, A, a))
                         /\ RangeOf(v, A, a).end = LastSlot(Cardinality(A), Rank(v, A, a))
         /\ \A a \in A : RangeOf(v, A, a).start \in 0..(SlotCount - 1)
         /\ \A a : RangeOf(v, A, a).start \in -1..(SlotCount - 1)
         /\ \A a : RangeOf(v, A, a).end \in -1..(SlotCount - 1)
<1>1. SlotCount \in Nat /\ SlotCount > 0
  BY ClusterAssumption
<1>2. PICK k \in Nat : k = Cardinality(A) /\ k > 0
  BY RankNumbers
<1>3. ASSUME NEW a, a \notin A PROVE RangeOf(v, A, a).start = -1 /\ RangeOf(v, A, a).end = -1
  BY <1>3 DEF RangeOf
<1>4. ASSUME NEW a \in A
      PROVE  /\ RangeOf(v, A, a).start = FirstSlot(k, Rank(v, A, a))
             /\ RangeOf(v, A, a).end = LastSlot(k, Rank(v, A, a))
  BY <1>2 DEF RangeOf, FirstSlot, LastSlot
<1>5. ASSUME NEW a \in A
      PROVE  RangeOf(v, A, a).start \in 0..(SlotCount - 1) /\ RangeOf(v, A, a).end \in -1..(SlotCount - 1)
  <2>1. PICK j \in 0..(k - 1) : j = Rank(v, A, a)
    BY <1>2, RankNumbers
  <2>2. FirstSlot(k, j) \in 0..(SlotCount - 1) /\ LastSlot(k, j) \in -1..(SlotCount - 1)
    BY <1>2, SlotRanges
  <2> QED
    BY <1>4, <2>1, <2>2
<1>6. ASSUME NEW a
      PROVE  RangeOf(v, A, a).start \in -1..(SlotCount - 1) /\ RangeOf(v, A, a).end \in -1..(SlotCount - 1)
  <2>1. CASE a \in A
    BY <1>1, <1>5, <2>1
  <2>2. CASE a \notin A
    <3>1. -1 \in -1..(SlotCount - 1)
      BY <1>1
    <3> QED
      BY <1>3, <2>2, <3>1
  <2> QED
    BY <2>1, <2>2
<1> QED
  BY <1>2, <1>3, <1>4, <1>5, <1>6

(***************************************************************************)
(* Exactly one of the entries in A has a slot: the one whose number says   *)
(* so, and that number depends on how many there are.                      *)
(***************************************************************************)
LEMMA OneHolder ==
  ASSUME NEW v, NEW l, Listed(v, l), NEW A \in SUBSET (1..l), A # {}, NEW slot \in Slots,
         NEW k \in Nat, k = Cardinality(A), NEW j \in 0..(k - 1),
         Falls(slot, k, j)
  PROVE  \E a \in A : Rank(v, A, a) = j /\ \A b : Holds(RangeOf(v, A, b), slot) <=> b = a
<1>1. k > 0
  BY RankNumbers
<1>2. PICK a \in A : Rank(v, A, a) = j
  BY <1>1, RankNumbers
<1>3. ASSUME NEW b PROVE Holds(RangeOf(v, A, b), slot) <=> b = a
  <2>1. CASE b \in A
    <3>1. PICK i \in 0..(k - 1) : i = Rank(v, A, b)
      BY <1>1, <2>1, RankNumbers
    <3>2. RangeOf(v, A, b).start = FirstSlot(k, i) /\ RangeOf(v, A, b).end = LastSlot(k, i)
      BY <1>1, <2>1, <3>1, RangeIs
    <3>3. Holds(RangeOf(v, A, b), slot) <=> i = j
      BY <3>2 DEF Holds, Falls
    <3>4. i = j <=> b = a
      BY <1>2, <2>1, <3>1, RankNumbers
    <3> QED
      BY <3>3, <3>4
  <2>2. CASE b \notin A
    <3>1. RangeOf(v, A, b).end = -1
      BY <2>2, RangeIs
    <3>2. ~(slot <= -1)
      BY ClusterAssumption DEF Slots
    <3> QED
      BY <2>2, <3>1, <3>2 DEF Holds
  <2> QED
    BY <2>1, <2>2
<1> QED
  BY <1>2, <1>3

-----------------------------------------------------------------------------
(***************************************************************************)
(* A list of entries.                                                      *)
(***************************************************************************)
Roster(v) == v \in Seq(ViewEntries)

(***************************************************************************)
(* What is known of a list of entries.                                     *)
(***************************************************************************)
LEMMA RosterFacts ==
  ASSUME NEW v, Roster(v)
  PROVE  /\ Len(v) \in Nat /\ DOMAIN v = 1..Len(v) /\ Listed(v, Len(v))
         /\ \A i \in 1..Len(v) : v[i] \in ViewEntries
         /\ IDsIn(v) \subseteq Nodes
<1>1. Len(v) \in Nat /\ DOMAIN v = 1..Len(v)
  BY LenProperties DEF Roster
<1>2. \A i \in 1..Len(v) : v[i] \in ViewEntries
  BY ElementOfSeq DEF Roster
<1>3. \A i \in 1..Len(v) : v[i].id \in Nodes
  BY <1>2 DEF ViewEntries
<1> QED
  BY <1>1, <1>2, <1>3 DEF Listed, IDsIn

(***************************************************************************)
(* An ID that is in the list has a last entry, which is the one that       *)
(* EntryOf returns.                                                        *)
(***************************************************************************)
LEMMA LastEntry ==
  ASSUME NEW v, Roster(v), NEW n
  PROVE  /\ n \in IDsIn(v) => \E k \in 1..Len(v) : IsLast(v, n, k)
         /\ \A k \in 1..Len(v) : IsLast(v, n, k) => EntryOf(v, n) = v[k] /\ n \in IDsIn(v)
<1>1. PICK l \in Nat : l = Len(v) /\ DOMAIN v = 1..l
  BY RosterFacts
<1>2. ASSUME n \in IDsIn(v) PROVE \E k \in 1..l : IsLast(v, n, k)
  <2> DEFINE T == {x \in 0..l : \E i \in 1..l : v[i].id = n /\ x = l - i}
  <2>1. PICK i \in 1..l : v[i].id = n
    BY <1>1, <1>2 DEF IDsIn
  <2>2. l - i \in T
    BY <2>1
  <2>3. T \in SUBSET Nat /\ T # {}
    <3>1. T \subseteq Nat
      OBVIOUS
    <3> HIDE DEF T
    <3> QED
      BY <2>2, <3>1
  <2>4. PICK x \in T : \A y \in T : x <= y
    BY <2>3, LeastNumber
  <2>5. PICK k \in 1..l : v[k].id = n /\ x = l - k
    BY <2>4
  <2>6. ASSUME NEW h \in 1..l, v[h].id = n PROVE h <= k
    <3>1. l - h \in T
      BY <2>6
    <3>2. x <= l - h
      BY <2>4, <3>1
    <3> QED
      BY <2>5, <3>2
  <2> QED
    BY <1>1, <2>5, <2>6 DEF IsLast
<1>3. ASSUME NEW k \in 1..l, IsLast(v, n, k) PROVE EntryOf(v, n) = v[k] /\ n \in IDsIn(v)
  <2>1. ASSUME NEW i \in 1..l, IsLast(v, n, i) PROVE i = k
    <3>1. i <= k /\ k <= i
      BY <1>1, <1>3, <2>1 DEF IsLast
    <3> QED
      BY <3>1
  <2>2. PICK i : i = CHOOSE j \in DOMAIN v : IsLast(v, n, j)
    OBVIOUS
  <2>3. i \in 1..l /\ IsLast(v, n, i)
    BY <1>1, <1>3, <2>2
  <2>4. i = k
    BY <2>1, <2>3
  <2>5. EntryOf(v, n) = v[i]
    BY <2>2 DEF EntryOf
  <2>6. v[k].id = n
    BY <1>3 DEF IsLast
  <2> QED
    BY <1>1, <2>4, <2>5, <2>6 DEF IDsIn
<1> QED
  BY <1>1, <1>2, <1>3

(***************************************************************************)
(* Ranges are a matter of the IDs.                                         *)
(***************************************************************************)
LEMMA SameRanges ==
  ASSUME NEW l, NEW v, NEW w, \A i \in 1..l : w[i].id = v[i].id, NEW A \in SUBSET (1..l)
  PROVE  \A i \in 1..l : RangeOf(w, A, i) = RangeOf(v, A, i)
<1> SUFFICES ASSUME NEW i \in 1..l PROVE RangeOf(w, A, i) = RangeOf(v, A, i)
  OBVIOUS
<1>1. ASSUME NEW j \in A PROVE Earlier(w, j, i) <=> Earlier(v, j, i)
  BY DEF Earlier
<1>2. {j \in A : Earlier(w, j, i)} = {j \in A : Earlier(v, j, i)}
  BY <1>1
<1>3. Rank(w, A, i) = Rank(v, A, i)
  BY <1>2 DEF Rank
<1> QED
  BY <1>3 DEF RangeOf

(***************************************************************************)
(* The entries of v have the ranges that A, some of them, divide the slots *)
(* into.                                                                   *)
(***************************************************************************)
Divides(A, v) ==
  /\ A \in SUBSET (1..Len(v)) /\ A # {}
  /\ \A i \in 1..Len(v) : v[i].start = RangeOf(v, A, i).start
  /\ \A i \in 1..Len(v) : v[i].end = RangeOf(v, A, i).end

(***************************************************************************)
(* The view v of server n, and the copy s of its own entry.                *)
(***************************************************************************)
ViewSound(n, v, s) ==
  /\ Roster(v) /\ \E A : Divides(A, v)
  /\ s \in ViewEntries /\ s.id = n
  /\ \E k \in 1..Len(v) : IsLast(v, n, k) /\ v[k].start = s.start /\ v[k].end = s.end

(***************************************************************************)
(* rebalanceSlots makes a sound view of any list that has the server.      *)
(***************************************************************************)
LEMMA RebalanceSound ==
  ASSUME NEW n \in Nodes, NEW v, Roster(v), n \in IDsIn(v),
         NEW w, w = rebalanceSlots(n, v)
  PROVE  ViewSound(n, w, EntryOf(w, n))
<1>1. PICK l \in Nat : l = Len(v) /\ DOMAIN v = 1..l /\ Listed(v, l) /\ \A i \in 1..l : v[i] \in ViewEntries
  BY RosterFacts
<1>2. PICK A : A = Active(n, v)
  OBVIOUS
<1>3. A \in SUBSET (1..l) /\ A # {}
  <2>1. PICK i \in 1..l : v[i].id = n
    BY <1>1 DEF IDsIn
  <2> QED
    BY <1>1, <1>2, <2>1 DEF Active
<1>4. w = [i \in 1..l |-> [v[i] EXCEPT !.start = RangeOf(v, A, i).start, !.end = RangeOf(v, A, i).end]]
  BY <1>1, <1>2 DEF rebalanceSlots
<1>5. ASSUME NEW i \in 1..l
      PROVE  /\ w[i] \in ViewEntries /\ w[i].id = v[i].id
             /\ w[i].start = RangeOf(v, A, i).start /\ w[i].end = RangeOf(v, A, i).end
  <2>1. PICK e \in ViewEntries : e = v[i]
    BY <1>1
  <2>2. PICK x \in -1..(SlotCount - 1) : x = RangeOf(v, A, i).start
    BY <1>1, <1>3, RangeIs
  <2>3. PICK y \in -1..(SlotCount - 1) : y = RangeOf(v, A, i).end
    BY <1>1, <1>3, RangeIs
  <2>4. PICK f : f = [e EXCEPT !.start = x, !.end = y]
    OBVIOUS
  <2>5. w[i] = f
    BY <1>4, <2>1, <2>2, <2>3, <2>4
  <2>6. f \in ViewEntries /\ f.id = e.id /\ f.start = x /\ f.end = y
    BY <2>4 DEF ViewEntries
  <2> QED
    BY <2>1, <2>2, <2>3, <2>5, <2>6
<1>6. w \in Seq(ViewEntries) /\ Len(w) = l /\ DOMAIN w = 1..l
  <2>1. DOMAIN w = 1..l /\ w \in [1..l -> ViewEntries]
    BY <1>4, <1>5
  <2> QED
    BY <2>1, IsASeq, LenProperties
<1>7. \A i \in 1..l : w[i].id = v[i].id
  BY <1>5
<1>8. \A i \in 1..l : RangeOf(w, A, i) = RangeOf(v, A, i)
  BY <1>3, <1>7, SameRanges
<1>9. Divides(A, w)
  BY <1>3, <1>5, <1>6, <1>8 DEF Divides
<1>10. n \in IDsIn(w) /\ Roster(w)
  BY <1>1, <1>6, <1>7 DEF IDsIn, Roster
<1>11. PICK k \in 1..l : IsLast(w, n, k)
  BY <1>6, <1>10, LastEntry
<1>12. EntryOf(w, n) = w[k] /\ w[k].id = n
  BY <1>6, <1>10, <1>11, LastEntry DEF IsLast
<1> QED
  BY <1>5, <1>6, <1>9, <1>10, <1>11, <1>12 DEF ViewSound

-----------------------------------------------------------------------------
(***************************************************************************)
(* An entry that is made anew.                                             *)
(***************************************************************************)
LEMMA NewEntry ==
  ASSUME NEW a \in Addresses
  PROVE  Entry(a) \in ViewEntries /\ Entry(a).id = ServerAt[a]
<1>1. 0 \in -1..(SlotCount - 1) /\ ServerAt[a] \in Nodes
  BY ClusterAssumption
<1> QED
  BY <1>1 DEF Entry, ViewEntries

(***************************************************************************)
(* assignSlots sorts the entries: the same ones, in another order.         *)
(***************************************************************************)
LEMMA SortedRoster ==
  ASSUME NEW v, Roster(v), Len(v) > 0
  PROVE  Roster(Sorted(v)) /\ IDsIn(Sorted(v)) = IDsIn(v)
<1>1. PICK l \in Nat : l = Len(v) /\ DOMAIN v = 1..l /\ Listed(v, l) /\ \A i \in 1..l : v[i] \in ViewEntries
  BY RosterFacts
<1>2. PICK A : A = 1..l
  OBVIOUS
<1>3. A \in SUBSET (1..l) /\ A # {} /\ Cardinality(A) = l
  <2>1. 1 \in A /\ 1 \in Int /\ l \in Int
    BY <1>1, <1>2
  <2>2. Cardinality(1..l) = IF 1 > l THEN 0 ELSE l - 1 + 1
    BY <2>1, FS_Interval
  <2> QED
    BY <1>1, <1>2, <2>1, <2>2
<1>4. PICK w : w = Sorted(v)
  OBVIOUS
<1>5. DOMAIN w = 1..l /\ \A k \in 1..l : w[k] = v[CHOOSE i \in A : Rank(v, A, i) = k - 1]
  BY <1>1, <1>2, <1>4 DEF Sorted
<1>6. ASSUME NEW k \in 1..l PROVE \E i \in 1..l : w[k] = v[i] /\ Rank(v, A, i) = k - 1
  <2>1. PICK j \in 0..(Cardinality(A) - 1) : j = k - 1
    BY <1>3
  <2>2. \E i \in A : Rank(v, A, i) = j
    BY <1>1, <1>3, RankNumbers
  <2>3. PICK i : i = CHOOSE h \in A : Rank(v, A, h) = j
    OBVIOUS
  <2>4. i \in A /\ Rank(v, A, i) = j
    BY <2>2, <2>3
  <2>5. w[k] = v[i]
    BY <1>5, <2>1, <2>3
  <2> QED
    BY <1>2, <2>1, <2>4, <2>5
<1>7. w = [k \in 1..l |-> w[k]]
  BY <1>1, <1>4, <1>5 DEF Sorted
<1>8. w \in Seq(ViewEntries)
  <2>1. \A k \in 1..l : w[k] \in ViewEntries
    BY <1>1, <1>6
  <2>2. w \in [1..l -> ViewEntries]
    BY <1>7, <2>1
  <2> QED
    BY <2>2, IsASeq
<1>9. ASSUME NEW i \in 1..l PROVE \E k \in 1..l : w[k] = v[i]
  <2>1. PICK j \in 0..(l - 1) : j = Rank(v, A, i)
    BY <1>1, <1>2, <1>3, RankNumbers
  <2>2. PICK k \in 1..l : k - 1 = j
    <3>1. j + 1 \in 1..l /\ (j + 1) - 1 = j
      BY <1>1
    <3> QED
      BY <3>1
  <2>3. PICK h \in 1..l : w[k] = v[h] /\ Rank(v, A, h) = k - 1
    BY <1>6
  <2>4. h = i
    BY <1>1, <1>2, <1>3, <2>1, <2>2, <2>3, RankNumbers
  <2> QED
    BY <2>3, <2>4
<1>10. IDsIn(w) = IDsIn(v)
  <2>1. IDsIn(w) = {w[k].id : k \in 1..l} /\ IDsIn(v) = {v[k].id : k \in 1..l}
    BY <1>1, <1>5 DEF IDsIn
  <2>2. \A k \in 1..l : \E i \in 1..l : w[k].id = v[i].id
    BY <1>6
  <2>3. \A i \in 1..l : \E k \in 1..l : w[k].id = v[i].id
    BY <1>9
  <2>4. ASSUME NEW x PROVE x \in IDsIn(w) <=> x \in IDsIn(v)
    BY <2>1, <2>2, <2>3
  <2> QED
    BY <2>4
<1> QED
  BY <1>4, <1>8, <1>10 DEF Roster

(***************************************************************************)
(* NewCluster begins with a sound view.                                    *)
(***************************************************************************)
LEMMA NewClusterSound ==
  ASSUME NEW n \in Viewers
  PROVE  ViewSound(n, NewCluster(n), EntryOf(NewCluster(n), n))
<1>1. /\ n \in Nodes /\ OwnAddr[n] \in Addresses /\ ServerAt[OwnAddr[n]] = n
      /\ StaticPeers[n] \in Seq(Addresses)
  BY ClusterAssumption
<1>2. PICK a : a = <<OwnAddr[n]>> \o StaticPeers[n]
  OBVIOUS
<1>3. PICK k \in Nat : k = Len(a) /\ k > 0 /\ DOMAIN a = 1..k
  <2>1. <<OwnAddr[n]>> \in Seq(Addresses) /\ Len(<<OwnAddr[n]>>) = 1
    BY <1>1
  <2>2. Len(a) = 1 + Len(StaticPeers[n]) /\ a \in Seq(Addresses)
    BY <1>1, <1>2, <2>1, ConcatProperties
  <2>3. Len(StaticPeers[n]) \in Nat
    BY <1>1, LenProperties
  <2> QED
    BY <2>2, <2>3, LenProperties
<1>4. a \in Seq(Addresses) /\ a[1] = OwnAddr[n]
  <2>1. <<OwnAddr[n]>> \in Seq(Addresses) /\ Len(<<OwnAddr[n]>>) = 1 /\ <<OwnAddr[n]>>[1] = OwnAddr[n]
    BY <1>1
  <2> QED
    BY <1>1, <1>2, <2>1, ConcatProperties
<1>5. \A i \in 1..k : a[i] \in Addresses
  BY <1>3, <1>4, ElementOfSeq
<1>6. PICK v : v = [i \in DOMAIN a |-> Entry(a[i])]
  OBVIOUS
<1>7. DOMAIN v = 1..k /\ \A i \in 1..k : v[i] = Entry(a[i])
  BY <1>3, <1>6
<1>8. \A i \in 1..k : v[i] \in ViewEntries /\ v[i].id = ServerAt[a[i]]
  BY <1>5, <1>7, NewEntry
<1>9. Roster(v) /\ Len(v) = k
  <2>1. v \in [1..k -> ViewEntries]
    BY <1>3, <1>6, <1>7, <1>8
  <2> QED
    BY <2>1, IsASeq, LenProperties DEF Roster
<1>10. n \in IDsIn(v)
  <2>1. 1 \in 1..k /\ v[1].id = n
    BY <1>1, <1>3, <1>4, <1>8
  <2> QED
    BY <1>7, <2>1 DEF IDsIn
<1>11. PICK u : u = Sorted(v)
  OBVIOUS
<1>12. Roster(u) /\ n \in IDsIn(u)
  BY <1>3, <1>9, <1>10, <1>11, SortedRoster
<1>13. PICK w : w = rebalanceSlots(n, u)
  OBVIOUS
<1>14. ViewSound(n, w, EntryOf(w, n))
  BY <1>1, <1>12, <1>13, RebalanceSound
<1>15. NewCluster(n) = w
  BY <1>2, <1>6, <1>11, <1>13 DEF NewCluster
<1> QED
  BY <1>14, <1>15

(***************************************************************************)
(* An address that joins has an entry.                                     *)
(***************************************************************************)
LEMMA JoinedRoster ==
  ASSUME NEW v, Roster(v), NEW a \in Addresses
  PROVE  Roster(Append(v, Entry(a))) /\ IDsIn(v) \subseteq IDsIn(Append(v, Entry(a)))
<1>1. PICK l \in Nat : l = Len(v) /\ DOMAIN v = 1..l /\ v \in Seq(ViewEntries)
  BY LenProperties DEF Roster
<1>2. PICK e \in ViewEntries : e = Entry(a)
  BY NewEntry
<1>3. PICK r : r = Append(v, e)
  OBVIOUS
<1>4. r \in Seq(ViewEntries) /\ DOMAIN r = 1..(l + 1) /\ \A i \in 1..l : r[i] = v[i]
  BY <1>1, <1>2, <1>3, AppendProperties, LenProperties
<1>5. 1..l \subseteq 1..(l + 1)
  OBVIOUS
<1>6. IDsIn(v) \subseteq IDsIn(r)
  BY <1>1, <1>4, <1>5 DEF IDsIn
<1> QED
  BY <1>2, <1>3, <1>4, <1>6 DEF Roster

(***************************************************************************)
(* Forget leaves the other entries.                                        *)
(***************************************************************************)
LEMMA LeftRoster ==
  ASSUME NEW v, Roster(v), NEW m, NEW n \in IDsIn(v), n # m
  PROVE  Roster(Others(v, m)) /\ n \in IDsIn(Others(v, m))
<1>1. PICK l \in Nat : l = Len(v) /\ DOMAIN v = 1..l /\ \A i \in 1..l : v[i] \in ViewEntries
  BY RosterFacts
<1>2. PICK A : A = {i \in 1..l : v[i].id # m}
  OBVIOUS
<1>3. PICK h \in A : v[h].id = n
  BY <1>1, <1>2 DEF IDsIn
<1>4. PICK B : B = [a \in A |-> {j \in A : j < a}]
  OBVIOUS
<1>5. PICK P : P = [a \in A |-> Cardinality({j \in A : j < a})]
  OBVIOUS
<1>6. IsFiniteSet(A)
  <2>1. IsFiniteSet(1..l) /\ A \subseteq 1..l
    BY <1>2, FS_Interval
  <2> QED
    BY <2>1, FS_Subset
<1>7. \A a \in A : a \in Nat
  BY <1>2
<1>8. Ordered(A, B, P)
  <2>1. \A a \in A : B[a] \subseteq A /\ a \notin B[a]
    BY <1>4, <1>7
  <2>2. \A a, b \in A : a # b => a \in B[b] \/ b \in B[a]
    BY <1>4, <1>7
  <2>3. \A a, b \in A : a \in B[b] => B[a] \subseteq B[b]
    BY <1>4, <1>7
  <2>4. \A a \in A : P[a] = Cardinality(B[a])
    BY <1>4, <1>5
  <2> QED
    BY <1>3, <1>6, <2>1, <2>2, <2>3, <2>4 DEF Ordered
<1>9. Numbered(A, P)
  BY <1>8, PlacesNumber
<1>10. PICK c \in Nat : c = Cardinality(A)
  BY <1>9 DEF Numbered
<1>11. PICK w : w = Others(v, m)
  OBVIOUS
<1>12. w = [k \in 1..c |-> v[CHOOSE i \in A : Cardinality({j \in A : j < i}) = k - 1]]
  BY <1>1, <1>2, <1>10, <1>11 DEF Others
<1>13. ASSUME NEW k \in 1..c PROVE \E i \in A : w[k] = v[i] /\ P[i] = k - 1
  <2>1. PICK x \in 0..(c - 1) : x = k - 1
    OBVIOUS
  <2>2. PICK g \in A : P[g] = x
    BY <1>9, <1>10 DEF Numbered
  <2>3. Cardinality({j \in A : j < g}) = x
    BY <1>5, <2>2
  <2>4. PICK i : i = CHOOSE y \in A : Cardinality({j \in A : j < y}) = x
    OBVIOUS
  <2>5. i \in A /\ Cardinality({j \in A : j < i}) = x
    BY <2>3, <2>4
  <2>6. w[k] = v[i]
    BY <1>12, <2>1, <2>4
  <2> QED
    BY <1>5, <2>1, <2>5, <2>6
<1>14. Roster(w) /\ DOMAIN w = 1..c
  <2>1. \A k \in 1..c : w[k] \in ViewEntries
    BY <1>1, <1>2, <1>13
  <2>2. DOMAIN w = 1..c /\ w = [k \in 1..c |-> w[k]]
    BY <1>12
  <2>3. w \in [1..c -> ViewEntries]
    BY <2>1, <2>2
  <2> QED
    BY <2>2, <2>3, IsASeq DEF Roster
<1>15. n \in IDsIn(w)
  <2>1. PICK x \in 0..(c - 1) : x = P[h]
    BY <1>9, <1>10 DEF Numbered
  <2>2. PICK k \in 1..c : k - 1 = x
    <3>1. x + 1 \in 1..c /\ (x + 1) - 1 = x
      OBVIOUS
    <3> QED
      BY <3>1
  <2>3. PICK i \in A : w[k] = v[i] /\ P[i] = k - 1
    BY <1>13
  <2>4. i = h
    BY <1>9, <2>1, <2>2, <2>3 DEF Numbered
  <2> QED
    BY <1>3, <1>14, <2>3, <2>4 DEF IDsIn
<1> QED
  BY <1>11, <1>14, <1>15

-----------------------------------------------------------------------------
(***************************************************************************)
(* A view whose entries keep their IDs and their ranges stays sound.       *)
(***************************************************************************)
LEMMA TouchedSound ==
  ASSUME NEW n, NEW v, NEW s, ViewSound(n, v, s), NEW w, DOMAIN w = DOMAIN v,
         w = [i \in DOMAIN v |-> w[i]],
         \A i \in DOMAIN v : w[i] \in ViewEntries,
         \A i \in DOMAIN v : w[i].id = v[i].id,
         \A i \in DOMAIN v : w[i].start = v[i].start,
         \A i \in DOMAIN v : w[i].end = v[i].end
  PROVE  ViewSound(n, w, s)
<1>1. PICK l \in Nat : l = Len(v) /\ DOMAIN v = 1..l
  BY LenProperties DEF ViewSound, Roster
<1>2. w \in Seq(ViewEntries) /\ Len(w) = l /\ DOMAIN w = 1..l
  <2>1. w \in [1..l -> ViewEntries]
    BY <1>1
  <2> QED
    BY <1>1, <2>1, IsASeq, LenProperties
<1>3. PICK A : Divides(A, v)
  BY DEF ViewSound
<1>4. A \in SUBSET (1..l) /\ A # {}
  BY <1>1, <1>3 DEF Divides
<1>5. \A i \in 1..l : RangeOf(w, A, i) = RangeOf(v, A, i)
  <2>1. \A i \in 1..l : w[i].id = v[i].id
    BY <1>1
  <2> QED
    BY <1>4, <2>1, SameRanges
<1>6. Divides(A, w)
  BY <1>1, <1>2, <1>3, <1>4, <1>5 DEF Divides
<1>7. PICK k \in 1..l : IsLast(v, n, k) /\ v[k].start = s.start /\ v[k].end = s.end
  BY <1>1 DEF ViewSound
<1>8. IsLast(w, n, k) /\ w[k].start = s.start /\ w[k].end = s.end
  BY <1>1, <1>2, <1>7 DEF IsLast
<1>9. s \in ViewEntries /\ s.id = n
  BY DEF ViewSound
<1> QED
  BY <1>2, <1>6, <1>8, <1>9 DEF ViewSound, Roster

(***************************************************************************)
(* A server that is alone has all the slots.                               *)
(***************************************************************************)
LEMMA AloneSound ==
  ASSUME NEW n \in Nodes, NEW s \in ViewEntries, s.id = n, s.start = 0, s.end = SlotCount - 1
  PROVE  ViewSound(n, <<s>>, s)
<1>1. PICK v : v = <<s>>
  OBVIOUS
<1>2. v \in Seq(ViewEntries) /\ Len(v) = 1 /\ DOMAIN v = 1..1 /\ v[1] = s /\ 1..1 = {1}
  BY <1>1
<1>3. Roster(v)
  BY <1>2 DEF Roster
<1>4. PICK A : A = {1}
  OBVIOUS
<1>5. Cardinality(A) = 1 /\ A \in SUBSET (1..1) /\ A # {} /\ 1 \in A
  BY <1>2, <1>4, FS_Singleton
<1>6. Listed(v, 1)
  BY <1>2, <1>3, RosterFacts
<1>7. Rank(v, A, 1) = 0
  <2>1. \A a \in A : Rank(v, A, a) \in 0..(Cardinality(A) - 1)
    BY <1>5, <1>6, RankNumbers
  <2>2. Rank(v, A, 1) \in 0..(1 - 1)
    BY <1>5, <2>1
  <2> QED
    BY <2>2
<1>8. RangeOf(v, A, 1).start = 0 /\ RangeOf(v, A, 1).end = SlotCount - 1
  <2>1. SlotCount \in Nat
    BY ClusterAssumption
  <2>2. RangeOf(v, A, 1).start = FirstSlot(1, 0) /\ RangeOf(v, A, 1).end = LastSlot(1, 0)
    <3>1. \A a \in A : /\ RangeOf(v, A, a).start = FirstSlot(Cardinality(A), Rank(v, A, a))
                       /\ RangeOf(v, A, a).end = LastSlot(Cardinality(A), Rank(v, A, a))
      BY <1>5, <1>6, RangeIs
    <3> QED
      BY <1>5, <1>7, <3>1
  <2>3. FirstSlot(1, 0) = 0 /\ LastSlot(1, 0) = SlotCount - 1
    BY <2>1 DEF FirstSlot, LastSlot
  <2> QED
    BY <2>2, <2>3
<1>9. Divides(A, v)
  BY <1>2, <1>5, <1>8 DEF Divides
<1>10. IsLast(v, n, 1)
  BY <1>2 DEF IsLast
<1>11. ViewSound(n, v, s)
  BY <1>2, <1>3, <1>9, <1>10 DEF ViewSound
<1> QED
  BY <1>1, <1>11

-----------------------------------------------------------------------------
Results == [addr : Addresses, id : Nodes, ok : BOOLEAN]

(***************************************************************************)
(* Meet is asking nobody, or an address.                                   *)
(***************************************************************************)
AsksOne(n, q, running) == q = <<>> \/ \E a \in Addresses : q = <<a>> /\ n \in running

(***************************************************************************)
(* The inductive invariant, of any values of the variables: views that     *)
(* divide the slots among some of their entries and have the server's own, *)
(* of which it keeps a true copy, and questions that go to addresses.      *)
(***************************************************************************)
AllSound(vs, ss, qs, fs, running) ==
  /\ DOMAIN vs = Viewers /\ DOMAIN ss = Viewers /\ DOMAIN qs = Viewers /\ DOMAIN fs = Viewers
  /\ running \subseteq Nodes
  /\ \A n \in Viewers : ViewSound(n, vs[n], ss[n])
  /\ \A n \in Viewers : AsksOne(n, qs[n], running)
  /\ \A n \in Viewers : fs[n] \subseteq Results

ClusterIndInv == AllSound(view, self, meeting, flying, up)

(***************************************************************************)
(* The invariant of the next state.                                        *)
(***************************************************************************)
LEMMA SoundLater ==
  ASSUME AllSound(view', self', meeting', flying', up')
  PROVE  ClusterIndInv'
BY DEF ClusterIndInv

(***************************************************************************)
(* What server n keeps is all that changes.                                *)
(***************************************************************************)
OnlyAt(n, f, g) == DOMAIN g = Viewers /\ \A m \in Viewers : m # n => g[m] = f[m]

(***************************************************************************)
(* If what a server keeps stays sound, so do all.                          *)
(***************************************************************************)
LEMMA OneServer ==
  ASSUME ClusterIndInv, NEW n \in Viewers, up' = up,
         OnlyAt(n, view, view'), OnlyAt(n, self, self'),
         OnlyAt(n, meeting, meeting'), OnlyAt(n, flying, flying'),
         ViewSound(n, view'[n], self'[n]), AsksOne(n, meeting'[n], up),
         flying'[n] \subseteq Results
  PROVE  ClusterIndInv'
<1>1. /\ DOMAIN view' = Viewers /\ DOMAIN self' = Viewers
      /\ DOMAIN meeting' = Viewers /\ DOMAIN flying' = Viewers
  BY DEF OnlyAt
<1>2. up' \subseteq Nodes
  BY DEF ClusterIndInv, AllSound
<1>3. ASSUME NEW m \in Viewers
      PROVE  /\ ViewSound(m, view'[m], self'[m])
             /\ AsksOne(m, meeting'[m], up')
             /\ flying'[m] \subseteq Results
  <2>1. CASE m = n
    BY <2>1
  <2>2. CASE m # n
    <3>1. view'[m] = view[m] /\ self'[m] = self[m] /\ meeting'[m] = meeting[m] /\ flying'[m] = flying[m]
      BY <2>2 DEF OnlyAt
    <3>2. /\ ViewSound(m, view[m], self[m]) /\ AsksOne(m, meeting[m], up)
          /\ flying[m] \subseteq Results
      BY DEF ClusterIndInv, AllSound
    <3> QED
      BY <3>1, <3>2
  <2> QED
    BY <2>1, <2>2
<1>4. AllSound(view', self', meeting', flying', up')
  BY <1>1, <1>2, <1>3 DEF AllSound
<1> QED
  BY <1>4, SoundLater

(***************************************************************************)
(* What the invariant says of one server.                                  *)
(***************************************************************************)
LEMMA ServerFacts ==
  ASSUME ClusterIndInv, NEW n \in Viewers
  PROVE  /\ DOMAIN view = Viewers /\ DOMAIN self = Viewers
         /\ DOMAIN meeting = Viewers /\ DOMAIN flying = Viewers
         /\ up \subseteq Nodes /\ n \in Nodes
         /\ ViewSound(n, view[n], self[n])
         /\ AsksOne(n, meeting[n], up)
         /\ flying[n] \subseteq Results
         /\ n \in IDsIn(view[n]) /\ IDsIn(view[n]) \subseteq Nodes
<1>1. /\ ViewSound(n, view[n], self[n]) /\ n \in Nodes
  BY ClusterAssumption DEF ClusterIndInv, AllSound
<1>2. PICK v : v = view[n]
  OBVIOUS
<1>3. Roster(v) /\ \E k \in 1..Len(v) : IsLast(v, n, k)
  BY <1>1, <1>2 DEF ViewSound
<1>4. n \in IDsIn(v)
  BY <1>3, LastEntry
<1>5. IDsIn(v) \subseteq Nodes
  BY <1>3, RosterFacts
<1> QED
  BY <1>1, <1>2, <1>4, <1>5 DEF ClusterIndInv, AllSound

(***************************************************************************)
(* Meet asks, is answered, gives up.                                       *)
(***************************************************************************)
LEMMA MeetKeeps ==
  ASSUME ClusterIndInv, NEW n \in Viewers
  PROVE  /\ \A a \in Addresses : MeetAsks(n, a) => ClusterIndInv'
         /\ MeetAnswered(n) => ClusterIndInv'
         /\ MeetTimesOut(n) => ClusterIndInv'
<1>1. ASSUME NEW a \in Addresses, MeetAsks(n, a) PROVE ClusterIndInv'
  <2>1. /\ n \in up /\ meeting' = [meeting EXCEPT ![n] = <<a>>]
        /\ view' = view /\ self' = self /\ flying' = flying /\ up' = up
    BY <1>1 DEF MeetAsks, Unlocked
  <2>2. meeting'[n] = <<a>> /\ OnlyAt(n, meeting, meeting')
    BY <2>1, ServerFacts DEF OnlyAt
  <2>3. OnlyAt(n, view, view') /\ OnlyAt(n, self, self') /\ OnlyAt(n, flying, flying')
    BY <2>1, ServerFacts DEF OnlyAt
  <2>4. ViewSound(n, view'[n], self'[n]) /\ flying'[n] \subseteq Results
    BY <2>1, ServerFacts
  <2>5. AsksOne(n, meeting'[n], up)
    BY <2>1, <2>2 DEF AsksOne
  <2> QED
    BY <2>1, <2>2, <2>3, <2>4, <2>5, OneServer
<1>2. ASSUME MeetAnswered(n) PROVE ClusterIndInv'
  <2>1. PICK a \in Addresses : meeting[n] = <<a>>
    BY <1>2, ServerFacts DEF MeetAnswered, AsksOne
  <2>2. PICK r : r = Append(view[n], Entry(a))
    OBVIOUS
  <2>3. PICK v : v = rebalanceSlots(n, r)
    OBVIOUS
  <2>4. Head(meeting[n]) = a
    BY <2>1
  <2>5. /\ view' = [view EXCEPT ![n] = v] /\ self' = [self EXCEPT ![n] = EntryOf(v, n)]
        /\ meeting' = [meeting EXCEPT ![n] = <<>>] /\ flying' = flying /\ up' = up
    BY <1>2, <2>2, <2>3, <2>4 DEF MeetAnswered, SelfSnapshot
  <2>6. Roster(view[n])
    BY ServerFacts DEF ViewSound
  <2>7. Roster(r) /\ n \in IDsIn(r)
    BY <2>1, <2>2, <2>6, ServerFacts, JoinedRoster
  <2>8. ViewSound(n, v, EntryOf(v, n))
    BY <2>3, <2>7, ServerFacts, RebalanceSound
  <2>9. /\ view'[n] = v /\ self'[n] = EntryOf(v, n) /\ meeting'[n] = <<>>
        /\ flying'[n] \subseteq Results
    BY <2>5, ServerFacts
  <2>10. OnlyAt(n, view, view') /\ OnlyAt(n, self, self')
    BY <2>5, ServerFacts DEF OnlyAt
  <2>11. OnlyAt(n, meeting, meeting') /\ OnlyAt(n, flying, flying')
    BY <2>5, ServerFacts DEF OnlyAt
  <2>12. AsksOne(n, meeting'[n], up)
    BY <2>9 DEF AsksOne
  <2> QED
    BY <2>5, <2>8, <2>9, <2>10, <2>11, <2>12, OneServer
<1>3. ASSUME MeetTimesOut(n) PROVE ClusterIndInv'
  <2>1. /\ meeting' = [meeting EXCEPT ![n] = <<>>]
        /\ view' = view /\ self' = self /\ flying' = flying /\ up' = up
    BY <1>3 DEF MeetTimesOut
  <2>2. meeting'[n] = <<>> /\ OnlyAt(n, meeting, meeting')
    BY <2>1, ServerFacts DEF OnlyAt
  <2>3. OnlyAt(n, view, view') /\ OnlyAt(n, self, self') /\ OnlyAt(n, flying, flying')
    BY <2>1, ServerFacts DEF OnlyAt
  <2>4. ViewSound(n, view'[n], self'[n]) /\ flying'[n] \subseteq Results
    BY <2>1, ServerFacts
  <2>5. AsksOne(n, meeting'[n], up)
    BY <2>2 DEF AsksOne
  <2> QED
    BY <2>1, <2>2, <2>3, <2>4, <2>5, OneServer
<1> QED
  BY <1>1, <1>2, <1>3

(***************************************************************************)
(* Forget and Reset.                                                       *)
(***************************************************************************)
LEMMA LeaveKeeps ==
  ASSUME ClusterIndInv, NEW n \in Viewers
  PROVE  /\ \A m \in Nodes : Forget(n, m) => ClusterIndInv'
         /\ Reset(n) => ClusterIndInv'
<1>1. ASSUME NEW m \in Nodes, Forget(n, m) PROVE ClusterIndInv'
  <2>1. PICK r : r = Others(view[n], m)
    OBVIOUS
  <2>2. PICK v : v = rebalanceSlots(n, r)
    OBVIOUS
  <2>3. /\ view' = [view EXCEPT ![n] = v] /\ self' = [self EXCEPT ![n] = EntryOf(v, n)]
        /\ meeting' = meeting /\ flying' = flying /\ up' = up
    BY <1>1, <2>1, <2>2 DEF Forget, SelfSnapshot
  <2>4. m \in IDsIn(view[n]) /\ m # n /\ meeting[n] = <<>>
    BY <1>1 DEF Forget, Unlocked
  <2>5. Roster(view[n])
    BY ServerFacts DEF ViewSound
  <2>6. n \in IDsIn(view[n]) /\ n \in Nodes
    BY ServerFacts
  <2>7. Roster(r) /\ n \in IDsIn(r)
    BY <2>1, <2>4, <2>5, <2>6, LeftRoster
  <2>8. ViewSound(n, v, EntryOf(v, n))
    BY <2>2, <2>6, <2>7, RebalanceSound
  <2>9. /\ view'[n] = v /\ self'[n] = EntryOf(v, n) /\ meeting'[n] = <<>>
        /\ flying'[n] \subseteq Results
    BY <2>3, <2>4, ServerFacts
  <2>10. OnlyAt(n, view, view') /\ OnlyAt(n, self, self')
    BY <2>3, ServerFacts DEF OnlyAt
  <2>11. OnlyAt(n, meeting, meeting') /\ OnlyAt(n, flying, flying')
    BY <2>3, ServerFacts DEF OnlyAt
  <2>12. AsksOne(n, meeting'[n], up)
    BY <2>9 DEF AsksOne
  <2> QED
    BY <2>3, <2>8, <2>9, <2>10, <2>11, <2>12, OneServer
<1>2. ASSUME Reset(n) PROVE ClusterIndInv'
  <2>1. PICK s : s = self[n]
    OBVIOUS
  <2>2. PICK e : e = [s EXCEPT !.start = 0, !.end = SlotCount - 1, !.state = "online"]
    OBVIOUS
  <2>3. s \in ViewEntries /\ s.id = n
    BY <2>1, ServerFacts DEF ViewSound
  <2>4. e \in ViewEntries /\ e.id = n /\ e.start = 0 /\ e.end = SlotCount - 1
    <3>1. 0 \in -1..(SlotCount - 1) /\ SlotCount - 1 \in -1..(SlotCount - 1)
      BY ClusterAssumption
    <3> QED
      BY <2>2, <2>3, <3>1 DEF ViewEntries
  <2>5. self'[n] = e /\ OnlyAt(n, self, self')
    BY <1>2, <2>1, <2>2, ServerFacts DEF Reset, OnlyAt
  <2>6. view' = [view EXCEPT ![n] = <<self'[n]>>] /\ meeting' = meeting /\ flying' = flying /\ up' = up
    BY <1>2 DEF Reset
  <2>7. view'[n] = <<e>> /\ OnlyAt(n, view, view')
    BY <2>5, <2>6, ServerFacts DEF OnlyAt
  <2>8. ViewSound(n, <<e>>, e)
    BY <2>4, ServerFacts, AloneSound
  <2>9. meeting'[n] = <<>> /\ flying'[n] \subseteq Results
    BY <1>2, <2>6, ServerFacts DEF Reset, Unlocked
  <2>10. OnlyAt(n, meeting, meeting') /\ OnlyAt(n, flying, flying')
    BY <2>6, ServerFacts DEF OnlyAt
  <2>11. AsksOne(n, meeting'[n], up)
    BY <2>9 DEF AsksOne
  <2> QED
    BY <2>5, <2>6, <2>7, <2>8, <2>9, <2>10, <2>11, OneServer
<1> QED
  BY <1>1, <1>2

(***************************************************************************)
(* What a ping, or time, does to an entry.                                 *)
(***************************************************************************)
LEMMA HealthFacts ==
  ASSUME NEW e \in ViewEntries, NEW ok \in BOOLEAN
  PROVE  /\ Health(e, ok) \in ViewEntries
         /\ Health(e, ok).id = e.id
         /\ Health(e, ok).start = e.start
         /\ Health(e, ok).end = e.end
<1>1. ASSUME ok
      PROVE  /\ Health(e, ok) \in ViewEntries /\ Health(e, ok).id = e.id
             /\ Health(e, ok).start = e.start /\ Health(e, ok).end = e.end
  <2>1. PICK f : f = [e EXCEPT !.state = "online", !.recent = TRUE]
    OBVIOUS
  <2>2. Health(e, ok) = f
    BY <1>1, <2>1 DEF Health
  <2>3. f \in ViewEntries /\ f.id = e.id /\ f.start = e.start /\ f.end = e.end
    BY <2>1 DEF ViewEntries
  <2> QED
    BY <2>2, <2>3
<1>2. ASSUME ~ok
      PROVE  /\ Health(e, ok) \in ViewEntries /\ Health(e, ok).id = e.id
             /\ Health(e, ok).start = e.start /\ Health(e, ok).end = e.end
  <2>1. PICK x \in {"failing", "offline"} : x = IF e.recent THEN "failing" ELSE "offline"
    OBVIOUS
  <2>2. PICK f : f = [e EXCEPT !.state = x]
    OBVIOUS
  <2>3. Health(e, ok) = f
    BY <1>2, <2>1, <2>2 DEF Health
  <2>4. f \in ViewEntries /\ f.id = e.id /\ f.start = e.start /\ f.end = e.end
    BY <2>2 DEF ViewEntries
  <2> QED
    BY <2>3, <2>4
<1> QED
  BY <1>1, <1>2

(***************************************************************************)
(* An answer that has become old changes nothing else.                     *)
(***************************************************************************)
LEMMA AgedFacts ==
  ASSUME NEW e \in ViewEntries
  PROVE  /\ [e EXCEPT !.recent = FALSE] \in ViewEntries
         /\ [e EXCEPT !.recent = FALSE].id = e.id
         /\ [e EXCEPT !.recent = FALSE].start = e.start
         /\ [e EXCEPT !.recent = FALSE].end = e.end
BY DEF ViewEntries

(***************************************************************************)
(* A view of which only the health of entries changes stays sound.         *)
(***************************************************************************)
LEMMA HealthKeeps ==
  ASSUME ClusterIndInv, NEW n \in Viewers, NEW w, view' = [view EXCEPT ![n] = w],
         ViewSound(n, w, self[n]),
         self' = self, meeting' = meeting, up' = up,
         OnlyAt(n, flying, flying'), flying'[n] \subseteq Results
  PROVE  ClusterIndInv'
<1>1. view'[n] = w /\ self'[n] = self[n] /\ meeting'[n] = meeting[n]
  BY ServerFacts
<1>2. OnlyAt(n, view, view') /\ OnlyAt(n, self, self') /\ OnlyAt(n, meeting, meeting')
  BY ServerFacts DEF OnlyAt
<1>3. AsksOne(n, meeting'[n], up)
  BY <1>1, ServerFacts DEF AsksOne
<1> QED
  BY <1>1, <1>2, <1>3, OneServer

(***************************************************************************)
(* Pings are sent, their results land, time passes.                        *)
(***************************************************************************)
LEMMA HeartbeatKeeps ==
  ASSUME ClusterIndInv, NEW n \in Viewers
  PROVE  /\ pingPeers(n) => ClusterIndInv'
         /\ \A r \in flying[n] : PingLands(n, r) => ClusterIndInv'
         /\ \A i \in DOMAIN view[n] : TimePasses(n, i) => ClusterIndInv'
<1>1. PICK v : v = view[n]
  OBVIOUS
<1>2. ViewSound(n, v, self[n])
  BY <1>1, ServerFacts
<1>3. \A i \in DOMAIN v : v[i] \in ViewEntries
  <2>1. v \in Seq(ViewEntries) /\ DOMAIN v = 1..Len(v)
    BY <1>2, LenProperties DEF ViewSound, Roster
  <2> QED
    BY <2>1, ElementOfSeq
<1>4. ASSUME pingPeers(n) PROVE ClusterIndInv'
  <2>1. PICK new : new = {[addr |-> v[i].addr, id |-> v[i].id, ok |-> v[i].id \in up] :
                             i \in {k \in DOMAIN v : v[k].id # n}}
    OBVIOUS
  <2>2. /\ flying' = [flying EXCEPT ![n] = @ \cup new]
        /\ view' = view /\ self' = self /\ meeting' = meeting /\ up' = up
    BY <1>1, <1>4, <2>1 DEF pingPeers
  <2>3. new \subseteq Results
    <3>1. ASSUME NEW i \in DOMAIN v
          PROVE  [addr |-> v[i].addr, id |-> v[i].id, ok |-> v[i].id \in up] \in Results
      <4>1. v[i].addr \in Addresses /\ v[i].id \in Nodes
        BY <1>3 DEF ViewEntries
      <4> QED
        BY <4>1 DEF Results
    <3> QED
      BY <2>1, <3>1
  <2>4. flying'[n] = flying[n] \cup new /\ OnlyAt(n, flying, flying')
    BY <2>2, ServerFacts DEF OnlyAt
  <2>5. flying'[n] \subseteq Results
    BY <2>3, <2>4, ServerFacts
  <2>6. OnlyAt(n, view, view') /\ OnlyAt(n, self, self') /\ OnlyAt(n, meeting, meeting')
    BY <2>2, ServerFacts DEF OnlyAt
  <2>7. ViewSound(n, view'[n], self'[n]) /\ AsksOne(n, meeting'[n], up)
    BY <2>2, ServerFacts
  <2> QED
    BY <2>2, <2>4, <2>5, <2>6, <2>7, OneServer
<1>5. ASSUME NEW r \in flying[n], PingLands(n, r) PROVE ClusterIndInv'
  <2>1. r \in Results /\ r.ok \in BOOLEAN
    BY ServerFacts DEF Results
  <2>2. PICK w : w = [i \in DOMAIN v |-> IF IsFirst(v, r.id, i) THEN Health(v[i], r.ok) ELSE v[i]]
    OBVIOUS
  <2>3. /\ flying' = [flying EXCEPT ![n] = @ \ {r}] /\ view' = [view EXCEPT ![n] = w]
        /\ self' = self /\ meeting' = meeting /\ up' = up
    BY <1>1, <1>5, <2>2, ServerFacts DEF PingLands
  <2>4. ASSUME NEW i \in DOMAIN v
        PROVE  w[i] \in ViewEntries /\ w[i].id = v[i].id /\ w[i].start = v[i].start /\ w[i].end = v[i].end
    <3>1. PICK e \in ViewEntries : e = v[i]
      BY <1>3
    <3>2. PICK ok \in BOOLEAN : ok = r.ok
      BY <2>1
    <3>3. w[i] = Health(e, ok) \/ w[i] = e
      BY <2>2, <3>1, <3>2
    <3> QED
      BY <3>1, <3>3, HealthFacts
  <2>5. DOMAIN w = DOMAIN v /\ w = [i \in DOMAIN v |-> w[i]]
    BY <2>2
  <2>6. ViewSound(n, w, self[n])
    BY <1>2, <2>4, <2>5, TouchedSound
  <2>7. flying'[n] \subseteq Results /\ OnlyAt(n, flying, flying')
    BY <2>3, ServerFacts DEF OnlyAt
  <2> QED
    BY <1>1, <2>3, <2>6, <2>7, HealthKeeps
<1>6. ASSUME NEW h \in DOMAIN view[n], TimePasses(n, h) PROVE ClusterIndInv'
  <2>1. PICK e \in ViewEntries : e = v[h]
    BY <1>1, <1>3, <1>6
  <2>2. PICK f : f = [e EXCEPT !.recent = FALSE]
    OBVIOUS
  <2>3. f \in ViewEntries /\ f.id = e.id /\ f.start = e.start /\ f.end = e.end
    BY <2>2, AgedFacts
  <2>4. PICK w : w = [v EXCEPT ![h] = f]
    OBVIOUS
  <2>5. /\ view' = [view EXCEPT ![n] = w]
        /\ self' = self /\ meeting' = meeting /\ flying' = flying /\ up' = up
    <3>1. view' = [view EXCEPT ![n] = [view[n] EXCEPT ![h] = [view[n][h] EXCEPT !.recent = FALSE]]]
      BY <1>6 DEF TimePasses
    <3>2. [view[n] EXCEPT ![h] = [view[n][h] EXCEPT !.recent = FALSE]] = w
      BY <1>1, <2>1, <2>4, <2>2
    <3> QED
      BY <1>6, <3>1, <3>2 DEF TimePasses
  <2>6. ASSUME NEW i \in DOMAIN v
        PROVE  w[i] \in ViewEntries /\ w[i].id = v[i].id /\ w[i].start = v[i].start /\ w[i].end = v[i].end
    <3>1. w[i] = IF i = h THEN f ELSE v[i]
      BY <1>1, <1>6, <2>4
    <3> QED
      BY <1>3, <2>1, <2>3, <3>1
  <2>7. DOMAIN w = DOMAIN v /\ w = [i \in DOMAIN v |-> w[i]]
    BY <2>4
  <2>8. ViewSound(n, w, self[n])
    BY <1>2, <2>6, <2>7, TouchedSound
  <2>9. flying'[n] \subseteq Results /\ OnlyAt(n, flying, flying')
    BY <2>5, ServerFacts DEF OnlyAt
  <2> QED
    BY <1>1, <2>5, <2>8, <2>9, HealthKeeps
<1> QED
  BY <1>4, <1>5, <1>6

(***************************************************************************)
(* A crash loses the question and the results; a restart begins anew.      *)
(***************************************************************************)
LEMMA CrashKeeps ==
  ASSUME ClusterIndInv, NEW n \in Nodes
  PROVE  (Crash(n) => ClusterIndInv') /\ (Restart(n) => ClusterIndInv')
<1>1. ASSUME Crash(n) PROVE ClusterIndInv'
  <2>1. /\ up' = up \ {n} /\ view' = view /\ self' = self
        /\ meeting' = [m \in Viewers |-> IF m = n THEN <<>> ELSE meeting[m]]
        /\ flying' = [m \in Viewers |-> IF m = n THEN {} ELSE flying[m]]
    BY <1>1 DEF Crash
  <2>2. /\ DOMAIN view' = Viewers /\ DOMAIN self' = Viewers /\ DOMAIN meeting' = Viewers
        /\ DOMAIN flying' = Viewers /\ up' \subseteq Nodes
    BY <2>1 DEF ClusterIndInv, AllSound
  <2>3. ASSUME NEW m \in Viewers
        PROVE  /\ ViewSound(m, view'[m], self'[m]) /\ AsksOne(m, meeting'[m], up')
               /\ flying'[m] \subseteq Results
    <3>1. ViewSound(m, view'[m], self'[m])
      BY <2>1, ServerFacts
    <3>2. flying'[m] \subseteq Results
      BY <2>1, ServerFacts
    <3>3. AsksOne(m, meeting'[m], up')
      <4>1. CASE m = n
        BY <2>1, <4>1 DEF AsksOne
      <4>2. CASE m # n
        <5>1. AsksOne(m, meeting[m], up)
          BY ServerFacts
        <5> QED
          BY <2>1, <4>2, <5>1 DEF AsksOne
      <4> QED
        BY <4>1, <4>2
    <3> QED
      BY <3>1, <3>2, <3>3
  <2>4. AllSound(view', self', meeting', flying', up')
    BY <2>2, <2>3 DEF AllSound
  <2> QED
    BY <2>4, SoundLater
<1>2. ASSUME Restart(n) PROVE ClusterIndInv'
  <2>1. /\ n \notin up /\ up' = up \cup {n} /\ meeting' = meeting /\ flying' = flying
        /\ view' = [m \in Viewers |-> IF m = n THEN NewCluster(m) ELSE view[m]]
        /\ self' = [m \in Viewers |-> IF m = n THEN EntryOf(NewCluster(m), m) ELSE self[m]]
    BY <1>2 DEF Restart
  <2>2. /\ DOMAIN view' = Viewers /\ DOMAIN self' = Viewers /\ DOMAIN meeting' = Viewers
        /\ DOMAIN flying' = Viewers /\ up' \subseteq Nodes
    BY <2>1 DEF ClusterIndInv, AllSound
  <2>3. ASSUME NEW m \in Viewers
        PROVE  /\ ViewSound(m, view'[m], self'[m]) /\ AsksOne(m, meeting'[m], up')
               /\ flying'[m] \subseteq Results
    <3>1. flying'[m] \subseteq Results
      BY <2>1, ServerFacts
    <3>2. AsksOne(m, meeting[m], up) /\ ViewSound(m, view[m], self[m])
      BY ServerFacts
    <3>3. CASE m = n
      <4>1. meeting[m] = <<>>
        BY <2>1, <3>2, <3>3 DEF AsksOne
      <4>2. view'[m] = NewCluster(m) /\ self'[m] = EntryOf(NewCluster(m), m) /\ meeting'[m] = <<>>
        BY <2>1, <3>3, <4>1
      <4>3. ViewSound(m, view'[m], self'[m])
        BY <4>2, NewClusterSound
      <4> QED
        BY <3>1, <4>2, <4>3 DEF AsksOne
    <3>4. CASE m # n
      <4>1. view'[m] = view[m] /\ self'[m] = self[m] /\ meeting'[m] = meeting[m]
        BY <2>1, <3>4
      <4>2. AsksOne(m, meeting[m], up')
        BY <2>1, <3>2 DEF AsksOne
      <4> QED
        BY <3>1, <3>2, <4>1, <4>2
    <3> QED
      BY <3>3, <3>4
  <2>4. AllSound(view', self', meeting', flying', up')
    BY <2>2, <2>3 DEF AllSound
  <2> QED
    BY <2>4, SoundLater
<1> QED
  BY <1>1, <1>2

(***************************************************************************)
(* Every step keeps the invariant, and it holds at the start.              *)
(***************************************************************************)
LEMMA ClusterStep ==
  ASSUME ClusterIndInv, [ClusterNext]_clusterVars
  PROVE  ClusterIndInv'
<1>1. CASE UNCHANGED clusterVars
  <2>1. view' = view /\ self' = self /\ meeting' = meeting /\ flying' = flying /\ up' = up
    BY <1>1 DEF clusterVars
  <2>2. AllSound(view', self', meeting', flying', up')
    BY <2>1 DEF ClusterIndInv
  <2> QED
    BY <2>2, SoundLater
<1>2. ASSUME NEW n \in Viewers, NEW a \in Addresses, MeetAsks(n, a) PROVE ClusterIndInv'
  BY <1>2, MeetKeeps
<1>3. ASSUME NEW n \in Viewers, NEW m \in Nodes, Forget(n, m) PROVE ClusterIndInv'
  BY <1>3, LeaveKeeps
<1>4. ASSUME NEW n \in Viewers, NEW i \in DOMAIN view[n], TimePasses(n, i) PROVE ClusterIndInv'
  BY <1>4, HeartbeatKeeps
<1>5. ASSUME NEW n \in Viewers, MeetAnswered(n) \/ MeetTimesOut(n) \/ Reset(n) \/ pingPeers(n)
      PROVE  ClusterIndInv'
  BY <1>5, MeetKeeps, LeaveKeeps, HeartbeatKeeps
<1>6. ASSUME NEW n \in Viewers, NEW r \in flying[n], PingLands(n, r) PROVE ClusterIndInv'
  BY <1>6, HeartbeatKeeps
<1>7. ASSUME NEW n \in Nodes, Crash(n) \/ Restart(n) PROVE ClusterIndInv'
  BY <1>7, CrashKeeps
<1> QED
  BY <1>1, <1>2, <1>5, <1>6, <1>7, <1>3, <1>4 DEF ClusterNext

(***************************************************************************)
(* NewCluster makes the first views sound.                                 *)
(***************************************************************************)
LEMMA ClusterInitInv == ClusterInit => ClusterIndInv
<1> SUFFICES ASSUME ClusterInit PROVE ClusterIndInv
  OBVIOUS
<1>1. /\ DOMAIN view = Viewers /\ DOMAIN self = Viewers /\ DOMAIN meeting = Viewers
      /\ DOMAIN flying = Viewers /\ up \subseteq Nodes
  BY DEF ClusterInit
<1>2. ASSUME NEW m \in Viewers
      PROVE  /\ ViewSound(m, view[m], self[m]) /\ AsksOne(m, meeting[m], up)
             /\ flying[m] \subseteq Results
  <2>1. /\ view[m] = NewCluster(m) /\ self[m] = EntryOf(NewCluster(m), m) /\ meeting[m] = <<>>
        /\ flying[m] = {}
    BY DEF ClusterInit
  <2>2. ViewSound(m, view[m], self[m])
    BY <2>1, NewClusterSound
  <2> QED
    BY <2>1, <2>2 DEF AsksOne
<1> QED
  BY <1>1, <1>2 DEF ClusterIndInv, AllSound

-----------------------------------------------------------------------------
(***************************************************************************)
(* The entries of a view that have slots.                                  *)
(***************************************************************************)
HasSlots(v) == {i \in 1..Len(v) : v[i].start # -1}
IsNumbered(v, A, j, x) == \E a \in A : Rank(v, A, a) = j /\ v[a].id = x

(***************************************************************************)
(* A slot is held by one entry of a sound view, whose number among those   *)
(* with slots is a matter of how many there are; Owner returns its ID.     *)
(***************************************************************************)
LEMMA SlotOwner ==
  ASSUME ClusterIndInv, NEW n \in Viewers, NEW slot \in Slots, NEW v, v = view[n],
         NEW A, A = HasSlots(v), NEW k \in Nat, k = Cardinality(A), NEW j \in 0..(k - 1),
         Falls(slot, k, j)
  PROVE  /\ IsNumbered(v, A, j, Owner(n, slot))
         /\ Cardinality({i \in DOMAIN view[n] : Holds(view[n][i], slot)}) = 1
<1>1. Roster(v) /\ ViewSound(n, v, self[n])
  BY ServerFacts DEF ViewSound
<1>2. PICK l \in Nat : l = Len(v) /\ DOMAIN v = 1..l /\ Listed(v, l)
  BY <1>1, RosterFacts
<1>3. PICK D : Divides(D, v)
  BY <1>1 DEF ViewSound
<1>4. D \in SUBSET (1..l) /\ D # {}
  BY <1>2, <1>3 DEF Divides
<1>5. ASSUME NEW i \in 1..l
      PROVE  v[i].start = RangeOf(v, D, i).start /\ v[i].end = RangeOf(v, D, i).end
  BY <1>2, <1>3 DEF Divides
<1>6. A = D
  <2>1. /\ \A i \in D : RangeOf(v, D, i).start \in 0..(SlotCount - 1)
        /\ \A i : i \notin D => RangeOf(v, D, i).start = -1
    BY <1>2, <1>4, RangeIs
  <2>2. ASSUME NEW i \in 1..l PROVE v[i].start # -1 <=> i \in D
    <3>1. i \in D => RangeOf(v, D, i).start \in 0..(SlotCount - 1)
      BY <2>1
    <3>2. i \notin D => RangeOf(v, D, i).start = -1
      BY <2>1
    <3>3. SlotCount \in Nat
      BY ClusterAssumption
    <3>4. i \in D => RangeOf(v, D, i).start # -1
      BY <3>1, <3>3
    <3> QED
      BY <1>5, <3>2, <3>4
  <2> QED
    BY <1>2, <1>4, <2>2 DEF HasSlots
<1>7. A \in SUBSET (1..l) /\ A # {}
  BY <1>4, <1>6
<1>8. PICK a \in A : Rank(v, A, a) = j /\ \A b : Holds(RangeOf(v, A, b), slot) <=> b = a
  BY <1>2, <1>7, OneHolder
<1>9. ASSUME NEW i \in 1..l PROVE Holds(v[i], slot) <=> i = a
  <2>1. Holds(v[i], slot) <=> Holds(RangeOf(v, A, i), slot)
    BY <1>5, <1>6 DEF Holds
  <2> QED
    BY <1>8, <2>1
<1>10. a \in 1..l
  BY <1>7
<1>11. {i \in DOMAIN view[n] : Holds(view[n][i], slot)} = {a}
  BY <1>2, <1>9, <1>10
<1>12. Cardinality({i \in DOMAIN view[n] : Holds(view[n][i], slot)}) = 1
  BY <1>11, FS_Singleton
<1>13. a = CHOOSE i \in DOMAIN v : Holds(v[i], slot) /\ \A h \in 1..(i - 1) : ~Holds(v[h], slot)
  <2>1. \A h \in 1..(a - 1) : h \in 1..l /\ h # a
    BY <1>10
  <2>2. Holds(v[a], slot) /\ \A h \in 1..(a - 1) : ~Holds(v[h], slot)
    BY <1>9, <1>10, <2>1
  <2> QED
    BY <1>2, <1>9, <1>10, <2>2
<1>14. Owner(n, slot) = v[a].id
  <2>1. \E i \in DOMAIN v : Holds(v[i], slot)
    BY <1>2, <1>9, <1>10
  <2> QED
    BY <1>13, <2>1 DEF Owner
<1> QED
  BY <1>8, <1>12, <1>14 DEF IsNumbered

(***************************************************************************)
(* A slot has a number among k ranges, and a sound view has at least one   *)
(* entry with slots.                                                       *)
(***************************************************************************)
LEMMA SlotNumber ==
  ASSUME ClusterIndInv, NEW n \in Viewers, NEW slot \in Slots, NEW v, v = view[n],
         NEW A, A = HasSlots(v)
  PROVE  /\ Roster(v) /\ A \in SUBSET (1..Len(v)) /\ IsFiniteSet(A)
         /\ Cardinality(A) \in Nat /\ Cardinality(A) > 0
         /\ \E j \in 0..(Cardinality(A) - 1) : Falls(slot, Cardinality(A), j)
<1>1. Roster(v) /\ ViewSound(n, v, self[n])
  BY ServerFacts DEF ViewSound
<1>2. PICK l \in Nat : l = Len(v) /\ Listed(v, l)
  BY <1>1, RosterFacts
<1>3. A \in SUBSET (1..l)
  BY <1>2 DEF HasSlots
<1>4. A # {}
  <2>1. PICK D : Divides(D, v)
    BY <1>1 DEF ViewSound
  <2>2. D \in SUBSET (1..l) /\ D # {}
    BY <1>2, <2>1 DEF Divides
  <2>3. PICK d \in D : v[d].start = RangeOf(v, D, d).start
    BY <1>2, <2>1, <2>2 DEF Divides
  <2>4. v[d].start \in 0..(SlotCount - 1)
    BY <1>2, <2>2, <2>3, RangeIs
  <2>5. SlotCount \in Nat
    BY ClusterAssumption
  <2> QED
    BY <1>2, <2>2, <2>4, <2>5 DEF HasSlots
<1>5. IsFiniteSet(A)
  <2>1. IsFiniteSet(1..l)
    BY FS_Interval
  <2> QED
    BY <1>3, <2>1, FS_Subset
<1>6. PICK k \in Nat : k = Cardinality(A) /\ k > 0
  BY <1>2, <1>3, <1>4, RankNumbers
<1>7. \E j \in 0..(k - 1) : Falls(slot, k, j)
  BY <1>6, OneOfThem
<1> QED
  BY <1>1, <1>2, <1>3, <1>5, <1>6, <1>7

(***************************************************************************)
(* Two finite lists in which every ID stands as often have as many entries *)
(* whose IDs are in a set.                                                 *)
(***************************************************************************)
Those(v, A, x) == {i \in A : v[i].id = x}
Within(v, A, T) == {i \in A : v[i].id \in T}

LEMMA AsMany ==
  ASSUME NEW v, NEW A, IsFiniteSet(A), NEW w, NEW B, IsFiniteSet(B),
         \A x : Cardinality(Those(v, A, x)) = Cardinality(Those(w, B, x)), NEW T
  PROVE  /\ Cardinality(Within(v, A, T)) = Cardinality(Within(w, B, T))
         /\ IsFiniteSet(Within(v, A, T)) /\ Cardinality(Within(v, A, T)) \in Nat
<1>1. IsFiniteSet(Within(v, A, T)) /\ Cardinality(Within(v, A, T)) \in Nat
  <2>1. Within(v, A, T) \subseteq A
    BY DEF Within
  <2> QED
    BY <2>1, FS_Subset, FS_CardinalityType
<1>2. ASSUME NEW x PROVE \E g : g \in Bijection(Those(v, A, x), Those(w, B, x))
  <2>1. Those(v, A, x) \subseteq A /\ Those(w, B, x) \subseteq B
    BY DEF Those
  <2>2. IsFiniteSet(Those(v, A, x)) /\ IsFiniteSet(Those(w, B, x))
    BY <2>1, FS_Subset
  <2>3. Cardinality(Those(v, A, x)) = Cardinality(Those(w, B, x))
    OBVIOUS
  <2>4. ExistsBijection(Those(v, A, x), Those(w, B, x))
    BY <2>2, <2>3, FS_SameCardinalityBij
  <2> QED
    BY <2>4 DEF ExistsBijection
<1> DEFINE G(x) == CHOOSE g : g \in Bijection(Those(v, A, x), Those(w, B, x))
<1>3. ASSUME NEW x PROVE G(x) \in Bijection(Those(v, A, x), Those(w, B, x))
  BY <1>2
<1> HIDE DEF G
<1>4. ASSUME NEW x
      PROVE  /\ \A i \in Those(v, A, x) : G(x)[i] \in Those(w, B, x)
             /\ \A i, j \in Those(v, A, x) : G(x)[i] = G(x)[j] => i = j
             /\ \A y \in Those(w, B, x) : \E i \in Those(v, A, x) : G(x)[i] = y
  BY <1>3 DEF Bijection, Injection, Surjection, IsInjective
<1> DEFINE f == [i \in Within(v, A, T) |-> G(v[i].id)[i]]
<1>5. ASSUME NEW i \in Within(v, A, T)
      PROVE  f[i] \in Within(w, B, T) /\ w[f[i]].id = v[i].id
  <2>1. i \in Those(v, A, v[i].id) /\ v[i].id \in T
    BY DEF Those, Within
  <2>2. f[i] = G(v[i].id)[i]
    OBVIOUS
  <2>3. f[i] \in Those(w, B, v[i].id)
    BY <1>4, <2>1, <2>2
  <2> QED
    BY <2>1, <2>3 DEF Those, Within
<1>6. ASSUME NEW i \in Within(v, A, T), NEW j \in Within(v, A, T), f[i] = f[j] PROVE i = j
  <2>1. PICK x : x = v[i].id /\ x = v[j].id
    BY <1>5, <1>6
  <2>2. i \in Those(v, A, x) /\ j \in Those(v, A, x)
    BY <2>1 DEF Those, Within
  <2>3. G(x)[i] = G(x)[j]
    BY <1>6, <2>1
  <2> QED
    BY <1>4, <2>2, <2>3
<1>7. ASSUME NEW y \in Within(w, B, T) PROVE \E i \in Within(v, A, T) : f[i] = y
  <2>1. PICK x : x = w[y].id /\ x \in T
    BY DEF Within
  <2>2. y \in Those(w, B, x)
    BY <2>1 DEF Those, Within
  <2>3. PICK i \in Those(v, A, x) : G(x)[i] = y
    BY <1>4, <2>2
  <2>4. i \in Within(v, A, T) /\ v[i].id = x
    BY <2>1, <2>3 DEF Those, Within
  <2> QED
    BY <2>3, <2>4
<1>8. f \in [Within(v, A, T) -> Within(w, B, T)]
  BY <1>5
<1> HIDE DEF f
<1>9. Cardinality(Within(w, B, T)) = Cardinality(Within(v, A, T))
  BY <1>1, <1>6, <1>7, <1>8, PairedOff
<1> QED
  BY <1>1, <1>9

(***************************************************************************)
(* The entry with a number stands after all entries whose IDs come sooner, *)
(* and before none of them: its number lies between how many there are     *)
(* without and with its own ID.                                            *)
(***************************************************************************)
UpTo(a) == {x \in Nodes : x = a \/ Sooner(x, a)}

LEMMA NumberBounds ==
  ASSUME NEW v, NEW l, Listed(v, l), NEW A \in SUBSET (1..l), NEW i \in A
  PROVE  /\ Rank(v, A, i) < Cardinality(Within(v, A, UpTo(v[i].id)))
         /\ \A x \in Nodes : Sooner(x, v[i].id) => Cardinality(Within(v, A, UpTo(x))) <= Rank(v, A, i)
<1>1. l \in Nat /\ \A h \in 1..l : v[h].id \in Nodes
  BY DEF Listed
<1>2. IsFiniteSet(A)
  <2>1. IsFiniteSet(1..l)
    BY <1>1, FS_Interval
  <2> QED
    BY <2>1, FS_Subset
<1>3. PICK F : F = {h \in A : Earlier(v, h, i)}
  OBVIOUS
<1>4. Rank(v, A, i) = Cardinality(F) /\ F \subseteq A
  BY <1>3 DEF Rank
<1>5. IsFiniteSet(F) /\ Cardinality(F) \in Nat
  BY <1>2, <1>4, FS_Subset, FS_CardinalityType
<1>6. Cardinality(F) < Cardinality(Within(v, A, UpTo(v[i].id)))
  <2>1. PICK W : W = Within(v, A, UpTo(v[i].id))
    OBVIOUS
  <2>2. W \subseteq A /\ i \in W /\ F \subseteq W
    <3>1. ASSUME NEW h \in F PROVE h \in W
      <4>1. h \in A /\ v[h].id \in Nodes /\ (Sooner(v[h].id, v[i].id) \/ v[h].id = v[i].id)
        BY <1>1, <1>3 DEF Earlier
      <4> QED
        BY <2>1, <4>1 DEF Within, UpTo
    <3> QED
      BY <1>1, <2>1, <3>1 DEF Within, UpTo
  <2>3. i \notin F
    BY <1>3, EntriesOrdered
  <2>4. IsFiniteSet(W) /\ Cardinality(W) \in Nat
    BY <1>2, <2>2, FS_Subset, FS_CardinalityType
  <2>5. Cardinality(F) <= Cardinality(W) /\ (Cardinality(F) = Cardinality(W) => F = W)
    BY <2>2, <2>4, FS_Subset
  <2> QED
    BY <1>5, <2>1, <2>2, <2>3, <2>4, <2>5
<1>7. ASSUME NEW x \in Nodes, Sooner(x, v[i].id)
      PROVE  Cardinality(Within(v, A, UpTo(x))) <= Cardinality(F)
  <2>1. PICK W : W = Within(v, A, UpTo(x))
    OBVIOUS
  <2>2. W \subseteq F
    <3>1. ASSUME NEW h \in W PROVE h \in F
      <4>1. h \in A /\ (v[h].id = x \/ Sooner(v[h].id, x))
        BY <2>1 DEF Within, UpTo
      <4>2. Sooner(v[h].id, v[i].id)
        BY <1>7, <4>1, NodesOrdered
      <4> QED
        BY <1>3, <4>1, <4>2 DEF Earlier
    <3> QED
      BY <3>1
  <2> QED
    BY <1>5, <2>1, <2>2, FS_Subset
<1> QED
  BY <1>4, <1>6, <1>7

(***************************************************************************)
(* If every node has as many shares in two views, the same numbers are     *)
(* those of the same nodes.                                                *)
(***************************************************************************)
LEMMA SameNumbers ==
  ASSUME NEW v, NEW l, Listed(v, l), NEW A \in SUBSET (1..l), NEW i \in A,
         NEW w, NEW m, Listed(w, m), NEW B \in SUBSET (1..m), NEW k \in B,
         \A x : Cardinality(Those(v, A, x)) = Cardinality(Those(w, B, x)),
         NEW j \in Nat, Rank(v, A, i) = j, Rank(w, B, k) = j
  PROVE  v[i].id = w[k].id
<1>1. IsFiniteSet(A) /\ IsFiniteSet(B)
  <2>1. IsFiniteSet(1..l) /\ IsFiniteSet(1..m)
    BY FS_Interval DEF Listed
  <2> QED
    BY <2>1, FS_Subset
<1>2. PICK a \in Nodes : a = v[i].id
  BY DEF Listed
<1>3. PICK b \in Nodes : b = w[k].id
  BY DEF Listed
<1>4. ASSUME NEW x
      PROVE  /\ Cardinality(Within(v, A, UpTo(x))) = Cardinality(Within(w, B, UpTo(x)))
             /\ Cardinality(Within(v, A, UpTo(x))) \in Nat
  BY <1>1, AsMany
<1>5. /\ j < Cardinality(Within(v, A, UpTo(a)))
      /\ \A x \in Nodes : Sooner(x, a) => Cardinality(Within(v, A, UpTo(x))) <= j
  BY <1>2, NumberBounds
<1>6. /\ j < Cardinality(Within(w, B, UpTo(b)))
      /\ \A x \in Nodes : Sooner(x, b) => Cardinality(Within(w, B, UpTo(x))) <= j
  BY <1>3, NumberBounds
<1>7. ~Sooner(a, b)
  BY <1>4, <1>5, <1>6
<1>8. ~Sooner(b, a)
  BY <1>4, <1>5, <1>6
<1> QED
  BY <1>2, <1>3, <1>7, <1>8, NodesOrdered

(***************************************************************************)
(* One owner per slot, and redirections that end.                          *)
(***************************************************************************)
LEMMA OwnersAreOne == ClusterIndInv => OneOwner /\ MovedEnds
<1> SUFFICES ASSUME ClusterIndInv PROVE OneOwner /\ MovedEnds
  OBVIOUS
<1>1. ASSUME NEW n \in Viewers, NEW slot \in Slots
      PROVE  Cardinality({i \in DOMAIN view[n] : Holds(view[n][i], slot)}) = 1
  <2>1. PICK v : v = view[n]
    OBVIOUS
  <2>2. PICK A : A = HasSlots(v)
    OBVIOUS
  <2>3. PICK k \in Nat : k = Cardinality(A)
    BY <2>1, <2>2, SlotNumber
  <2>4. PICK j \in 0..(k - 1) : Falls(slot, k, j)
    BY <2>1, <2>2, <2>3, SlotNumber
  <2> QED
    BY <2>1, <2>2, <2>3, <2>4, SlotOwner
<1>2. ASSUME NEW n \in Viewers, NEW m \in Viewers, NEW slot \in Slots,
             Shares(n) = Shares(m), Owner(n, slot) = m
      PROVE  SelfOwns(m, slot)
  <2>1. PICK v : v = view[n]
    OBVIOUS
  <2>2. PICK w : w = view[m]
    OBVIOUS
  <2>3. PICK A : A = HasSlots(v)
    OBVIOUS
  <2>4. PICK B : B = HasSlots(w)
    OBVIOUS
  <2>5. Roster(v) /\ A \in SUBSET (1..Len(v)) /\ IsFiniteSet(A)
    BY <2>1, <2>3, SlotNumber
  <2>6. Roster(w) /\ B \in SUBSET (1..Len(w)) /\ IsFiniteSet(B)
    BY <2>2, <2>4, SlotNumber
  <2>7. \A x : Cardinality(Those(v, A, x)) = Cardinality(Those(w, B, x))
    <3>1. DOMAIN v = 1..Len(v) /\ DOMAIN w = 1..Len(w) /\ Listed(v, Len(v)) /\ Listed(w, Len(w))
      BY <2>5, <2>6, RosterFacts
    <3>2. ASSUME NEW x \in Nodes PROVE Cardinality(Those(v, A, x)) = Cardinality(Those(w, B, x))
      <4>1. Those(v, A, x) = {i \in DOMAIN view[n] : view[n][i].id = x /\ view[n][i].start # -1}
        BY <2>1, <2>3, <3>1 DEF Those, HasSlots
      <4>2. Those(w, B, x) = {i \in DOMAIN view[m] : view[m][i].id = x /\ view[m][i].start # -1}
        BY <2>2, <2>4, <3>1 DEF Those, HasSlots
      <4>3. Shares(n)[x] = Cardinality(Those(v, A, x))
        BY <4>1 DEF Shares
      <4>4. Shares(m)[x] = Cardinality(Those(w, B, x))
        BY <4>2 DEF Shares
      <4> QED
        BY <1>2, <4>3, <4>4
    <3>3. ASSUME NEW x, x \notin Nodes PROVE Those(v, A, x) = {} /\ Those(w, B, x) = {}
      BY <2>5, <2>6, <3>1, <3>3 DEF Those, Listed
    <3> QED
      BY <3>2, <3>3
  <2>8. PICK k \in Nat : k = Cardinality(A) /\ k = Cardinality(B)
    <3>1. Cardinality(A) \in Nat
      BY <2>1, <2>3, SlotNumber
    <3>2. Within(v, A, Nodes) = A /\ Within(w, B, Nodes) = B
      <4>1. Listed(v, Len(v)) /\ Listed(w, Len(w))
        BY <2>5, <2>6, RosterFacts
      <4> QED
        BY <2>5, <2>6, <4>1 DEF Within, Listed
    <3>3. Cardinality(Within(v, A, Nodes)) = Cardinality(Within(w, B, Nodes))
      BY <2>5, <2>6, <2>7, AsMany
    <3> QED
      BY <3>1, <3>2, <3>3
  <2>9. k = Cardinality(A)
    BY <2>8
  <2>10. k = Cardinality(B)
    BY <2>8
  <2>11. PICK j \in 0..(k - 1) : Falls(slot, k, j)
    BY <2>1, <2>3, <2>8, SlotNumber
  <2>12. PICK a \in A : Rank(v, A, a) = j /\ Owner(n, slot) = v[a].id
    <3>1. IsNumbered(v, A, j, Owner(n, slot))
      BY <2>1, <2>3, <2>11, <2>9, SlotOwner
    <3> QED
      BY <3>1 DEF IsNumbered
  <2>13. PICK b \in B : Rank(w, B, b) = j /\ Owner(m, slot) = w[b].id
    <3>1. IsNumbered(w, B, j, Owner(m, slot))
      BY <2>2, <2>4, <2>11, <2>10, SlotOwner
    <3> QED
      BY <3>1 DEF IsNumbered
  <2>14. v[a].id = w[b].id
    <3>1. Listed(v, Len(v)) /\ Listed(w, Len(w)) /\ j \in Nat
      BY <2>5, <2>6, RosterFacts
    <3> QED
      BY <2>5, <2>6, <2>7, <2>12, <2>13, <3>1, SameNumbers
  <2>15. self[m].id = m
    BY ServerFacts DEF ViewSound
  <2> QED
    BY <1>2, <2>12, <2>13, <2>14, <2>15 DEF SelfOwns
<1> QED
  BY <1>1, <1>2 DEF OneOwner, MovedEnds

(***************************************************************************)
(* The copy of the server's own entry agrees with it.                      *)
(***************************************************************************)
LEMMA SelfIsTrue == ClusterIndInv => SelfAgrees
<1> SUFFICES ASSUME ClusterIndInv, NEW n \in Viewers
             PROVE  /\ self[n].id = n
                    /\ EntryOf(view[n], n).start = self[n].start
                    /\ EntryOf(view[n], n).end = self[n].end
  BY DEF SelfAgrees
<1>1. PICK v : v = view[n]
  OBVIOUS
<1>2. Roster(v) /\ ViewSound(n, v, self[n])
  BY <1>1, ServerFacts DEF ViewSound
<1>3. PICK k \in 1..Len(v) : IsLast(v, n, k) /\ v[k].start = self[n].start /\ v[k].end = self[n].end
  BY <1>2 DEF ViewSound
<1>4. EntryOf(v, n) = v[k]
  BY <1>2, <1>3, LastEntry
<1>5. self[n].id = n
  BY <1>2 DEF ViewSound
<1> QED
  BY <1>1, <1>3, <1>4, <1>5

(***************************************************************************)
(* The types.                                                              *)
(***************************************************************************)
LEMMA ClusterTypes == ClusterIndInv => ClusterTypeOK
<1> SUFFICES ASSUME ClusterIndInv PROVE ClusterTypeOK
  OBVIOUS
<1>1. up \subseteq Nodes
  BY DEF ClusterIndInv, AllSound
<1>2. ASSUME NEW n \in Viewers
      PROVE  view[n] \in Seq(ViewEntries) /\ meeting[n] \in Seq(Addresses) /\ flying[n] \subseteq Results
  <2>1. view[n] \in Seq(ViewEntries)
    BY ServerFacts DEF ViewSound, Roster
  <2>2. meeting[n] \in Seq(Addresses)
    <3>1. meeting[n] = <<>> \/ \E a \in Addresses : meeting[n] = <<a>>
      BY ServerFacts DEF AsksOne
    <3>2. <<>> \in Seq(Addresses)
      OBVIOUS
    <3>3. ASSUME NEW a \in Addresses PROVE <<a>> \in Seq(Addresses)
      OBVIOUS
    <3>4. CASE meeting[n] = <<>>
      BY <3>2, <3>4
    <3>5. CASE \E a \in Addresses : meeting[n] = <<a>>
      BY <3>3, <3>5
    <3> QED
      BY <3>1, <3>4, <3>5
  <2>3. flying[n] \subseteq Results
    BY ServerFacts
  <2> QED
    BY <2>1, <2>2, <2>3
<1> QED
  BY <1>1, <1>2 DEF ClusterTypeOK, ViewEntries, Results

(***************************************************************************)
(* Through joins at any addresses, departures, resets, crashes, restarts   *)
(* and late results of pings, for any number of servers, addresses and     *)
(* slots: every slot has exactly one owner in a server's view, the         *)
(* server's copy of its own entry is true, and MOVED names a server that   *)
(* serves the slot if the two divided the slots among the same nodes, each *)
(* of them as often.                                                       *)
(***************************************************************************)
THEOREM ClusterIsSound == ClusterSpec => []ClusterInv
<1>1. ClusterIndInv => ClusterInv
  BY ClusterTypes, OwnersAreOne, SelfIsTrue DEF ClusterInv
<1> QED
  BY <1>1, ClusterInitInv, ClusterStep, PTL DEF ClusterSpec

-----------------------------------------------------------------------------
(***************************************************************************)
(* SORTED SETS                                                             *)
(***************************************************************************)

(***************************************************************************)
(* Bisection between i and j when the condition holds from t on.           *)
(***************************************************************************)
BisectAt(t, i, j) == IF i >= j THEN i ELSE IF t < i THEN i ELSE IF t > j THEN j ELSE t

Bisects(n, hits, f) ==
  f = [r \in (0..n) \X (0..n) |->
        LET i == r[1]
            j == r[2]
            h == (i + j) \div 2 IN
        IF i >= j THEN i ELSE IF h \in hits THEN f[<<i, h>>] ELSE f[<<h + 1, j>>]]

(***************************************************************************)
(* There is a function that bisects.                                       *)
(***************************************************************************)
LEMMA BisectExists ==
  ASSUME NEW n \in Nat, NEW hits, NEW t \in 0..n,
         \A i \in 0..(n - 1) : i \in hits <=> t <= i
  PROVE  \E f : Bisects(n, hits, f)
<1> DEFINE f == [r \in (0..n) \X (0..n) |-> BisectAt(t, r[1], r[2])]
<1>1. ASSUME NEW i \in 0..n, NEW j \in 0..n
      PROVE  BisectAt(t, i, j) = LET h == (i + j) \div 2 IN
               IF i >= j THEN i ELSE IF h \in hits THEN f[<<i, h>>] ELSE f[<<h + 1, j>>]
  <2>1. CASE i >= j
    BY <2>1 DEF BisectAt
  <2>2. CASE ~(i >= j)
    <3>1. PICK h : h = (i + j) \div 2
      OBVIOUS
    <3>2. i < j
      BY <2>2
    <3>3. h \in 0..(n - 1) /\ i <= h /\ h < j
      BY <3>1, <3>2
    <3>4. BisectAt(t, i, j) = IF h \in hits THEN BisectAt(t, i, h) ELSE BisectAt(t, h + 1, j)
      <4>1. h \in hits <=> t <= h
        BY <3>3
      <4>2. CASE t <= h
        BY <3>2, <3>3, <4>1, <4>2 DEF BisectAt
      <4>3. CASE ~(t <= h)
        BY <3>2, <3>3, <4>1, <4>3 DEF BisectAt
      <4> QED
        BY <4>2, <4>3
    <3>5. f[<<i, h>>] = BisectAt(t, i, h) /\ f[<<h + 1, j>>] = BisectAt(t, h + 1, j)
      BY <3>3
    <3> HIDE DEF f
    <3> QED
      BY <2>2, <3>1, <3>4, <3>5
  <2> QED
    BY <2>1, <2>2
<1>2. f = [r \in (0..n) \X (0..n) |->
             LET i == r[1]
                 j == r[2]
                 h == (i + j) \div 2 IN
             IF i >= j THEN i ELSE IF h \in hits THEN f[<<i, h>>] ELSE f[<<h + 1, j>>]]
  <2>1. ASSUME NEW r \in (0..n) \X (0..n)
        PROVE  f[r] = LET i == r[1]
                          j == r[2]
                          h == (i + j) \div 2 IN
                      IF i >= j THEN i ELSE IF h \in hits THEN f[<<i, h>>] ELSE f[<<h + 1, j>>]
    <3>1. PICK i \in 0..n : i = r[1]
      OBVIOUS
    <3>2. PICK j \in 0..n : j = r[2]
      OBVIOUS
    <3>3. f[r] = BisectAt(t, i, j)
      BY <3>1, <3>2
    <3> HIDE DEF f
    <3> QED
      BY <1>1, <3>1, <3>2, <3>3
  <2> QED
    BY <2>1
<1> HIDE DEF f
<1>3. Bisects(n, hits, f)
  BY <1>2 DEF Bisects
<1> QED
  BY <1>3

(***************************************************************************)
(* sort.Search: if the condition holds from some position t on, that is    *)
(* the position found.                                                     *)
(***************************************************************************)
LEMMA SearchFinds ==
  ASSUME NEW n \in Nat, NEW hits, NEW t \in 0..n,
         \A i \in 0..(n - 1) : i \in hits <=> t <= i
  PROVE  Search(n, hits) = t
<1>1. PICK f : f = CHOOSE g : Bisects(n, hits, g)
  OBVIOUS
<1>2. Bisects(n, hits, f)
  BY <1>1, BisectExists
<1>3. Search(n, hits) = f[<<0, n>>]
  BY <1>1 DEF Search, Bisects
<1>4. ASSUME NEW i \in 0..n, NEW j \in 0..n
      PROVE  f[<<i, j>>] = LET h == (i + j) \div 2 IN
               IF i >= j THEN i ELSE IF h \in hits THEN f[<<i, h>>] ELSE f[<<h + 1, j>>]
  BY <1>2 DEF Bisects
<1> DEFINE S == {d \in 0..n : \A i, j \in 0..n : i <= t /\ t <= j /\ j - i <= d => f[<<i, j>>] = t}
<1>5. 0 \in S
  <2>1. ASSUME NEW i \in 0..n, NEW j \in 0..n, i <= t, t <= j, j - i <= 0 PROVE f[<<i, j>>] = t
    <3>1. i >= j /\ i = t
      BY <2>1
    <3> QED
      BY <1>4, <3>1
  <2> QED
    BY <2>1
<1>6. ASSUME NEW d \in 0..(n - 1), d \in S PROVE d + 1 \in S
  <2>1. ASSUME NEW i \in 0..n, NEW j \in 0..n, i <= t, t <= j, j - i <= d + 1 PROVE f[<<i, j>>] = t
    <3>1. CASE i >= j
      <4>1. i = t
        BY <2>1, <3>1
      <4> QED
        BY <1>4, <3>1, <4>1
    <3>2. CASE ~(i >= j)
      <4>1. PICK h : h = (i + j) \div 2
        OBVIOUS
      <4>2. h \in 0..(n - 1) /\ i <= h /\ h < j
        BY <3>2, <4>1
      <4>3. f[<<i, j>>] = IF h \in hits THEN f[<<i, h>>] ELSE f[<<h + 1, j>>]
        BY <1>4, <3>2, <4>1
      <4>4. CASE t <= h
        <5>1. h \in hits
          BY <4>2, <4>4
        <5>2. h \in 0..n /\ h - i <= d
          BY <2>1, <4>2
        <5>3. f[<<i, h>>] = t
          BY <1>6, <2>1, <4>4, <5>2
        <5> QED
          BY <4>3, <5>1, <5>3
      <4>5. CASE ~(t <= h)
        <5>1. h \notin hits
          BY <4>2, <4>5
        <5>2. h + 1 \in 0..n /\ j - (h + 1) <= d /\ h + 1 <= t
          BY <2>1, <4>2, <4>5
        <5>3. f[<<h + 1, j>>] = t
          BY <1>6, <2>1, <5>2
        <5> QED
          BY <4>3, <5>1, <5>3
      <4> QED
        BY <4>4, <4>5
    <3> QED
      BY <3>1, <3>2
  <2>2. d + 1 \in 0..n
    OBVIOUS
  <2> QED
    BY <2>1, <2>2
<1>7. \A d \in 0..n : d \in S
  <2> HIDE DEF S
  <2> QED
    BY <1>5, <1>6, CountUp
<1>8. n \in S /\ 0 \in 0..n /\ n \in 0..n /\ 0 <= t /\ t <= n /\ n - 0 <= n
  BY <1>7
<1> QED
  BY <1>3, <1>8

(***************************************************************************)
(* If the condition holds at every position after one where it holds,      *)
(* there is such a position t.                                             *)
(***************************************************************************)
LEMMA SearchSplits ==
  ASSUME NEW n \in Nat, NEW hits, \A i, j \in 0..(n - 1) : i \in hits /\ i <= j => j \in hits
  PROVE  \E t \in 0..n : Search(n, hits) = t /\ \A i \in 0..(n - 1) : i \in hits <=> t <= i
<1> DEFINE T == {i \in 0..n : i = n \/ i \in hits}
<1>1. T \in SUBSET Nat /\ n \in T
  OBVIOUS
<1>2. PICK t \in T : \A k \in T : t <= k
  <2> HIDE DEF T
  <2> QED
    BY <1>1, LeastNumber
<1>3. t \in 0..n
  OBVIOUS
<1>4. \A i \in 0..(n - 1) : i \in hits <=> t <= i
  <2> SUFFICES ASSUME NEW i \in 0..(n - 1) PROVE i \in hits <=> t <= i
    OBVIOUS
  <2>1. ASSUME i \in hits PROVE t <= i
    BY <1>2, <2>1
  <2>2. ASSUME t <= i PROVE i \in hits
    <3>1. t \in 0..(n - 1) /\ t \in hits
      BY <1>3, <2>2
    <3> QED
      BY <2>2, <3>1
  <2> QED
    BY <2>1, <2>2
<1>5. Search(n, hits) = t
  BY <1>3, <1>4, SearchFinds
<1> QED
  BY <1>3, <1>4, <1>5

-----------------------------------------------------------------------------
Precedes(a, b) == a.score < b.score \/ (a.score = b.score /\ a.member < b.member)

Entries == [member : Members, score : Scores]

Rises(q) == \A i, j \in 1..Len(q) : i < j => Precedes(q[i], q[j])

(***************************************************************************)
(* The slice q lists exactly the members of the map sc with their scores,  *)
(* in strictly rising order.                                               *)
(***************************************************************************)
ListsAll(sc, q) ==
  /\ DOMAIN sc \subseteq Members /\ \A m \in DOMAIN sc : sc[m] \in Scores
  /\ q \in Seq(Entries) /\ Rises(q)
  /\ \A i \in 1..Len(q) : q[i].member \in DOMAIN sc /\ sc[q[i].member] = q[i].score
  /\ \A m \in DOMAIN sc : \E i \in 1..Len(q) : q[i].member = m

(***************************************************************************)
(* The inductive invariant of sorted sets.                                 *)
(***************************************************************************)
SortedSetIndInv == ListsAll(scores, ordered)

(***************************************************************************)
(* The order of entries is a strict order.                                 *)
(***************************************************************************)
LEMMA EntryOrder ==
  /\ \A a \in Entries : a.member \in Int /\ a.score \in Int
  /\ \A a, b, c \in Entries : Precedes(a, b) /\ Precedes(b, c) => Precedes(a, c)
  /\ \A a, b \in Entries : Precedes(a, b) => ~Precedes(b, a)
  /\ \A a, b \in Entries : a.member # b.member => Precedes(a, b) \/ Precedes(b, a)
<1>1. ASSUME NEW a \in Entries PROVE a.member \in Int /\ a.score \in Int
  <2>1. a.member \in Members /\ a.score \in Scores
    BY DEF Entries
  <2>2. (\A k \in Members : k \in Nat) /\ (\A k \in Scores : k \in Int)
    BY SortedSetAssumption
  <2> QED
    BY <2>1, <2>2
<1>2. ASSUME NEW a \in Entries, NEW b \in Entries, NEW c \in Entries, Precedes(a, b), Precedes(b, c)
      PROVE  Precedes(a, c)
  BY <1>1, <1>2 DEF Precedes
<1>3. ASSUME NEW a \in Entries, NEW b \in Entries, Precedes(a, b) PROVE ~Precedes(b, a)
  BY <1>1, <1>3 DEF Precedes
<1>4. ASSUME NEW a \in Entries, NEW b \in Entries, a.member # b.member
      PROVE  Precedes(a, b) \/ Precedes(b, a)
  BY <1>1, <1>4 DEF Precedes
<1> QED
  BY <1>1, <1>2, <1>3, <1>4

(***************************************************************************)
(* findPos divides a rising slice into the entries that precede the one    *)
(* looked for and the others.                                              *)
(***************************************************************************)
LEMMA FindSplits ==
  ASSUME NEW q \in Seq(Entries), Rises(q), NEW x \in Scores, NEW m \in Members
  PROVE  \E t \in 0..Len(q) :
           /\ findPos(q, x, m) = t
           /\ \A i \in 1..Len(q) : Precedes(q[i], [member |-> m, score |-> x]) <=> i <= t
<1>1. PICK n \in Nat : n = Len(q) /\ \A i \in 1..n : q[i] \in Entries
  BY LenProperties, ElementOfSeq
<1>2. PICK e : e = [member |-> m, score |-> x]
  OBVIOUS
<1>3. e \in Entries /\ e.member = m /\ e.score = x
  BY <1>2 DEF Entries
<1> DEFINE hits == {i \in 0..(n - 1) : IF q[i + 1].score # x THEN q[i + 1].score > x
                                       ELSE q[i + 1].member >= m}
<1>4. findPos(q, x, m) = Search(n, hits)
  BY <1>1 DEF findPos
<1>5. \A i \in 0..(n - 1) : i \in hits <=> ~Precedes(q[i + 1], e)
  <2> SUFFICES ASSUME NEW i \in 0..(n - 1) PROVE i \in hits <=> ~Precedes(q[i + 1], e)
    OBVIOUS
  <2>1. PICK a : a = q[i + 1]
    OBVIOUS
  <2>2. i + 1 \in 1..n
    OBVIOUS
  <2>3. a \in Entries
    BY <1>1, <2>1, <2>2
  <2>4. a.member \in Int /\ a.score \in Int /\ m \in Int /\ x \in Int
    BY <1>3, <2>3, EntryOrder
  <2>5. (IF a.score # x THEN a.score > x ELSE a.member >= m) <=> ~Precedes(a, e)
    BY <1>3, <2>4 DEF Precedes
  <2> QED
    BY <2>1, <2>5
<1> HIDE DEF hits
<1>6. \A i, j \in 0..(n - 1) : i \in hits /\ i <= j => j \in hits
  <2> SUFFICES ASSUME NEW i \in 0..(n - 1), NEW j \in 0..(n - 1), i \in hits, i < j PROVE j \in hits
    OBVIOUS
  <2>1. i + 1 \in 1..n /\ j + 1 \in 1..n /\ i + 1 < j + 1
    OBVIOUS
  <2>2. PICK a \in Entries : a = q[i + 1]
    BY <1>1, <2>1
  <2>3. PICK b \in Entries : b = q[j + 1]
    BY <1>1, <2>1
  <2>4. Precedes(a, b)
    BY <1>1, <2>1, <2>2, <2>3 DEF Rises
  <2>5. ~Precedes(a, e)
    BY <1>5, <2>2
  <2>6. ~Precedes(b, e)
    BY <1>3, <2>4, <2>5, EntryOrder
  <2> QED
    BY <1>5, <2>3, <2>6
<1>7. PICK t \in 0..n : Search(n, hits) = t /\ \A i \in 0..(n - 1) : i \in hits <=> t <= i
  BY <1>6, SearchSplits
<1>8. ASSUME NEW i \in 1..n PROVE Precedes(q[i], e) <=> i <= t
  <2>1. PICK k \in 0..(n - 1) : i = k + 1 /\ k = i - 1
    OBVIOUS
  <2>2. k \in hits <=> ~Precedes(q[i], e)
    BY <1>5, <2>1
  <2>3. k \in hits <=> t <= k
    BY <1>7
  <2>4. t <= k <=> ~(i <= t)
    BY <2>1
  <2> QED
    BY <2>2, <2>3, <2>4
<1> QED
  BY <1>1, <1>2, <1>4, <1>7, <1>8

-----------------------------------------------------------------------------
Without(sc, m) == [k \in DOMAIN sc \ {m} |-> sc[k]]
With(sc, m, x) == [k \in DOMAIN sc \cup {m} |-> IF k = m THEN x ELSE sc[k]]

(***************************************************************************)
(* Two entries of the slice are of two members.                            *)
(***************************************************************************)
LEMMA OnePlace ==
  ASSUME NEW sc, NEW q, ListsAll(sc, q), NEW i \in 1..Len(q), NEW j \in 1..Len(q),
         q[i].member = q[j].member
  PROVE  i = j
<1>1. PICK n \in Nat : n = Len(q) /\ \A k \in 1..n : q[k] \in Entries
  BY LenProperties, ElementOfSeq DEF ListsAll
<1>2. q[i].score = q[j].score
  BY DEF ListsAll
<1>3. ASSUME NEW a \in 1..n, NEW b \in 1..n, a < b, q[a].member = q[b].member, q[a].score = q[b].score
      PROVE  FALSE
  <2>1. Precedes(q[a], q[b])
    BY <1>1, <1>3 DEF ListsAll, Rises
  <2>2. q[a].member \in Int /\ q[a].score \in Int
    BY <1>1, EntryOrder
  <2> QED
    BY <1>3, <2>1, <2>2 DEF Precedes
<1>4. i \in Int /\ j \in Int /\ i \in 1..n /\ j \in 1..n
  BY <1>1
<1>5. ~(i < j) /\ ~(j < i)
  BY <1>2, <1>3, <1>4
<1> QED
  BY <1>4, <1>5

(***************************************************************************)
(* A member that the map has is found where it is.                         *)
(***************************************************************************)
LEMMA FindsMember ==
  ASSUME NEW sc, NEW q, ListsAll(sc, q), NEW i \in 1..Len(q)
  PROVE  findPos(q, sc[q[i].member], q[i].member) = i - 1
<1>1. PICK n \in Nat : n = Len(q) /\ \A k \in 1..n : q[k] \in Entries
  BY LenProperties, ElementOfSeq DEF ListsAll
<1>2. PICK e \in Entries : e = q[i]
  BY <1>1
<1>3. PICK m \in Members : m = e.member
  BY DEF Entries
<1>4. PICK x \in Scores : x = e.score
  BY DEF Entries
<1>5. sc[m] = x
  BY <1>2, <1>3, <1>4 DEF ListsAll
<1>6. PICK t \in 0..Len(q) :
           /\ findPos(q, x, m) = t
           /\ \A k \in 1..Len(q) : Precedes(q[k], [member |-> m, score |-> x]) <=> k <= t
  BY FindSplits DEF ListsAll
<1>7. e = [member |-> m, score |-> x]
  BY <1>3, <1>4 DEF Entries
<1>8. \A k \in 1..n : Precedes(q[k], e) <=> k <= t
  BY <1>1, <1>6, <1>7
<1>9. ~(i <= t)
  <2>1. ~Precedes(e, e)
    BY EntryOrder
  <2> QED
    BY <1>1, <1>2, <1>8, <2>1
<1>10. ASSUME NEW k \in 1..n, k < i PROVE k <= t
  <2>1. Precedes(q[k], e)
    BY <1>1, <1>2, <1>10 DEF ListsAll, Rises
  <2> QED
    BY <1>8, <2>1
<1>11. t = i - 1
  <2>1. i \in 1..n /\ t \in 0..n
    BY <1>1
  <2>2. CASE i = 1
    BY <1>9, <2>1, <2>2
  <2>3. CASE i # 1
    <3>1. i - 1 \in 1..n /\ i - 1 < i
      BY <2>1, <2>3
    <3>2. i - 1 <= t
      BY <1>10, <3>1
    <3> QED
      BY <1>9, <2>1, <3>2
  <2> QED
    BY <2>2, <2>3
<1> QED
  BY <1>2, <1>3, <1>5, <1>6, <1>11

(***************************************************************************)
(* removeOrdered takes out the entry of a member that the map has.         *)
(***************************************************************************)
LEMMA RemoveLists ==
  ASSUME NEW sc, NEW q, ListsAll(sc, q), NEW m \in DOMAIN sc
  PROVE  ListsAll(Without(sc, m), removeOrdered(q, m, sc[m]))
<1>1. PICK n \in Nat : n = Len(q) /\ \A k \in 1..n : q[k] \in Entries
  BY LenProperties, ElementOfSeq DEF ListsAll
<1>2. PICK i \in 1..n : q[i].member = m
  BY <1>1 DEF ListsAll
<1>3. findPos(q, sc[m], m) = i - 1
  <2>1. findPos(q, sc[q[i].member], q[i].member) = i - 1
    BY <1>1, FindsMember
  <2> QED
    BY <1>2, <2>1
<1>4. PICK r : r = RemoveAt(q, i)
  OBVIOUS
<1>5. removeOrdered(q, m, sc[m]) = r
  <2>1. i - 1 < n /\ i - 1 + 1 = i
    OBVIOUS
  <2> QED
    BY <1>1, <1>2, <1>3, <1>4, <2>1 DEF removeOrdered
<1>6. q \in Seq(Entries) /\ i \in 1..Len(q)
  BY <1>1 DEF ListsAll
<1>7. r \in Seq(Entries) /\ Len(r) = n - 1
  BY <1>1, <1>4, <1>6, RemoveAtFacts
<1>8. \A j \in 1..(n - 1) : r[j] = IF j < i THEN q[j] ELSE q[j + 1]
  <2>1. \A j \in 1..(Len(q) - 1) : RemoveAt(q, i)[j] = IF j < i THEN q[j] ELSE q[j + 1]
    BY <1>6, RemoveAtFacts
  <2> QED
    BY <1>1, <1>4, <2>1
<1>9. ASSUME NEW j \in 1..(n - 1)
      PROVE  \E k \in 1..n : r[j] = q[k] /\ k # i /\ k = IF j < i THEN j ELSE j + 1
  BY <1>8
<1>10. PICK s : s = Without(sc, m)
  OBVIOUS
<1>11. DOMAIN s = DOMAIN sc \ {m} /\ \A k \in DOMAIN s : s[k] = sc[k]
  BY <1>10 DEF Without
<1>12. Rises(r)
  <2> SUFFICES ASSUME NEW a \in 1..(n - 1), NEW b \in 1..(n - 1), a < b PROVE Precedes(r[a], r[b])
    BY <1>7 DEF Rises
  <2>1. PICK c \in 1..n : r[a] = q[c] /\ c = IF a < i THEN a ELSE a + 1
    BY <1>9
  <2>2. PICK d \in 1..n : r[b] = q[d] /\ d = IF b < i THEN b ELSE b + 1
    BY <1>9
  <2>3. c < d
    BY <2>1, <2>2
  <2>4. Precedes(q[c], q[d])
    BY <1>1, <2>3 DEF ListsAll, Rises
  <2> QED
    BY <2>1, <2>2, <2>4
<1>13. ASSUME NEW j \in 1..(n - 1) PROVE r[j].member \in DOMAIN s /\ s[r[j].member] = r[j].score
  <2>1. PICK k \in 1..n : r[j] = q[k] /\ k # i
    BY <1>9
  <2>2. q[k].member \in DOMAIN sc /\ sc[q[k].member] = q[k].score
    BY <1>1 DEF ListsAll
  <2>3. q[k].member # m
    BY <1>1, <1>2, <2>1, OnePlace
  <2> QED
    BY <1>11, <2>1, <2>2, <2>3
<1>14. ASSUME NEW k \in DOMAIN s PROVE \E j \in 1..(n - 1) : r[j].member = k
  <2>1. k \in DOMAIN sc /\ k # m
    BY <1>11
  <2>2. PICK a \in 1..n : q[a].member = k
    BY <1>1, <2>1 DEF ListsAll
  <2>3. a # i
    BY <1>2, <2>1, <2>2
  <2>4. PICK j \in 1..(n - 1) : a = IF j < i THEN j ELSE j + 1
    <3>1. CASE a < i
      BY <3>1
    <3>2. CASE ~(a < i)
      <4>1. a - 1 \in 1..(n - 1) /\ ~(a - 1 < i) /\ a = a - 1 + 1
        BY <2>3, <3>2
      <4> QED
        BY <4>1
    <3> QED
      BY <3>1, <3>2
  <2> QED
    BY <1>8, <2>2, <2>4
<1>15. DOMAIN s \subseteq Members /\ \A k \in DOMAIN s : s[k] \in Scores
  BY <1>11 DEF ListsAll
<1>16. ListsAll(s, r)
  BY <1>7, <1>12, <1>13, <1>14, <1>15 DEF ListsAll
<1> QED
  BY <1>5, <1>10, <1>16

(***************************************************************************)
(* insertOrdered puts in the entry of a member that the map has not.       *)
(***************************************************************************)
LEMMA InsertLists ==
  ASSUME NEW sc, NEW q, ListsAll(sc, q), NEW m \in Members, m \notin DOMAIN sc, NEW x \in Scores
  PROVE  ListsAll(With(sc, m, x), insertOrdered(q, m, x))
<1>1. PICK n \in Nat : n = Len(q) /\ \A k \in 1..n : q[k] \in Entries
  BY LenProperties, ElementOfSeq DEF ListsAll
<1>2. PICK e : e = [member |-> m, score |-> x]
  OBVIOUS
<1>3. e \in Entries /\ e.member = m /\ e.score = x
  BY <1>2 DEF Entries
<1>4. PICK t \in 0..n : findPos(q, x, m) = t /\ \A k \in 1..n : Precedes(q[k], e) <=> k <= t
  <2>1. PICK t \in 0..Len(q) :
           /\ findPos(q, x, m) = t
           /\ \A i \in 1..Len(q) : Precedes(q[i], [member |-> m, score |-> x]) <=> i <= t
    BY FindSplits DEF ListsAll
  <2> QED
    BY <1>1, <1>2, <2>1
<1>5. PICK p \in 1..(n + 1) : p = t + 1
  OBVIOUS
<1>6. PICK r : r = InsertAt(q, p, e)
  OBVIOUS
<1>7. insertOrdered(q, m, x) = r
  BY <1>2, <1>4, <1>5, <1>6 DEF insertOrdered
<1>8. q \in Seq(Entries) /\ p \in 1..(Len(q) + 1)
  BY <1>1 DEF ListsAll
<1>9. r \in Seq(Entries) /\ Len(r) = n + 1
  BY <1>1, <1>3, <1>6, <1>8, InsertAtFacts
<1>10. \A j \in 1..(n + 1) : r[j] = IF j < p THEN q[j] ELSE IF j = p THEN e ELSE q[j - 1]
  <2>1. \A j \in 1..(Len(q) + 1) :
          InsertAt(q, p, e)[j] = IF j < p THEN q[j] ELSE IF j = p THEN e ELSE q[j - 1]
    BY <1>3, <1>8, InsertAtFacts
  <2> QED
    BY <1>1, <1>6, <2>1
<1>11. ASSUME NEW k \in 1..n PROVE q[k].member # m
  BY <1>1 DEF ListsAll
<1>12. ASSUME NEW j \in 1..(n + 1), j # p
       PROVE  \E k \in 1..n : r[j] = q[k] /\ k = IF j < p THEN j ELSE j - 1
  BY <1>10, <1>12
<1>13. Rises(r)
  <2> SUFFICES ASSUME NEW a \in 1..(n + 1), NEW b \in 1..(n + 1), a < b PROVE Precedes(r[a], r[b])
    BY <1>9 DEF Rises
  <2>1. CASE a # p /\ b # p
    <3>1. PICK c \in 1..n : r[a] = q[c] /\ c = IF a < p THEN a ELSE a - 1
      BY <1>12, <2>1
    <3>2. PICK d \in 1..n : r[b] = q[d] /\ d = IF b < p THEN b ELSE b - 1
      BY <1>12, <2>1
    <3>3. c < d
      BY <2>1, <3>1, <3>2
    <3>4. Precedes(q[c], q[d])
      BY <1>1, <3>3 DEF ListsAll, Rises
    <3> QED
      BY <3>1, <3>2, <3>4
  <2>2. CASE a = p
    <3>1. PICK d \in 1..n : r[b] = q[d] /\ d = IF b < p THEN b ELSE b - 1
      BY <1>12, <2>2
    <3>2. ~(d <= t)
      BY <1>5, <2>2, <3>1
    <3>3. ~Precedes(q[d], e)
      BY <1>4, <3>2
    <3>4. q[d] \in Entries /\ q[d].member # e.member
      BY <1>1, <1>3, <1>11
    <3>5. Precedes(e, q[d])
      BY <1>3, <3>3, <3>4, EntryOrder
    <3>6. r[a] = e
      BY <1>10, <2>2
    <3> QED
      BY <3>1, <3>5, <3>6
  <2>3. CASE b = p
    <3>1. PICK c \in 1..n : r[a] = q[c] /\ c = IF a < p THEN a ELSE a - 1
      BY <1>12, <2>3
    <3>2. c <= t
      BY <1>5, <2>3, <3>1
    <3>3. Precedes(q[c], e)
      BY <1>4, <3>2
    <3>4. r[b] = e
      BY <1>10, <2>3
    <3> QED
      BY <3>1, <3>3, <3>4
  <2> QED
    BY <2>1, <2>2, <2>3
<1>14. PICK s : s = With(sc, m, x)
  OBVIOUS
<1>15. DOMAIN s = DOMAIN sc \cup {m} /\ s[m] = x /\ \A k \in DOMAIN sc : s[k] = sc[k]
  BY <1>14 DEF With
<1>16. ASSUME NEW j \in 1..(n + 1) PROVE r[j].member \in DOMAIN s /\ s[r[j].member] = r[j].score
  <2>1. CASE j = p
    <3>1. r[j] = e
      BY <1>10, <2>1
    <3> QED
      BY <1>3, <1>15, <3>1
  <2>2. CASE j # p
    <3>1. PICK k \in 1..n : r[j] = q[k]
      BY <1>12, <2>2
    <3>2. q[k].member \in DOMAIN sc /\ sc[q[k].member] = q[k].score
      BY <1>1 DEF ListsAll
    <3> QED
      BY <1>15, <3>1, <3>2
  <2> QED
    BY <2>1, <2>2
<1>17. ASSUME NEW k \in DOMAIN s PROVE \E j \in 1..(n + 1) : r[j].member = k
  <2>1. CASE k = m
    <3>1. r[p] = e
      BY <1>10
    <3> QED
      BY <1>3, <2>1, <3>1
  <2>2. CASE k # m
    <3>1. k \in DOMAIN sc
      BY <1>15, <2>2
    <3>2. PICK a \in 1..n : q[a].member = k
      BY <1>1, <3>1 DEF ListsAll
    <3>3. PICK j \in 1..(n + 1) : j # p /\ j = IF a < p THEN a ELSE a + 1
      <4>1. CASE a < p
        BY <4>1
      <4>2. CASE ~(a < p)
        <5>1. a + 1 \in 1..(n + 1) /\ a + 1 # p
          BY <4>2
        <5> QED
          BY <4>2, <5>1
      <4> QED
        BY <4>1, <4>2
    <3>4. PICK c \in 1..n : r[j] = q[c] /\ c = IF j < p THEN j ELSE j - 1
      BY <1>12, <3>3
    <3>5. c = a
      BY <3>3, <3>4
    <3> QED
      BY <3>2, <3>4, <3>5
  <2> QED
    BY <2>1, <2>2
<1>18. DOMAIN s \subseteq Members /\ \A k \in DOMAIN s : s[k] \in Scores
  BY <1>15 DEF ListsAll
<1>19. ListsAll(s, r)
  BY <1>9, <1>13, <1>16, <1>17, <1>18 DEF ListsAll
<1> QED
  BY <1>7, <1>14, <1>19

(***************************************************************************)
(* A part of the slice lists the map without the members of the rest.      *)
(***************************************************************************)
LEMMA PartLists ==
  ASSUME NEW sc, NEW q, ListsAll(sc, q), NEW a \in 1..(Len(q) + 1), NEW b \in (a - 1)..Len(q),
         NEW gone, \A i \in 1..Len(q) : q[i].member \in gone <=> ~(a <= i /\ i <= b)
  PROVE  ListsAll([k \in DOMAIN sc \ gone |-> sc[k]], SubSeq(q, a, b))
<1>1. PICK n \in Nat : n = Len(q) /\ \A k \in 1..n : q[k] \in Entries
  BY LenProperties, ElementOfSeq DEF ListsAll
<1>2. PICK r : r = SubSeq(q, a, b)
  OBVIOUS
<1>3. PICK l \in Nat : l = b - a + 1
  BY <1>1
<1>4. q \in Seq(Entries)
  BY DEF ListsAll
<1>5. r \in Seq(Entries) /\ Len(r) = l /\ \A j \in 1..l : r[j] = q[a + j - 1]
  BY <1>2, <1>3, <1>4, SubSeqFacts
<1>6. ASSUME NEW j \in 1..l PROVE \E k \in 1..n : r[j] = q[k] /\ k = a + j - 1 /\ a <= k /\ k <= b
  <2>1. a + j - 1 \in 1..n /\ a <= a + j - 1 /\ a + j - 1 <= b
    BY <1>1, <1>3
  <2> QED
    BY <1>5, <2>1
<1>7. PICK s : s = [k \in DOMAIN sc \ gone |-> sc[k]]
  OBVIOUS
<1>8. DOMAIN s = DOMAIN sc \ gone /\ \A k \in DOMAIN s : s[k] = sc[k]
  BY <1>7
<1>9. Rises(r)
  <2> SUFFICES ASSUME NEW i \in 1..l, NEW j \in 1..l, i < j PROVE Precedes(r[i], r[j])
    BY <1>5 DEF Rises
  <2>1. PICK c \in 1..n : r[i] = q[c] /\ c = a + i - 1
    BY <1>6
  <2>2. PICK d \in 1..n : r[j] = q[d] /\ d = a + j - 1
    BY <1>6
  <2>3. c < d
    BY <1>1, <2>1, <2>2
  <2>4. Precedes(q[c], q[d])
    BY <1>1, <2>3 DEF ListsAll, Rises
  <2> QED
    BY <2>1, <2>2, <2>4
<1>10. ASSUME NEW j \in 1..l PROVE r[j].member \in DOMAIN s /\ s[r[j].member] = r[j].score
  <2>1. PICK k \in 1..n : r[j] = q[k] /\ a <= k /\ k <= b
    BY <1>6
  <2>2. q[k].member \in DOMAIN sc /\ sc[q[k].member] = q[k].score
    BY <1>1 DEF ListsAll
  <2>3. q[k].member \notin gone
    BY <1>1, <2>1
  <2> QED
    BY <1>8, <2>1, <2>2, <2>3
<1>11. ASSUME NEW k \in DOMAIN s PROVE \E j \in 1..l : r[j].member = k
  <2>1. k \in DOMAIN sc /\ k \notin gone
    BY <1>8
  <2>2. PICK i \in 1..n : q[i].member = k
    BY <1>1, <2>1 DEF ListsAll
  <2>3. a <= i /\ i <= b
    BY <1>1, <2>1, <2>2
  <2>4. PICK j \in 1..l : a + j - 1 = i
    <3>1. i - a + 1 \in 1..l /\ a + (i - a + 1) - 1 = i
      BY <1>1, <1>3, <2>3
    <3> QED
      BY <3>1
  <2> QED
    BY <1>5, <2>2, <2>4
<1>12. DOMAIN s \subseteq Members /\ \A k \in DOMAIN s : s[k] \in Scores
  BY <1>8 DEF ListsAll
<1>13. ListsAll(s, r)
  BY <1>5, <1>9, <1>10, <1>11, <1>12 DEF ListsAll
<1> QED
  BY <1>2, <1>7, <1>13

-----------------------------------------------------------------------------
(***************************************************************************)
(* The members of a part of the slice are those of no other part.          *)
(***************************************************************************)
LEMMA PartMembers ==
  ASSUME NEW sc, NEW q, ListsAll(sc, q), NEW a \in 1..(Len(q) + 1), NEW b \in (a - 1)..Len(q)
  PROVE  \A i \in 1..Len(q) : q[i].member \in MembersOf(SubSeq(q, a, b)) <=> a <= i /\ i <= b
<1>1. PICK n \in Nat : n = Len(q)
  BY LenProperties DEF ListsAll
<1>2. PICK r : r = SubSeq(q, a, b)
  OBVIOUS
<1>3. PICK l \in Nat : l = b - a + 1
  BY <1>1
<1>4. DOMAIN r = 1..l /\ \A j \in 1..l : r[j] = q[a + j - 1]
  <2>1. q \in Seq(Entries)
    BY DEF ListsAll
  <2> QED
    BY <1>2, <1>3, <2>1, SubSeqFacts
<1> SUFFICES ASSUME NEW i \in 1..n PROVE q[i].member \in MembersOf(r) <=> a <= i /\ i <= b
  BY <1>1, <1>2
<1>5. ASSUME a <= i, i <= b PROVE q[i].member \in MembersOf(r)
  <2>1. PICK j \in 1..l : a + j - 1 = i
    <3>1. i - a + 1 \in 1..l /\ a + (i - a + 1) - 1 = i
      BY <1>1, <1>3, <1>5
    <3> QED
      BY <3>1
  <2>2. r[j] = q[i]
    BY <1>4, <2>1
  <2> QED
    BY <1>4, <2>2 DEF MembersOf
<1>6. ASSUME q[i].member \in MembersOf(r) PROVE a <= i /\ i <= b
  <2>1. PICK j \in 1..l : q[i].member = r[j].member
    BY <1>4, <1>6 DEF MembersOf
  <2>2. PICK k \in 1..n : k = a + j - 1 /\ a <= k /\ k <= b
    <3>1. a + j - 1 \in 1..n /\ a <= a + j - 1 /\ a + j - 1 <= b
      BY <1>1, <1>3
    <3> QED
      BY <3>1
  <2>3. q[i].member = q[k].member
    BY <1>4, <2>1, <2>2
  <2>4. i = k
    BY <1>1, <2>3, OnePlace
  <2> QED
    BY <2>2, <2>4
<1> QED
  BY <1>5, <1>6

(***************************************************************************)
(* Every step keeps the invariant.                                         *)
(***************************************************************************)
LEMMA SortedSetStep ==
  ASSUME SortedSetIndInv, [SortedSetNext]_zsetVars
  PROVE  SortedSetIndInv'
<1>1. PICK n \in Nat : n = Len(ordered)
  BY LenProperties DEF SortedSetIndInv, ListsAll
<1>2. ASSUME NEW s, NEW r, ListsAll(s, r), scores' = s, ordered' = r PROVE SortedSetIndInv'
  <2>1. ListsAll(scores', ordered')
    BY <1>2
  <2> QED
    BY <2>1 DEF SortedSetIndInv, ListsAll, Rises, Precedes
<1>3. ASSUME NEW m \in Members, ZRem(m) PROVE SortedSetIndInv'
  <2>1. /\ m \in DOMAIN scores /\ ordered' = removeOrdered(ordered, m, scores[m])
        /\ scores' = Without(scores, m)
    BY <1>3 DEF ZRem, Unscored, Without
  <2>2. ListsAll(Without(scores, m), removeOrdered(ordered, m, scores[m]))
    BY <2>1, RemoveLists DEF SortedSetIndInv
  <2> QED
    BY <1>2, <2>1, <2>2
<1>4. ASSUME NEW m \in Members, NEW x \in Scores, ZAdd(m, x) PROVE SortedSetIndInv'
  <2>1. CASE m \in DOMAIN scores
    <3>1. PICK q : q = removeOrdered(ordered, m, scores[m])
      OBVIOUS
    <3>2. PICK s : s = Without(scores, m)
      OBVIOUS
    <3>3. ListsAll(s, q)
      BY <2>1, <3>1, <3>2, RemoveLists DEF SortedSetIndInv
    <3>4. m \notin DOMAIN s /\ scores' = With(s, m, x)
      BY <1>4, <2>1, <3>2 DEF ZAdd, Scored, Without, With
    <3>5. ordered' = insertOrdered(q, m, x)
      BY <1>4, <2>1, <3>1 DEF ZAdd
    <3>6. ListsAll(With(s, m, x), insertOrdered(q, m, x))
      BY <3>3, <3>4, InsertLists
    <3> QED
      BY <1>2, <3>4, <3>5, <3>6
  <2>2. CASE m \notin DOMAIN scores
    <3>1. scores' = With(scores, m, x) /\ ordered' = insertOrdered(ordered, m, x)
      BY <1>4, <2>2 DEF ZAdd, Scored, With
    <3>2. ListsAll(With(scores, m, x), insertOrdered(ordered, m, x))
      BY <2>2, InsertLists DEF SortedSetIndInv
    <3> QED
      BY <1>2, <3>1, <3>2
  <2> QED
    BY <2>1, <2>2
<1>5. ASSUME NEW many \in 1..(Len(ordered) + 1), PopMin(many) PROVE SortedSetIndInv'
  <2>1. PICK p \in 0..n : p = Popped(many)
    BY <1>1 DEF Popped
  <2>2. PICK gone : gone = MembersOf(SubSeq(ordered, 1, p))
    OBVIOUS
  <2>3. \A i \in 1..n : ordered[i].member \in gone <=> i <= p
    <3>1. 1 \in 1..(Len(ordered) + 1) /\ p \in (1 - 1)..Len(ordered)
      BY <1>1
    <3>2. \A i \in 1..Len(ordered) :
             ordered[i].member \in MembersOf(SubSeq(ordered, 1, p)) <=> 1 <= i /\ i <= p
      BY <3>1, PartMembers DEF SortedSetIndInv
    <3> QED
      BY <1>1, <2>2, <3>2
  <2>4. PICK a \in 1..(n + 1) : a = p + 1
    OBVIOUS
  <2>5. a \in 1..(Len(ordered) + 1) /\ n \in (a - 1)..Len(ordered)
    BY <1>1
  <2>6. \A i \in 1..Len(ordered) : ordered[i].member \in gone <=> ~(a <= i /\ i <= n)
    BY <1>1, <2>3, <2>4
  <2>7. ListsAll([k \in DOMAIN scores \ gone |-> scores[k]], SubSeq(ordered, a, n))
    BY <2>5, <2>6, PartLists DEF SortedSetIndInv
  <2>8. /\ scores' = [k \in DOMAIN scores \ gone |-> scores[k]]
        /\ ordered' = SubSeq(ordered, a, n)
    BY <1>1, <1>5, <2>1, <2>2, <2>4 DEF PopMin, Unscored
  <2> QED
    BY <1>2, <2>7, <2>8
<1>6. ASSUME NEW many \in 1..(Len(ordered) + 1), PopMax(many) PROVE SortedSetIndInv'
  <2>1. PICK p \in 0..n : p = Len(ordered) - Popped(many)
    BY <1>1 DEF Popped
  <2>2. PICK a \in 1..(n + 1) : a = p + 1
    OBVIOUS
  <2>3. PICK gone : gone = MembersOf(SubSeq(ordered, a, n))
    OBVIOUS
  <2>4. a \in 1..(Len(ordered) + 1) /\ n \in (a - 1)..Len(ordered)
    BY <1>1
  <2>5. \A i \in 1..Len(ordered) : ordered[i].member \in gone <=> a <= i /\ i <= n
    <3>1. \A i \in 1..Len(ordered) :
             ordered[i].member \in MembersOf(SubSeq(ordered, a, n)) <=> a <= i /\ i <= n
      BY <2>4, PartMembers DEF SortedSetIndInv
    <3> QED
      BY <2>3, <3>1
  <2>6. 1 \in 1..(Len(ordered) + 1) /\ p \in (1 - 1)..Len(ordered)
    BY <1>1
  <2>7. \A i \in 1..Len(ordered) : ordered[i].member \in gone <=> ~(1 <= i /\ i <= p)
    BY <1>1, <2>2, <2>5
  <2>8. ListsAll([k \in DOMAIN scores \ gone |-> scores[k]], SubSeq(ordered, 1, p))
    BY <2>6, <2>7, PartLists DEF SortedSetIndInv
  <2>9. /\ scores' = [k \in DOMAIN scores \ gone |-> scores[k]]
        /\ ordered' = SubSeq(ordered, 1, p)
    BY <1>1, <1>6, <2>1, <2>2, <2>3 DEF PopMax, Unscored
  <2> QED
    BY <1>2, <2>8, <2>9
<1>7. CASE UNCHANGED zsetVars
  <2>1. scores' = scores /\ ordered' = ordered
    BY <1>7 DEF zsetVars
  <2> QED
    BY <1>2, <2>1 DEF SortedSetIndInv
<1> QED
  BY <1>3, <1>4, <1>5, <1>6, <1>7 DEF SortedSetNext

(***************************************************************************)
(* It holds of the empty set.                                              *)
(***************************************************************************)
LEMMA SortedSetInitInv == SortedSetInit => SortedSetIndInv
<1> SUFFICES ASSUME SortedSetInit PROVE SortedSetIndInv
  OBVIOUS
<1>1. DOMAIN scores = {} /\ ordered = <<>>
  BY DEF SortedSetInit
<1>2. <<>> \in Seq(Entries) /\ 1..Len(<<>>) = {}
  OBVIOUS
<1> QED
  BY <1>1, <1>2 DEF SortedSetIndInv, ListsAll, Rises

-----------------------------------------------------------------------------
(***************************************************************************)
(* The members of b - a + 1 entries are as many.                           *)
(***************************************************************************)
LEMMA PlacesCount ==
  ASSUME NEW sc, NEW q, ListsAll(sc, q), NEW a \in 1..(Len(q) + 1), NEW b \in (a - 1)..Len(q),
         NEW T, \A i \in a..b : q[i].member \in T, \A m \in T : \E i \in a..b : q[i].member = m
  PROVE  IsFiniteSet(T) /\ Cardinality(T) = b - a + 1
<1>1. PICK n \in Nat : n = Len(q)
  BY LenProperties DEF ListsAll
<1>2. a \in Nat /\ b \in Int /\ a >= 1 /\ b <= n /\ b >= a - 1
  BY <1>1
<1>3. IsFiniteSet(a..b) /\ Cardinality(a..b) = b - a + 1
  <2>1. a \in Int
    BY <1>2
  <2>2. IsFiniteSet(a..b) /\ Cardinality(a..b) = IF a > b THEN 0 ELSE b - a + 1
    BY <1>2, <2>1, FS_Interval
  <2> QED
    BY <1>2, <2>2
<1> DEFINE f == [i \in a..b |-> q[i].member]
<1>4. f \in [a..b -> T]
  OBVIOUS
<1>5. ASSUME NEW i \in a..b, NEW j \in a..b, f[i] = f[j] PROVE i = j
  <2>1. i \in 1..Len(q) /\ j \in 1..Len(q) /\ q[i].member = q[j].member
    BY <1>1, <1>2, <1>5
  <2> QED
    BY <2>1, OnePlace
<1>6. \A m \in T : \E i \in a..b : f[i] = m
  OBVIOUS
<1> HIDE DEF f
<1>7. IsFiniteSet(T) /\ Cardinality(T) = Cardinality(a..b)
  BY <1>3, <1>4, <1>5, <1>6, PairedOff
<1> QED
  BY <1>3, <1>7

(***************************************************************************)
(* One member comes before another if its entry does.                      *)
(***************************************************************************)
LEMMA BeforeIs ==
  ASSUME SortedSetIndInv, NEW i \in 1..Len(ordered), NEW j \in 1..Len(ordered)
  PROVE  Before(ordered[i].member, ordered[j].member) <=> i < j
<1>1. PICK n \in Nat : n = Len(ordered) /\ \A k \in 1..n : ordered[k] \in Entries
  BY LenProperties, ElementOfSeq DEF SortedSetIndInv, ListsAll
<1>2. PICK a \in Entries : a = ordered[i]
  BY <1>1
<1>3. PICK b \in Entries : b = ordered[j]
  BY <1>1
<1>4. scores[a.member] = a.score /\ scores[b.member] = b.score
  BY <1>2, <1>3 DEF SortedSetIndInv, ListsAll
<1>5. Before(a.member, b.member) <=> Precedes(a, b)
  BY <1>4 DEF Before, Precedes
<1>6. i < j => Precedes(a, b)
  BY <1>2, <1>3 DEF SortedSetIndInv, ListsAll, Rises
<1>7. j < i => Precedes(b, a)
  BY <1>2, <1>3 DEF SortedSetIndInv, ListsAll, Rises
<1>8. ASSUME Precedes(a, b) PROVE i < j
  <2>1. ~Precedes(b, a) /\ ~Precedes(a, a)
    BY <1>8, EntryOrder
  <2>2. i # j
    BY <1>2, <1>3, <1>8, <2>1
  <2> QED
    BY <1>1, <1>7, <2>1, <2>2
<1> QED
  BY <1>2, <1>3, <1>5, <1>6, <1>8

(***************************************************************************)
(* The members that a set T of entries a..b holds and that come before the *)
(* one at i are i - a.                                                     *)
(***************************************************************************)
LEMMA BeforeCount ==
  ASSUME SortedSetIndInv, NEW a \in 1..(Len(ordered) + 1), NEW b \in (a - 1)..Len(ordered),
         NEW T, \A i \in a..b : ordered[i].member \in T,
         \A m \in T : \E i \in a..b : ordered[i].member = m,
         NEW i \in a..b
  PROVE  Cardinality({k \in T : Before(k, ordered[i].member)}) = i - a
<1>1. PICK n \in Nat : n = Len(ordered)
  BY LenProperties DEF SortedSetIndInv, ListsAll
<1>2. a \in Nat /\ b \in Int /\ a >= 1 /\ b <= n /\ i \in 1..n
  BY <1>1
<1> DEFINE U == {k \in T : Before(k, ordered[i].member)}
<1>3. PICK c \in Int : c = i - 1
  BY <1>2
<1>4. ASSUME NEW j \in a..c PROVE ordered[j].member \in U
  <2>1. j \in a..b /\ j \in 1..Len(ordered) /\ i \in 1..Len(ordered) /\ j < i
    BY <1>1, <1>2, <1>3
  <2>2. Before(ordered[j].member, ordered[i].member)
    BY <2>1, BeforeIs
  <2> QED
    BY <2>1, <2>2
<1>5. ASSUME NEW m \in U PROVE \E j \in a..c : ordered[j].member = m
  <2>1. PICK j \in a..b : ordered[j].member = m
    OBVIOUS
  <2>2. j \in 1..Len(ordered) /\ i \in 1..Len(ordered)
    BY <1>1, <1>2
  <2>3. j < i
    BY <2>1, <2>2, BeforeIs
  <2>4. j \in a..c
    BY <1>2, <1>3, <2>3
  <2> QED
    BY <2>1, <2>4
<1>6. c \in (a - 1)..Len(ordered)
  BY <1>1, <1>2, <1>3
<1> HIDE DEF U
<1>7. Cardinality(U) = c - a + 1
  BY <1>4, <1>5, <1>6, PlacesCount DEF SortedSetIndInv
<1> QED
  BY <1>2, <1>3, <1>7 DEF U

(***************************************************************************)
(* The invariant gives the types, and the index is exact.                  *)
(***************************************************************************)
LEMMA SortedSetTypes == SortedSetIndInv => SortedSetTypeOK
<1> SUFFICES ASSUME SortedSetIndInv PROVE SortedSetTypeOK
  OBVIOUS
<1>1. PICK n \in Nat : n = Len(ordered)
  BY LenProperties DEF SortedSetIndInv, ListsAll
<1>2. 1 \in 1..(Len(ordered) + 1) /\ n \in (1 - 1)..Len(ordered)
  BY <1>1
<1>3. PICK T : T = DOMAIN scores
  OBVIOUS
<1>4. \A i \in 1..n : ordered[i].member \in T
  BY <1>1, <1>3 DEF SortedSetIndInv, ListsAll
<1>5. \A m \in T : \E i \in 1..n : ordered[i].member = m
  BY <1>1, <1>3 DEF SortedSetIndInv, ListsAll
<1>6. Cardinality(T) = n - 1 + 1
  BY <1>2, <1>4, <1>5, PlacesCount DEF SortedSetIndInv
<1> QED
  BY <1>1, <1>3, <1>6 DEF SortedSetIndInv, ListsAll, SortedSetTypeOK, Entries

(***************************************************************************)
(* The entry at a member's rank is its own.                                *)
(***************************************************************************)
LEMMA IndexIsExact == SortedSetIndInv => IndexExact
<1> SUFFICES ASSUME SortedSetIndInv, NEW m \in DOMAIN scores
             PROVE  LET r == Cardinality({k \in DOMAIN scores : Before(k, m)}) IN
                    ordered[r + 1] = [member |-> m, score |-> scores[m]] /\ ZRank(m) = r
  BY DEF IndexExact
<1>1. PICK n \in Nat : n = Len(ordered) /\ \A k \in 1..n : ordered[k] \in Entries
  BY LenProperties, ElementOfSeq DEF SortedSetIndInv, ListsAll
<1>2. 1 \in 1..(Len(ordered) + 1) /\ n \in (1 - 1)..Len(ordered)
  BY <1>1
<1>3. PICK T : T = DOMAIN scores
  OBVIOUS
<1>4. \A i \in 1..n : ordered[i].member \in T
  BY <1>1, <1>3 DEF SortedSetIndInv, ListsAll
<1>5. \A k \in T : \E i \in 1..n : ordered[i].member = k
  BY <1>1, <1>3 DEF SortedSetIndInv, ListsAll
<1>6. PICK i \in 1..n : ordered[i].member = m
  BY <1>3, <1>5
<1>7. Cardinality({k \in T : Before(k, ordered[i].member)}) = i - 1
  <2>1. PICK a \in 1..(Len(ordered) + 1) : a = 1
    BY <1>2
  <2>2. n \in (a - 1)..Len(ordered) /\ i \in a..n
    BY <1>2, <2>1
  <2>3. (\A j \in a..n : ordered[j].member \in T) /\ \A k \in T : \E j \in a..n : ordered[j].member = k
    BY <1>4, <1>5, <2>1
  <2>4. Cardinality({k \in T : Before(k, ordered[i].member)}) = i - a
    BY <2>2, <2>3, BeforeCount
  <2> QED
    BY <2>1, <2>4
<1>8. ZRank(m) = i - 1
  <2>1. findPos(ordered, scores[ordered[i].member], ordered[i].member) = i - 1
    BY <1>1, FindsMember DEF SortedSetIndInv
  <2> QED
    BY <1>6, <2>1 DEF ZRank
<1>9. ordered[i] = [member |-> m, score |-> scores[m]]
  <2>1. ordered[i] \in Entries /\ ordered[i].score = scores[m]
    BY <1>1, <1>6 DEF SortedSetIndInv, ListsAll
  <2> QED
    BY <1>6, <2>1 DEF Entries
<1>10. i - 1 + 1 = i
  OBVIOUS
<1> QED
  BY <1>3, <1>6, <1>7, <1>8, <1>9, <1>10

-----------------------------------------------------------------------------
(***************************************************************************)
(* The scan of ZRANGEBYSCORE ends where a score is beyond the bound.       *)
(***************************************************************************)
ScanStops(start, max, n) ==
  /\ \A i \in (start + 1)..n : ordered[i].score <= max
  /\ n < Len(ordered) => ordered[n + 1].score > max

(***************************************************************************)
(* Scores do not fall along the slice.                                     *)
(***************************************************************************)
LEMMA ScoresRise ==
  ASSUME SortedSetIndInv
  PROVE  /\ \A i \in 1..Len(ordered) : ordered[i].score \in Int
         /\ \A i, j \in 1..Len(ordered) : i <= j => ordered[i].score <= ordered[j].score
<1>1. PICK n \in Nat : n = Len(ordered) /\ \A k \in 1..n : ordered[k] \in Entries
  BY LenProperties, ElementOfSeq DEF SortedSetIndInv, ListsAll
<1>2. ASSUME NEW i \in 1..n PROVE ordered[i].score \in Int
  BY <1>1, EntryOrder
<1>3. ASSUME NEW i \in 1..n, NEW j \in 1..n, i <= j PROVE ordered[i].score <= ordered[j].score
  <2>1. CASE i = j
    BY <1>2, <2>1
  <2>2. CASE i # j
    <3>1. Precedes(ordered[i], ordered[j])
      BY <1>1, <1>3, <2>2 DEF SortedSetIndInv, ListsAll, Rises
    <3> QED
      BY <1>2, <3>1 DEF Precedes
  <2> QED
    BY <2>1, <2>2
<1> QED
  BY <1>1, <1>2, <1>3

(***************************************************************************)
(* The entries whose score lies between two bounds are consecutive: those  *)
(* after the start that the bisection finds, up to the stop of the scan.   *)
(***************************************************************************)
LEMMA BoundsFound ==
  ASSUME SortedSetIndInv, NEW min \in Scores, NEW max \in Scores
  PROVE  \E t \in 0..Len(ordered) : \E u \in t..Len(ordered) :
           /\ t = Search(Len(ordered), {i \in 0..(Len(ordered) - 1) : ordered[i + 1].score >= min})
           /\ u = CHOOSE n \in t..Len(ordered) : ScanStops(t, max, n)
           /\ \A i \in 1..Len(ordered) :
                t + 1 <= i /\ i <= u <=> min <= ordered[i].score /\ ordered[i].score <= max
<1>1. PICK n \in Nat : n = Len(ordered)
  BY LenProperties DEF SortedSetIndInv, ListsAll
<1>2. min \in Int /\ max \in Int
  BY SortedSetAssumption
<1>3. ASSUME NEW i \in 1..n PROVE ordered[i].score \in Int
  BY <1>1, ScoresRise
<1>4. ASSUME NEW i \in 1..n, NEW j \in 1..n, i <= j PROVE ordered[i].score <= ordered[j].score
  BY <1>1, <1>4, ScoresRise
<1> DEFINE hits == {i \in 0..(n - 1) : ordered[i + 1].score >= min}
<1>5. ASSUME NEW i \in 0..(n - 1), NEW j \in 0..(n - 1), i \in hits, i <= j PROVE j \in hits
  <2>1. i + 1 \in 1..n /\ j + 1 \in 1..n /\ i + 1 <= j + 1
    BY <1>5
  <2>2. PICK a \in Int : a = ordered[i + 1].score
    BY <1>3, <2>1
  <2>3. PICK b \in Int : b = ordered[j + 1].score
    BY <1>3, <2>1
  <2>4. a <= b
    BY <1>4, <2>1, <2>2, <2>3
  <2>5. a >= min
    BY <1>5, <2>2
  <2>6. b >= min
    BY <1>2, <2>4, <2>5
  <2> QED
    BY <2>3, <2>6
<1>6. PICK t \in 0..n : Search(n, hits) = t /\ \A i \in 0..(n - 1) : i \in hits <=> t <= i
  <2> HIDE DEF hits
  <2> QED
    BY <1>5, SearchSplits
<1>7. \E u \in t..n : ScanStops(t, max, u)
  <2> DEFINE T == {i \in t..n : i = n \/ ordered[i + 1].score > max}
  <2>1. T \in SUBSET Nat /\ n \in T
    OBVIOUS
  <2>2. PICK u \in T : \A k \in T : u <= k
    <3> HIDE DEF T
    <3> QED
      BY <2>1, LeastNumber
  <2>3. u \in t..n /\ (u < n => ordered[u + 1].score > max)
    OBVIOUS
  <2>4. ASSUME NEW i \in (t + 1)..u PROVE ordered[i].score <= max
    <3>1. PICK k \in t..n : k = i - 1 /\ i = k + 1 /\ k < u
      BY <2>3
    <3>2. k \notin T
      BY <2>2, <3>1
    <3>3. ~(ordered[i].score > max)
      BY <2>3, <3>1, <3>2
    <3>4. i \in 1..n
      BY <2>3
    <3> QED
      BY <1>2, <1>3, <3>3, <3>4
  <2>5. ScanStops(t, max, u)
    BY <1>1, <2>3, <2>4 DEF ScanStops
  <2> QED
    BY <2>3, <2>5
<1>8. PICK u : u = CHOOSE k \in t..n : ScanStops(t, max, k)
  OBVIOUS
<1>9. u \in t..n /\ ScanStops(t, max, u)
  BY <1>7, <1>8
<1>10. ASSUME NEW i \in 1..n
       PROVE  t + 1 <= i /\ i <= u <=> min <= ordered[i].score /\ ordered[i].score <= max
  <2>1. PICK x \in Int : x = ordered[i].score
    BY <1>3
  <2>2. t + 1 <= i <=> min <= x
    <3>1. PICK k \in 0..(n - 1) : k = i - 1 /\ i = k + 1
      OBVIOUS
    <3>2. k \in hits <=> t <= k
      BY <1>6
    <3>3. k \in hits <=> x >= min
      BY <2>1, <3>1
    <3> HIDE DEF hits
    <3> QED
      BY <1>2, <3>1, <3>2, <3>3
  <2>3. ASSUME t + 1 <= i, i <= u PROVE x <= max
    <3>1. i \in (t + 1)..u
      BY <1>9, <2>3
    <3> QED
      BY <1>9, <2>1, <3>1 DEF ScanStops
  <2>4. ASSUME t + 1 <= i, ~(i <= u) PROVE ~(x <= max)
    <3>1. u < n /\ u + 1 \in 1..n /\ u + 1 <= i
      BY <1>9, <2>4
    <3>2. PICK y \in Int : y = ordered[u + 1].score
      BY <1>3, <3>1
    <3>3. y > max
      BY <1>1, <1>9, <3>1, <3>2 DEF ScanStops
    <3>4. y <= x
      BY <1>4, <2>1, <3>1, <3>2
    <3> QED
      BY <1>2, <3>3, <3>4
  <2> QED
    BY <2>1, <2>2, <2>3, <2>4
<1> HIDE DEF hits
<1>11. t = Search(Len(ordered), {i \in 0..(Len(ordered) - 1) : ordered[i + 1].score >= min})
  BY <1>1, <1>6 DEF hits
<1> QED
  BY <1>1, <1>8, <1>9, <1>10, <1>11

(***************************************************************************)
(* LIMIT: the entries after the first offset, as many as asked for at most.*)
(***************************************************************************)
LEMMA LimitedIs ==
  ASSUME NEW S, NEW q \in Seq(S), NEW offset \in Nat, NEW many \in Nat
  PROVE  \E l \in Nat :
           /\ DOMAIN Limited(q, offset, many) = 1..l
           /\ \A j \in 1..l : Limited(q, offset, many)[j] = q[offset + j]
           /\ \A j \in 1..l : offset + j <= Len(q)
           /\ \A i \in 1..Len(q) :
                offset + 1 <= i /\ (many = 0 \/ i <= offset + many) <=> i - offset \in 1..l
<1>1. PICK n \in Nat : n = Len(q)
  BY LenProperties
<1>2. PICK e \in Nat : e = IF many = 0 \/ offset + many > n THEN n ELSE offset + many
  OBVIOUS
<1>3. PICK r : r = Limited(q, offset, many)
  OBVIOUS
<1>4. PICK a \in Nat : a = offset + 1
  OBVIOUS
<1>5. r = SubSeq(q, a, e)
  BY <1>1, <1>2, <1>3, <1>4 DEF Limited
<1>6. CASE a <= e + 1
  <2>1. a \in 1..(Len(q) + 1) /\ e \in (a - 1)..Len(q)
    BY <1>1, <1>2, <1>4, <1>6
  <2>2. PICK l \in Nat : l = e - a + 1
    BY <1>6
  <2>3. DOMAIN r = 1..l /\ \A j \in 1..l : r[j] = q[a + j - 1]
    BY <1>5, <2>1, <2>2, SubSeqFacts
  <2>4. ASSUME NEW j \in 1..l PROVE r[j] = q[offset + j] /\ offset + j <= n
    <3>1. a + j - 1 = offset + j /\ offset + j <= n
      BY <1>2, <1>4, <2>2
    <3> QED
      BY <2>3, <3>1
  <2>5. ASSUME NEW i \in 1..n
        PROVE  offset + 1 <= i /\ (many = 0 \/ i <= offset + many) <=> i - offset \in 1..l
    <3>1. i <= e <=> (many = 0 \/ i <= offset + many)
      BY <1>2
    <3> QED
      BY <1>4, <2>2, <3>1
  <2> QED
    BY <1>1, <1>3, <2>3, <2>4, <2>5
<1>7. CASE ~(a <= e + 1)
  <2>1. r = <<>>
    BY <1>5, <1>7
  <2>2. DOMAIN r = {}
    BY <2>1
  <2>3. e = n
    BY <1>2, <1>4, <1>7
  <2>4. ASSUME NEW i \in 1..n PROVE ~(offset + 1 <= i)
    BY <1>4, <1>7, <2>3
  <2>5. 0 \in Nat /\ 1..0 = {}
    OBVIOUS
  <2>6. \A i \in 1..n : offset + 1 <= i /\ (many = 0 \/ i <= offset + many) <=> i - offset \in 1..0
    BY <2>4, <2>5
  <2> QED
    BY <1>1, <1>3, <2>2, <2>5, <2>6
<1> QED
  BY <1>6, <1>7

(***************************************************************************)
(* A range is exact: it lists those of the entries within the bounds that  *)
(* the offset and the count leave, in rising order.                        *)
(***************************************************************************)
ExactRange(within, got, offset, many) ==
  /\ MembersOf(got) =
       {m \in within : /\ Cardinality({k \in within : Before(k, m)}) >= offset
                       /\ \/ many = 0
                          \/ Cardinality({k \in within : Before(k, m)}) < offset + many}
  /\ \A i, j \in DOMAIN got : i < j => Before(got[i].member, got[j].member)

(***************************************************************************)
(* ZRANGEBYSCORE is exact.                                                 *)
(***************************************************************************)
LEMMA RangeIsExact ==
  ASSUME SortedSetIndInv, NEW min \in Scores, NEW max \in Scores,
         NEW offset \in 0..(Len(ordered) + 1), NEW many \in 0..(Len(ordered) + 1),
         NEW within, within = {m \in DOMAIN scores : min <= scores[m] /\ scores[m] <= max},
         NEW got, got = RangeByScore(min, max, offset, many)
  PROVE  ExactRange(within, got, offset, many)
<1>1. PICK n \in Nat : n = Len(ordered) /\ ordered \in Seq(Entries)
  BY LenProperties DEF SortedSetIndInv, ListsAll
<1>2. PICK t \in 0..n : \E u \in t..n :
           /\ t = Search(Len(ordered), {i \in 0..(Len(ordered) - 1) : ordered[i + 1].score >= min})
           /\ u = CHOOSE k \in t..Len(ordered) : ScanStops(t, max, k)
           /\ \A i \in 1..n :
                t + 1 <= i /\ i <= u <=> min <= ordered[i].score /\ ordered[i].score <= max
  BY <1>1, BoundsFound
<1>3. PICK u \in t..n :
           /\ t = Search(Len(ordered), {i \in 0..(Len(ordered) - 1) : ordered[i + 1].score >= min})
           /\ u = CHOOSE k \in t..Len(ordered) : ScanStops(t, max, k)
           /\ \A i \in 1..n :
                t + 1 <= i /\ i <= u <=> min <= ordered[i].score /\ ordered[i].score <= max
  BY <1>2
<1>4. PICK a \in 1..(n + 1) : a = t + 1
  OBVIOUS
<1>5. PICK q : q = SubSeq(ordered, a, u)
  OBVIOUS
<1>6. got = Limited(q, offset, many)
  BY <1>3, <1>4, <1>5 DEF RangeByScore, ScanStops
<1>7. a \in 1..(Len(ordered) + 1) /\ u \in (a - 1)..Len(ordered)
  BY <1>1, <1>4
<1>8. PICK w \in Nat : w = u - t /\ w = u - a + 1
  BY <1>4
<1>9. q \in Seq(Entries) /\ Len(q) = w /\ \A j \in 1..w : q[j] = ordered[t + j]
  <2>1. q \in Seq(Entries) /\ Len(q) = w /\ \A j \in 1..w : q[j] = ordered[a + j - 1]
    BY <1>1, <1>5, <1>7, <1>8, SubSeqFacts
  <2>2. \A j \in 1..w : a + j - 1 = t + j
    BY <1>4
  <2> QED
    BY <2>1, <2>2
<1>10. offset \in Nat /\ many \in Nat
  BY <1>1
<1>11. PICK l \in Nat :
           /\ DOMAIN got = 1..l
           /\ \A j \in 1..l : got[j] = q[offset + j]
           /\ \A j \in 1..l : offset + j <= w
           /\ \A i \in 1..w :
                offset + 1 <= i /\ (many = 0 \/ i <= offset + many) <=> i - offset \in 1..l
  <2>1. PICK l \in Nat :
           /\ DOMAIN Limited(q, offset, many) = 1..l
           /\ \A j \in 1..l : Limited(q, offset, many)[j] = q[offset + j]
           /\ \A j \in 1..l : offset + j <= Len(q)
           /\ \A i \in 1..Len(q) :
                offset + 1 <= i /\ (many = 0 \/ i <= offset + many) <=> i - offset \in 1..l
    BY <1>9, <1>10, LimitedIs
  <2>2. PICK g : g = Limited(q, offset, many) /\ g = got
    BY <1>6
  <2>3. /\ DOMAIN g = 1..l
        /\ \A j \in 1..l : g[j] = q[offset + j]
    BY <2>1, <2>2
  <2>4. /\ DOMAIN got = 1..l
        /\ \A j \in 1..l : got[j] = q[offset + j]
    BY <2>2, <2>3
  <2> QED
    BY <1>9, <2>1, <2>4
<1>12. ASSUME NEW j \in 1..l
       PROVE  \E i \in 1..n : got[j] = ordered[i] /\ i = t + offset + j /\ i <= u
  <2>1. offset + j \in 1..w
    <3>1. offset + j <= w
      BY <1>11
    <3> QED
      BY <1>10, <3>1
  <2>2. t + (offset + j) \in 1..n /\ t + (offset + j) = t + offset + j /\ t + offset + j <= u
    BY <1>8, <1>10, <2>1
  <2>3. got[j] = ordered[t + (offset + j)]
    BY <1>9, <1>11, <2>1
  <2> QED
    BY <2>2, <2>3
<1>13. ASSUME NEW i \in 1..n PROVE ordered[i].member \in within <=> i \in a..u
  <2>1. ordered[i].member \in DOMAIN scores /\ scores[ordered[i].member] = ordered[i].score
    BY <1>1 DEF SortedSetIndInv, ListsAll
  <2>2. t + 1 <= i /\ i <= u <=> min <= ordered[i].score /\ ordered[i].score <= max
    BY <1>3
  <2>3. i \in a..u <=> t + 1 <= i /\ i <= u
    BY <1>4
  <2> QED
    BY <2>1, <2>2, <2>3
<1>14. ASSUME NEW m \in within PROVE \E i \in a..u : ordered[i].member = m
  <2>1. PICK i \in 1..n : ordered[i].member = m
    BY <1>1 DEF SortedSetIndInv, ListsAll
  <2> QED
    BY <1>13, <2>1
<1>15. ASSUME NEW i \in a..u
       PROVE  Cardinality({k \in within : Before(k, ordered[i].member)}) = i - a
  <2>1. PICK T : T = within
    OBVIOUS
  <2>2. \A k \in a..u : ordered[k].member \in T
    <3> SUFFICES ASSUME NEW k \in a..u PROVE ordered[k].member \in T
      OBVIOUS
    <3>1. k \in 1..n
      OBVIOUS
    <3> QED
      BY <1>13, <2>1, <3>1
  <2>3. \A m \in T : \E k \in a..u : ordered[k].member = m
    BY <1>14, <2>1
  <2>4. Cardinality({k \in T : Before(k, ordered[i].member)}) = i - a
    BY <1>7, <2>2, <2>3, BeforeCount
  <2> QED
    BY <2>1, <2>4
<1>16. ASSUME NEW i \in a..u, NEW c, c = Cardinality({k \in within : Before(k, ordered[i].member)})
       PROVE  c >= offset /\ (many = 0 \/ c < offset + many) <=> i - t - offset \in 1..l
  <2>1. c = i - a
    BY <1>15, <1>16
  <2>2. PICK p \in 1..w : p = i - t
    BY <1>4, <1>8
  <2>3. offset + 1 <= p /\ (many = 0 \/ p <= offset + many) <=> p - offset \in 1..l
    BY <1>11
  <2>4. c = p - 1
    BY <1>4, <2>1, <2>2
  <2>5. c >= offset /\ (many = 0 \/ c < offset + many)
          <=> offset + 1 <= p /\ (many = 0 \/ p <= offset + many)
    BY <1>10, <2>4
  <2>6. p - offset = i - t - offset
    BY <2>2
  <2> QED
    BY <2>3, <2>5, <2>6
<1>17. ASSUME NEW m
       PROVE  m \in MembersOf(got) <=>
                /\ m \in within
                /\ Cardinality({k \in within : Before(k, m)}) >= offset
                /\ \/ many = 0
                   \/ Cardinality({k \in within : Before(k, m)}) < offset + many
  <2>1. ASSUME m \in MembersOf(got)
        PROVE  /\ m \in within
               /\ Cardinality({k \in within : Before(k, m)}) >= offset
               /\ \/ many = 0
                  \/ Cardinality({k \in within : Before(k, m)}) < offset + many
    <3>1. PICK j \in 1..l : m = got[j].member
      BY <1>11, <2>1 DEF MembersOf
    <3>2. PICK i \in 1..n : got[j] = ordered[i] /\ i = t + offset + j /\ i <= u
      BY <1>12
    <3>3. i \in a..u
      BY <1>4, <1>10, <3>2
    <3>4. m = ordered[i].member /\ m \in within
      BY <1>13, <3>1, <3>2, <3>3
    <3>5. PICK c : c = Cardinality({k \in within : Before(k, m)})
      OBVIOUS
    <3>6. i - t - offset = j
      BY <1>10, <3>2
    <3>7. c >= offset /\ (many = 0 \/ c < offset + many)
      BY <1>16, <3>3, <3>4, <3>5, <3>6
    <3> QED
      BY <3>4, <3>5, <3>7
  <2>2. ASSUME m \in within,
               Cardinality({k \in within : Before(k, m)}) >= offset,
               \/ many = 0
               \/ Cardinality({k \in within : Before(k, m)}) < offset + many
        PROVE  m \in MembersOf(got)
    <3>1. PICK i \in a..u : ordered[i].member = m
      BY <1>14, <2>2
    <3>2. PICK c : c = Cardinality({k \in within : Before(k, m)})
      OBVIOUS
    <3>3. i - t - offset \in 1..l
      BY <1>16, <2>2, <3>1, <3>2
    <3>4. PICK j \in 1..l : j = i - t - offset
      BY <3>3
    <3>5. PICK k \in 1..n : got[j] = ordered[k] /\ k = t + offset + j
      BY <1>12
    <3>6. k = i
      BY <1>10, <3>4, <3>5
    <3> QED
      BY <1>11, <3>1, <3>5, <3>6 DEF MembersOf
  <2> QED
    BY <2>1, <2>2
<1>18. ASSUME NEW i \in DOMAIN got, NEW j \in DOMAIN got, i < j
       PROVE  Before(got[i].member, got[j].member)
  <2>1. i \in 1..l /\ j \in 1..l
    BY <1>11
  <2>2. PICK c \in 1..n : got[i] = ordered[c] /\ c = t + offset + i
    BY <1>12, <2>1
  <2>3. PICK d \in 1..n : got[j] = ordered[d] /\ d = t + offset + j
    BY <1>12, <2>1
  <2>4. c < d
    BY <1>10, <1>18, <2>1, <2>2, <2>3
  <2>5. Before(ordered[c].member, ordered[d].member)
    BY <1>1, <2>4, BeforeIs
  <2> QED
    BY <2>2, <2>3, <2>5
<1> QED
  BY <1>17, <1>18 DEF ExactRange

(***************************************************************************)
(* It is so for all bounds, offsets and counts.                            *)
(***************************************************************************)
LEMMA RangesAreExact == SortedSetIndInv => ScoreRangeExact
<1>1. ASSUME SortedSetIndInv, NEW min \in Scores, NEW max \in Scores,
             NEW offset \in 0..(Len(ordered) + 1), NEW many \in 0..(Len(ordered) + 1)
      PROVE  LET within == {m \in DOMAIN scores : min <= scores[m] /\ scores[m] <= max}
                 place(m) == Cardinality({k \in within : Before(k, m)})
                 got == RangeByScore(min, max, offset, many) IN
             /\ MembersOf(got) = {m \in within : /\ place(m) >= offset
                                                 /\ many = 0 \/ place(m) < offset + many}
             /\ \A i, j \in DOMAIN got : i < j => Before(got[i].member, got[j].member)
  <2>1. PICK within : within = {m \in DOMAIN scores : min <= scores[m] /\ scores[m] <= max}
    OBVIOUS
  <2>2. PICK got : got = RangeByScore(min, max, offset, many)
    OBVIOUS
  <2>3. ExactRange(within, got, offset, many)
    BY <1>1, <2>1, <2>2, RangeIsExact
  <2> QED
    BY <2>1, <2>2, <2>3, Zenon DEF ExactRange
<1> QED
  BY <1>1, Zenon DEF ScoreRangeExact

(***************************************************************************)
(* Whatever members are added, rescored, removed and popped, in whatever   *)
(* order and however many, the slice is the map in rising order, ZRANK is  *)
(* the number of members before, and ZRANGEBYSCORE with LIMIT is exact.    *)
(***************************************************************************)
THEOREM SortedSetIsExact == SortedSetSpec => []SortedSetInv
<1>1. SortedSetIndInv => SortedSetInv
  BY SortedSetTypes, IndexIsExact, RangesAreExact DEF SortedSetInv
<1> QED
  BY <1>1, SortedSetInitInv, SortedSetStep, PTL DEF SortedSetSpec

-----------------------------------------------------------------------------
(***************************************************************************)
(* THE RING BUFFER                                                         *)
(***************************************************************************)

(***************************************************************************)
(* Slots b, c of them, hold the sequence q from slot h on, and blanks      *)
(* otherwise.                                                              *)
(***************************************************************************)
RingHolds(b, h, c, q) ==
  /\ c \in Nat /\ DOMAIN b = 0..(c - 1)
  /\ h \in Nat /\ (c = 0 => h = 0) /\ (c > 0 => h < c)
  /\ q \in Seq(Elements) /\ Len(q) <= c
  /\ \A i \in 0..(c - 1) : b[(h + i) % c] = IF i < Len(q) THEN q[i + 1] ELSE Blank

(***************************************************************************)
(* The inductive invariant of the ring buffer.                             *)
(***************************************************************************)
DequeIndInv == \E c, q : RingHolds(buf, head, c, q) /\ count = Len(q)

-----------------------------------------------------------------------------
(***************************************************************************)
(* The remainder of a number that is at most one turn too large.           *)
(***************************************************************************)
LEMMA OneTurn ==
  ASSUME NEW c \in Nat, NEW x \in Nat, x < 2 * c
  PROVE  x % c = IF x < c THEN x ELSE x - c
<1>1. CASE x < c
  <2>1. x % c = x
    BY <1>1
  <2> QED
    BY <1>1, <2>1
<1>2. CASE ~(x < c)
  <2>1. x % c = x - c
    BY <1>2
  <2> QED
    BY <1>2, <2>1
<1> QED
  BY <1>1, <1>2

(***************************************************************************)
(* The slot at a position, and the position of a slot.                     *)
(***************************************************************************)
LEMMA SlotFacts ==
  ASSUME NEW c \in Nat, NEW h \in Nat, h < c
  PROVE  /\ \A i \in 0..(c - 1) : (h + i) % c = IF h + i < c THEN h + i ELSE h + i - c
         /\ \A i \in 0..(c - 1) : (h + i) % c \in 0..(c - 1)
         /\ \A s \in 0..(c - 1) : (s - h + c) % c \in 0..(c - 1)
         /\ \A s \in 0..(c - 1) : (h + ((s - h + c) % c)) % c = s
         /\ \A i, j \in 0..(c - 1) : (h + i) % c = (h + j) % c => i = j
<1>1. ASSUME NEW i \in 0..(c - 1)
      PROVE  /\ (h + i) % c = IF h + i < c THEN h + i ELSE h + i - c
             /\ (h + i) % c \in 0..(c - 1)
  <2>1. PICK x \in Nat : x = h + i /\ x < 2 * c
    OBVIOUS
  <2>2. x % c = IF x < c THEN x ELSE x - c
    BY <2>1, OneTurn
  <2>3. PICK y : y = x % c
    OBVIOUS
  <2>4. y \in 0..(c - 1)
    BY <2>1, <2>2, <2>3
  <2> QED
    BY <2>1, <2>2, <2>3, <2>4
<1>2. ASSUME NEW s \in 0..(c - 1)
      PROVE  /\ (s - h + c) % c = IF s < h THEN s - h + c ELSE s - h
             /\ (s - h + c) % c \in 0..(c - 1)
             /\ (h + ((s - h + c) % c)) % c = s
  <2>1. PICK x \in Nat : x = s - h + c /\ x < 2 * c
    OBVIOUS
  <2>2. x % c = IF x < c THEN x ELSE x - c
    BY <2>1, OneTurn
  <2>3. PICK y : y = x % c
    OBVIOUS
  <2>4. y = IF s < h THEN s - h + c ELSE s - h
    BY <2>1, <2>2, <2>3
  <2>5. y \in 0..(c - 1)
    BY <2>4
  <2>6. (h + y) % c = IF h + y < c THEN h + y ELSE h + y - c
    BY <1>1, <2>5
  <2>7. (IF h + y < c THEN h + y ELSE h + y - c) = s
    BY <2>4
  <2> QED
    BY <2>1, <2>3, <2>4, <2>5, <2>6, <2>7
<1>3. ASSUME NEW i \in 0..(c - 1), NEW j \in 0..(c - 1), (h + i) % c = (h + j) % c
      PROVE  i = j
  <2>1. (IF h + i < c THEN h + i ELSE h + i - c) = (IF h + j < c THEN h + j ELSE h + j - c)
    BY <1>1, <1>3
  <2> QED
    BY <2>1
<1> QED
  BY <1>1, <1>2, <1>3

(***************************************************************************)
(* What RingHolds says of the variables.                                   *)
(***************************************************************************)
LEMMA CapacityOf ==
  ASSUME NEW c \in Nat, NEW b, DOMAIN b = 0..(c - 1)
  PROVE  Cardinality(DOMAIN b) = c
<1>1. 0 \in Int /\ c - 1 \in Int
  OBVIOUS
<1>2. Cardinality(0..(c - 1)) = IF 0 > c - 1 THEN 0 ELSE (c - 1) - 0 + 1
  BY <1>1, FS_Interval
<1> QED
  BY <1>2

(***************************************************************************)
(* ToSlice reads the sequence that the ring holds.                         *)
(***************************************************************************)
LEMMA SliceOf ==
  ASSUME NEW c, NEW q, RingHolds(buf, head, c, q), count = Len(q)
  PROVE  Capacity = c /\ ToSlice = q
<1>1. c \in Nat /\ DOMAIN buf = 0..(c - 1) /\ q \in Seq(Elements) /\ head \in Nat
  BY DEF RingHolds
<1>2. Capacity = c
  BY <1>1, CapacityOf DEF Capacity
<1>3. PICK n \in Nat : n = Len(q) /\ DOMAIN q = 1..n /\ n = count /\ n <= c
  BY <1>1, LenProperties DEF RingHolds
<1>4. ToSlice = [i \in 1..n |-> buf[(head + i - 1) % c]]
  BY <1>2, <1>3 DEF ToSlice
<1>5. ASSUME NEW i \in 1..n PROVE buf[(head + i - 1) % c] = q[i]
  <2>1. PICK j \in 0..(c - 1) : j = i - 1
    BY <1>1, <1>3
  <2>2. j < Len(q) /\ j + 1 = i /\ head + j = head + i - 1
    BY <1>1, <1>3, <2>1
  <2>3. buf[(head + j) % c] = q[j + 1]
    BY <2>2 DEF RingHolds
  <2> QED
    BY <2>2, <2>3
<1>6. q = [i \in 1..n |-> q[i]]
  BY <1>1, <1>3
<1> QED
  BY <1>2, <1>4, <1>5, <1>6

(***************************************************************************)
(* grow: after it there is room for one element more.                      *)
(***************************************************************************)
LEMMA RoomHolds ==
  ASSUME NEW c, NEW q, RingHolds(buf, head, c, q), count = Len(q)
  PROVE  \E k \in Nat : /\ RingHolds(Room.buf, Room.head, k, q) /\ Len(q) < k
                        /\ CapOf(Room) = k
<1>1. c \in Nat /\ DOMAIN buf = 0..(c - 1) /\ q \in Seq(Elements) /\ head \in Nat
  BY DEF RingHolds
<1>2. PICK n \in Nat : n = Len(q) /\ n = count /\ n <= c
  BY <1>1, LenProperties DEF RingHolds
<1>3. Capacity = c
  BY SliceOf
<1>4. CASE n < c
  <2>1. Room.buf = buf /\ Room.head = head
    BY <1>2, <1>3, <1>4 DEF Room
  <2>2. CapOf(Room) = c
    BY <1>1, <2>1, CapacityOf DEF CapOf
  <2> QED
    BY <1>1, <1>2, <1>4, <2>1, <2>2
<1>5. CASE n = c
  <2>1. PICK k \in Nat : k = Larger(c) /\ n < k
    <3>1. MinCap \in Nat \ {0}
      BY DequeAssumption
    <3>2. Larger(c) \in Nat /\ c < Larger(c)
      BY <1>1, <3>1 DEF Larger
    <3> QED
      BY <1>5, <3>2
  <2>2. PICK b : b = [i \in 0..(k - 1) |-> IF i < n THEN buf[(head + i) % c] ELSE Blank]
    OBVIOUS
  <2>3. Room.buf = b /\ Room.head = 0
    BY <1>2, <1>3, <1>5, <2>1, <2>2 DEF Room
  <2>4. ASSUME NEW i \in 0..(k - 1)
        PROVE  b[(0 + i) % k] = IF i < Len(q) THEN q[i + 1] ELSE Blank
    <3>1. i \in Nat /\ i < 2 * k /\ i < k /\ 0 + i = i
      BY <2>1
    <3>2. i % k = i
      BY <3>1
    <3>3. b[(0 + i) % k] = IF i < n THEN buf[(head + i) % c] ELSE Blank
      BY <2>2, <3>1, <3>2
    <3>4. CASE i < n
      <4>1. i \in 0..(c - 1)
        BY <1>5, <3>1, <3>4
      <4>2. buf[(head + i) % c] = q[i + 1]
        BY <1>2, <3>4, <4>1 DEF RingHolds
      <4> QED
        BY <1>2, <3>3, <3>4, <4>2
    <3>5. CASE ~(i < n)
      BY <1>2, <3>3, <3>5
    <3> QED
      BY <3>4, <3>5
  <2>5. DOMAIN b = 0..(k - 1) /\ Len(q) <= k
    BY <1>2, <2>1, <2>2
  <2>6. RingHolds(b, 0, k, q)
    BY <1>1, <2>1, <2>4, <2>5 DEF RingHolds
  <2>7. CapOf(Room) = k
    BY <2>3, <2>5, CapacityOf DEF CapOf
  <2> QED
    BY <1>2, <2>1, <2>3, <2>6, <2>7
<1> QED
  BY <1>2, <1>1, <1>4, <1>5

(***************************************************************************)
(* A slot is written: the position changes, the others do not.             *)
(***************************************************************************)
SlotWritten(b, h, c, p, v, w) ==
  /\ DOMAIN w = 0..(c - 1)
  /\ \A i \in 0..(c - 1) : w[(h + i) % c] = IF i = p THEN v ELSE b[(h + i) % c]

(***************************************************************************)
(* An assignment to the slot of a position writes that position.           *)
(***************************************************************************)
LEMMA WriteSlot ==
  ASSUME NEW b, NEW h, NEW c, NEW q, RingHolds(b, h, c, q), c > 0,
         NEW p \in 0..(c - 1), NEW v, NEW s, s = (h + p) % c
  PROVE  SlotWritten(b, h, c, p, v, [b EXCEPT ![s] = v])
<1>1. c \in Nat /\ h \in Nat /\ h < c /\ DOMAIN b = 0..(c - 1)
  BY DEF RingHolds
<1>2. PICK f : f = [i \in 0..(c - 1) |-> (h + i) % c]
  OBVIOUS
<1>3. /\ \A i \in 0..(c - 1) : f[i] \in 0..(c - 1) /\ f[i] = (h + i) % c
      /\ \A i, j \in 0..(c - 1) : f[i] = f[j] => i = j
  <2>1. /\ \A i \in 0..(c - 1) : (h + i) % c \in 0..(c - 1)
        /\ \A i, j \in 0..(c - 1) : (h + i) % c = (h + j) % c => i = j
    BY <1>1, SlotFacts
  <2>2. \A i \in 0..(c - 1) : f[i] = (h + i) % c
    BY <1>2
  <2>3. \A i \in 0..(c - 1) : f[i] \in 0..(c - 1)
    BY <2>1, <2>2
  <2>4. ASSUME NEW i \in 0..(c - 1), NEW j \in 0..(c - 1), f[i] = f[j] PROVE i = j
    <3>1. (h + i) % c = (h + j) % c
      BY <2>2, <2>4
    <3> QED
      BY <2>1, <3>1
  <2> QED
    BY <2>2, <2>3, <2>4
<1>4. PICK w : w = [b EXCEPT ![s] = v]
  OBVIOUS
<1>5. DOMAIN w = 0..(c - 1)
  BY <1>1, <1>4
<1>6. s = f[p]
  BY <1>3
<1>7. \A i \in 0..(c - 1) : w[f[i]] = IF i = p THEN v ELSE b[f[i]]
  BY <1>1, <1>3, <1>4, <1>6
<1>8. SlotWritten(b, h, c, p, v, w)
  BY <1>3, <1>5, <1>7 DEF SlotWritten
<1> QED
  BY <1>4, <1>8

(***************************************************************************)
(* The head one slot back, and one slot forth.                             *)
(***************************************************************************)
LEMMA HeadBack ==
  ASSUME NEW c \in Nat, NEW h \in Nat, h < c
  PROVE  /\ (h - 1 + c) % c \in Nat /\ (h - 1 + c) % c < c
         /\ (((h - 1 + c) % c) + 0) % c = (h - 1 + c) % c
         /\ \A i \in 1..(c - 1) : (((h - 1 + c) % c) + i) % c = (h + (i - 1)) % c
<1>1. PICK x \in Nat : x = h - 1 + c /\ x < 2 * c
  OBVIOUS
<1>2. PICK g : g = x % c
  OBVIOUS
<1>3. x % c = IF x < c THEN x ELSE x - c
  BY <1>1, OneTurn
<1>4. g = IF h = 0 THEN c - 1 ELSE h - 1
  BY <1>1, <1>2, <1>3
<1>5. g \in Nat /\ g < c
  BY <1>4
<1>6. \A i \in 0..(c - 1) : (g + i) % c = IF g + i < c THEN g + i ELSE g + i - c
  BY <1>5, SlotFacts
<1>7. \A i \in 0..(c - 1) : (h + i) % c = IF h + i < c THEN h + i ELSE h + i - c
  BY SlotFacts
<1>8. (g + 0) % c = g
  BY <1>5, <1>6
<1>9. ASSUME NEW i \in 1..(c - 1) PROVE (g + i) % c = (h + (i - 1)) % c
  <2>1. PICK j \in 0..(c - 1) : j = i - 1
    OBVIOUS
  <2>2. (h + j) % c = IF h + j < c THEN h + j ELSE h + j - c
    BY <1>7
  <2>3. (g + i) % c = IF g + i < c THEN g + i ELSE g + i - c
    BY <1>6
  <2>4. (IF g + i < c THEN g + i ELSE g + i - c) = (IF h + j < c THEN h + j ELSE h + j - c)
    BY <1>4, <2>1
  <2> QED
    BY <2>1, <2>2, <2>3, <2>4
<1> QED
  BY <1>1, <1>2, <1>5, <1>8, <1>9

(***************************************************************************)
(* Positions after the head has moved one slot forth.                      *)
(***************************************************************************)
LEMMA HeadForth ==
  ASSUME NEW c \in Nat, NEW h \in Nat, h < c
  PROVE  /\ (h + 1) % c \in Nat /\ (h + 1) % c < c
         /\ \A i \in 0..(c - 2) : (((h + 1) % c) + i) % c = (h + (i + 1)) % c
         /\ (((h + 1) % c) + (c - 1)) % c = h
<1>1. PICK x \in Nat : x = h + 1 /\ (x < 2 * c)
  OBVIOUS
<1>2. PICK g : g = x % c
  OBVIOUS
<1>3. x % c = IF x < c THEN x ELSE x - c
  BY <1>1, OneTurn
<1>4. g = IF h = c - 1 THEN 0 ELSE h + 1
  BY <1>1, <1>2, <1>3
<1>5. g \in Nat /\ g < c
  BY <1>4
<1>6. \A i \in 0..(c - 1) : (g + i) % c = IF g + i < c THEN g + i ELSE g + i - c
  BY <1>5, SlotFacts
<1>7. \A i \in 0..(c - 1) : (h + i) % c = IF h + i < c THEN h + i ELSE h + i - c
  BY SlotFacts
<1>8. (g + (c - 1)) % c = h
  <2>1. c - 1 \in 0..(c - 1)
    OBVIOUS
  <2>2. (g + (c - 1)) % c = IF g + (c - 1) < c THEN g + (c - 1) ELSE g + (c - 1) - c
    BY <1>6, <2>1
  <2>3. (IF g + (c - 1) < c THEN g + (c - 1) ELSE g + (c - 1) - c) = h
    BY <1>4
  <2> QED
    BY <2>2, <2>3
<1>9. ASSUME NEW i \in 0..(c - 2) PROVE (g + i) % c = (h + (i + 1)) % c
  <2>1. PICK j \in 0..(c - 1) : j = i + 1
    OBVIOUS
  <2>2. (h + j) % c = IF h + j < c THEN h + j ELSE h + j - c
    BY <1>7
  <2>3. i \in 0..(c - 1)
    OBVIOUS
  <2>4. (g + i) % c = IF g + i < c THEN g + i ELSE g + i - c
    BY <1>6, <2>3
  <2>5. (IF g + i < c THEN g + i ELSE g + i - c) = (IF h + j < c THEN h + j ELSE h + j - c)
    BY <1>4, <2>1
  <2> QED
    BY <2>1, <2>2, <2>4, <2>5
<1> QED
  BY <1>1, <1>2, <1>5, <1>8, <1>9

(***************************************************************************)
(* PushBack: the sequence with one element more at its end.                *)
(***************************************************************************)
LEMMA BackHolds ==
  ASSUME NEW b, NEW h, NEW c, NEW q, RingHolds(b, h, c, q), Len(q) < c, NEW v \in Elements
  PROVE  RingHolds([b EXCEPT ![(h + Len(q)) % c] = v], h, c, Append(q, v))
<1>1. c \in Nat /\ h \in Nat /\ q \in Seq(Elements)
  BY DEF RingHolds
<1>2. PICK n \in Nat : n = Len(q) /\ n < c
  BY <1>1, LenProperties
<1>3. n \in 0..(c - 1) /\ c > 0
  BY <1>1, <1>2
<1>4. PICK w : w = [b EXCEPT ![(h + n) % c] = v]
  OBVIOUS
<1>5. /\ DOMAIN w = 0..(c - 1)
      /\ \A i \in 0..(c - 1) : w[(h + i) % c] = IF i = n THEN v ELSE b[(h + i) % c]
  <2>1. PICK s : s = (h + n) % c
    OBVIOUS
  <2>2. SlotWritten(b, h, c, n, v, [b EXCEPT ![s] = v])
    BY <1>3, <2>1, WriteSlot
  <2>3. SlotWritten(b, h, c, n, v, w)
    BY <1>4, <2>1, <2>2
  <2> QED
    BY <2>3 DEF SlotWritten
<1>6. PICK r : r = Append(q, v)
  OBVIOUS
<1>7. /\ r \in Seq(Elements) /\ Len(r) = n + 1 /\ r[n + 1] = v
      /\ \A i \in 1..n : r[i] = q[i]
  BY <1>1, <1>2, <1>6, AppendProperties
<1>8. ASSUME NEW i \in 0..(c - 1)
      PROVE  w[(h + i) % c] = IF i < n + 1 THEN r[i + 1] ELSE Blank
  <2>1. b[(h + i) % c] = IF i < n THEN q[i + 1] ELSE Blank
    BY <1>2 DEF RingHolds
  <2>2. CASE i = n
    BY <1>5, <1>7, <2>2
  <2>3. CASE i < n
    <3>1. i + 1 \in 1..n /\ i # n /\ i < n + 1
      BY <1>2, <2>3
    <3> QED
      BY <1>5, <1>7, <2>1, <2>3, <3>1
  <2>4. CASE i > n
    <3>1. i # n /\ ~(i < n + 1) /\ ~(i < n)
      BY <1>2, <2>4
    <3> QED
      BY <1>5, <2>1, <3>1
  <2> QED
    BY <1>2, <2>2, <2>3, <2>4
<1>9. n + 1 <= c /\ (c = 0 => h = 0) /\ (c > 0 => h < c)
  BY <1>1, <1>2 DEF RingHolds
<1>10. RingHolds(w, h, c, r)
  BY <1>1, <1>5, <1>7, <1>8, <1>9 DEF RingHolds
<1> QED
  BY <1>2, <1>4, <1>6, <1>10

(***************************************************************************)
(* A sequence with one element more at its front.                          *)
(***************************************************************************)
LEMMA ConsFacts ==
  ASSUME NEW S, NEW q \in Seq(S), NEW v \in S
  PROVE  /\ <<v>> \o q \in Seq(S) /\ Len(<<v>> \o q) = Len(q) + 1
         /\ (<<v>> \o q)[1] = v
         /\ \A i \in 2..(Len(q) + 1) : (<<v>> \o q)[i] = q[i - 1]
<1>1. <<v>> \in Seq(S) /\ Len(<<v>>) = 1 /\ <<v>>[1] = v
  OBVIOUS
<1>2. /\ <<v>> \o q \in Seq(S) /\ Len(<<v>> \o q) = Len(<<v>>) + Len(q)
      /\ \A i \in 1..(Len(<<v>>) + Len(q)) :
           (<<v>> \o q)[i] = IF i <= Len(<<v>>) THEN <<v>>[i] ELSE q[i - Len(<<v>>)]
  BY <1>1, ConcatProperties
<1>3. PICK n \in Nat : n = Len(q)
  BY LenProperties
<1>4. \A i \in 1..(n + 1) : (<<v>> \o q)[i] = IF i <= 1 THEN <<v>>[i] ELSE q[i - 1]
  <2>1. Len(<<v>>) + Len(q) = n + 1
    BY <1>1, <1>3
  <2> QED
    BY <1>1, <1>2, <2>1
<1>5. 1 \in 1..(n + 1) /\ \A i \in 2..(n + 1) : i \in 1..(n + 1) /\ ~(i <= 1)
  OBVIOUS
<1> QED
  BY <1>1, <1>2, <1>3, <1>4, <1>5

(***************************************************************************)
(* PushFront: the sequence with one element more at its front.             *)
(***************************************************************************)
LEMMA FrontHolds ==
  ASSUME NEW b, NEW h, NEW c, NEW q, RingHolds(b, h, c, q), Len(q) < c, NEW v \in Elements
  PROVE  RingHolds([b EXCEPT ![(h - 1 + c) % c] = v], (h - 1 + c) % c, c, <<v>> \o q)
<1>1. c \in Nat /\ h \in Nat /\ q \in Seq(Elements)
  BY DEF RingHolds
<1>2. PICK n \in Nat : n = Len(q) /\ n < c
  BY <1>1, LenProperties
<1>3. c > 0 /\ h < c
  BY <1>1, <1>2 DEF RingHolds
<1>4. PICK g : g = (h - 1 + c) % c
  OBVIOUS
<1>5. g \in Nat /\ g < c /\ (g + 0) % c = g /\ \A i \in 1..(c - 1) : (g + i) % c = (h + (i - 1)) % c
  BY <1>1, <1>3, <1>4, HeadBack
<1>6. PICK w : w = [b EXCEPT ![g] = v]
  OBVIOUS
<1>7. PICK r : r = <<v>> \o q
  OBVIOUS
<1>8. /\ r \in Seq(Elements) /\ Len(r) = n + 1 /\ r[1] = v
      /\ \A i \in 2..(n + 1) : r[i] = q[i - 1]
  BY <1>1, <1>2, <1>7, ConsFacts
<1>9. DOMAIN w = 0..(c - 1) /\ DOMAIN b = 0..(c - 1) /\ g \in 0..(c - 1)
  BY <1>1, <1>5, <1>6 DEF RingHolds
<1>10. ASSUME NEW i \in 0..(c - 1)
       PROVE  w[(g + i) % c] = IF i < n + 1 THEN r[i + 1] ELSE Blank
  <2>1. CASE i = 0
    BY <1>2, <1>5, <1>6, <1>8, <1>9, <2>1
  <2>2. CASE i # 0
    <3>1. PICK j \in 0..(c - 1) : j = i - 1
      BY <1>1, <2>2
    <3>2. i \in 1..(c - 1)
      BY <2>2
    <3>3. (g + i) % c = (h + j) % c
      BY <1>5, <3>1, <3>2
    <3>4. (g + i) % c # g /\ (g + i) % c \in 0..(c - 1)
      <4>1. /\ \A k \in 0..(c - 1) : (g + k) % c \in 0..(c - 1)
            /\ \A k, l \in 0..(c - 1) : (g + k) % c = (g + l) % c => k = l
        BY <1>1, <1>5, SlotFacts
      <4>2. 0 \in 0..(c - 1)
        BY <1>1, <1>3
      <4> QED
        BY <1>5, <2>2, <4>1, <4>2
    <3>5. w[(g + i) % c] = b[(h + j) % c]
      BY <1>6, <1>9, <3>3, <3>4
    <3>6. b[(h + j) % c] = IF j < n THEN q[j + 1] ELSE Blank
      BY <1>2 DEF RingHolds
    <3>7. CASE j < n
      <4>1. i + 1 \in 2..(n + 1) /\ (i + 1) - 1 = j + 1 /\ i < n + 1
        BY <1>2, <3>1, <3>2, <3>7
      <4>2. r[i + 1] = q[(i + 1) - 1]
        BY <1>8, <4>1
      <4> QED
        BY <3>5, <3>6, <3>7, <4>1, <4>2
    <3>8. CASE ~(j < n)
      <4>1. ~(i < n + 1)
        BY <1>2, <3>1, <3>8
      <4> QED
        BY <3>5, <3>6, <3>8, <4>1
    <3> QED
      BY <3>7, <3>8
  <2> QED
    BY <2>1, <2>2
<1>11. n + 1 <= c
  BY <1>1, <1>2
<1>12. RingHolds(w, g, c, r)
  <2>1. \A i \in 0..(c - 1) : w[(g + i) % c] = IF i < Len(r) THEN r[i + 1] ELSE Blank
    BY <1>8, <1>10
  <2>2. /\ c \in Nat /\ DOMAIN w = 0..(c - 1)
        /\ g \in Nat /\ (c = 0 => g = 0) /\ (c > 0 => g < c)
        /\ r \in Seq(Elements) /\ Len(r) <= c
    BY <1>1, <1>3, <1>5, <1>8, <1>9, <1>11
  <2> QED
    BY <2>1, <2>2 DEF RingHolds
<1> QED
  BY <1>4, <1>6, <1>7, <1>12

(***************************************************************************)
(* PopFront and PopBack: the sequence without its first or last element,   *)
(* whose slot is cleared.                                                  *)
(***************************************************************************)
LEMMA PopFrontHolds ==
  ASSUME NEW b, NEW h, NEW c, NEW q, RingHolds(b, h, c, q), Len(q) > 0
  PROVE  /\ RingHolds([b EXCEPT ![h] = Blank], (h + 1) % c, c, Tail(q))
         /\ Len(Tail(q)) = Len(q) - 1
<1>1. c \in Nat /\ h \in Nat /\ q \in Seq(Elements)
  BY DEF RingHolds
<1>2. PICK n \in Nat : n = Len(q) /\ n <= c /\ n > 0
  BY <1>1, LenProperties DEF RingHolds
<1>3. c > 0 /\ h < c
  BY <1>1, <1>2 DEF RingHolds
<1>4. PICK g : g = (h + 1) % c
  OBVIOUS
<1>5. /\ g \in Nat /\ g < c /\ (g + (c - 1)) % c = h
      /\ \A i \in 0..(c - 2) : (g + i) % c = (h + (i + 1)) % c
  BY <1>1, <1>3, <1>4, HeadForth
<1>6. PICK w : w = [b EXCEPT ![h] = Blank]
  OBVIOUS
<1>7. PICK r : r = Tail(q)
  OBVIOUS
<1>8. r \in Seq(Elements) /\ Len(r) = n - 1 /\ \A i \in 1..(n - 1) : r[i] = q[i + 1]
  <2>1. q # <<>>
    BY <1>1, <1>2
  <2> QED
    BY <1>1, <1>2, <1>7, <2>1, HeadTailProperties
<1>9. DOMAIN w = 0..(c - 1) /\ DOMAIN b = 0..(c - 1) /\ h \in 0..(c - 1)
  BY <1>1, <1>3, <1>6 DEF RingHolds
<1>10. ASSUME NEW i \in 0..(c - 1)
       PROVE  w[(g + i) % c] = IF i < n - 1 THEN r[i + 1] ELSE Blank
  <2>1. CASE i = c - 1
    <3>1. (g + i) % c = h /\ ~(i < n - 1)
      BY <1>1, <1>2, <1>5, <2>1
    <3> QED
      BY <1>6, <1>9, <3>1
  <2>2. CASE i # c - 1
    <3>1. PICK j \in 0..(c - 1) : j = i + 1
      BY <1>1, <2>2
    <3>2. i \in 0..(c - 2)
      BY <1>1, <2>2
    <3>3. (g + i) % c = (h + j) % c
      BY <1>5, <3>1, <3>2
    <3>4. (h + j) % c # h /\ (h + j) % c \in 0..(c - 1)
      <4>1. /\ \A k \in 0..(c - 1) : (h + k) % c \in 0..(c - 1)
            /\ \A k, l \in 0..(c - 1) : (h + k) % c = (h + l) % c => k = l
            /\ \A k \in 0..(c - 1) : (h + k) % c = IF h + k < c THEN h + k ELSE h + k - c
        BY <1>1, <1>3, SlotFacts
      <4>2. 0 \in 0..(c - 1) /\ j # 0 /\ h + 0 = h
        BY <1>1, <1>3, <3>1, <3>2
      <4>3. (h + 0) % c = h
        BY <1>3, <4>1, <4>2
      <4>4. (h + j) % c # (h + 0) % c
        BY <4>1, <4>2
      <4> QED
        BY <4>1, <4>3, <4>4
    <3>5. w[(g + i) % c] = b[(h + j) % c]
      BY <1>6, <1>9, <3>3, <3>4
    <3>6. b[(h + j) % c] = IF j < n THEN q[j + 1] ELSE Blank
      BY <1>2 DEF RingHolds
    <3>7. CASE j < n
      <4>1. i + 1 \in 1..(n - 1) /\ (i + 1) + 1 = j + 1 /\ i < n - 1
        BY <1>2, <3>1, <3>2, <3>7
      <4>2. r[i + 1] = q[(i + 1) + 1]
        BY <1>8, <4>1
      <4> QED
        BY <3>5, <3>6, <3>7, <4>1, <4>2
    <3>8. CASE ~(j < n)
      <4>1. ~(i < n - 1)
        BY <1>2, <3>1, <3>8
      <4> QED
        BY <3>5, <3>6, <3>8, <4>1
    <3> QED
      BY <3>7, <3>8
  <2> QED
    BY <2>1, <2>2
<1>11. n - 1 <= c
  BY <1>1, <1>2
<1>12. RingHolds(w, g, c, r)
  <2>1. \A i \in 0..(c - 1) : w[(g + i) % c] = IF i < Len(r) THEN r[i + 1] ELSE Blank
    BY <1>8, <1>10
  <2>2. /\ c \in Nat /\ DOMAIN w = 0..(c - 1)
        /\ g \in Nat /\ (c = 0 => g = 0) /\ (c > 0 => g < c)
        /\ r \in Seq(Elements) /\ Len(r) <= c
    BY <1>1, <1>3, <1>5, <1>8, <1>9, <1>11
  <2> QED
    BY <2>1, <2>2 DEF RingHolds
<1> QED
  BY <1>2, <1>4, <1>6, <1>7, <1>8, <1>12

(***************************************************************************)
(* PopBack clears the slot of the last element.                            *)
(***************************************************************************)
LEMMA PopBackHolds ==
  ASSUME NEW b, NEW h, NEW c, NEW q, RingHolds(b, h, c, q), Len(q) > 0
  PROVE  /\ RingHolds([b EXCEPT ![(h + Len(q) - 1) % c] = Blank], h, c, Front(q))
         /\ Len(Front(q)) = Len(q) - 1
<1>1. c \in Nat /\ h \in Nat /\ q \in Seq(Elements)
  BY DEF RingHolds
<1>2. PICK n \in Nat : n = Len(q) /\ n <= c /\ n > 0
  BY <1>1, LenProperties DEF RingHolds
<1>3. c > 0 /\ h < c
  BY <1>1, <1>2 DEF RingHolds
<1>4. PICK p \in 0..(c - 1) : p = n - 1 /\ h + p = h + n - 1
  BY <1>1, <1>2
<1>5. PICK w : w = [b EXCEPT ![(h + p) % c] = Blank]
  OBVIOUS
<1>6. /\ DOMAIN w = 0..(c - 1)
      /\ \A i \in 0..(c - 1) : w[(h + i) % c] = IF i = p THEN Blank ELSE b[(h + i) % c]
  <2>1. PICK s : s = (h + p) % c
    OBVIOUS
  <2>2. SlotWritten(b, h, c, p, Blank, [b EXCEPT ![s] = Blank])
    BY <1>3, <2>1, WriteSlot
  <2>3. SlotWritten(b, h, c, p, Blank, w)
    BY <1>5, <2>1, <2>2
  <2> QED
    BY <2>3 DEF SlotWritten
<1>7. PICK r : r = Front(q)
  OBVIOUS
<1>8. r \in Seq(Elements) /\ Len(r) = n - 1 /\ \A i \in 1..(n - 1) : r[i] = q[i]
  <2>1. 1 \in 1..(Len(q) + 1) /\ n - 1 \in (1 - 1)..Len(q)
    BY <1>2
  <2>2. /\ SubSeq(q, 1, n - 1) \in Seq(Elements)
        /\ Len(SubSeq(q, 1, n - 1)) = (n - 1) - 1 + 1
        /\ \A j \in 1..((n - 1) - 1 + 1) : SubSeq(q, 1, n - 1)[j] = q[1 + j - 1]
    BY <1>1, <2>1, SubSeqFacts
  <2>3. (n - 1) - 1 + 1 = n - 1 /\ \A j \in 1..(n - 1) : 1 + j - 1 = j
    BY <1>2
  <2>4. r = SubSeq(q, 1, n - 1)
    BY <1>2, <1>7 DEF Front
  <2> QED
    BY <2>2, <2>3, <2>4
<1>9. ASSUME NEW i \in 0..(c - 1)
      PROVE  w[(h + i) % c] = IF i < n - 1 THEN r[i + 1] ELSE Blank
  <2>1. b[(h + i) % c] = IF i < n THEN q[i + 1] ELSE Blank
    BY <1>2 DEF RingHolds
  <2>2. CASE i = p
    <3>1. ~(i < n - 1)
      BY <1>2, <1>4, <2>2
    <3> QED
      BY <1>6, <2>2, <3>1
  <2>3. CASE i < p
    <3>1. i + 1 \in 1..(n - 1) /\ i # p /\ i < n /\ i < n - 1
      BY <1>2, <1>4, <2>3
    <3> QED
      BY <1>6, <1>8, <2>1, <3>1
  <2>4. CASE i > p
    <3>1. i # p /\ ~(i < n) /\ ~(i < n - 1)
      BY <1>2, <1>4, <2>4
    <3> QED
      BY <1>6, <2>1, <3>1
  <2> QED
    BY <1>4, <2>2, <2>3, <2>4
<1>10. n - 1 <= c
  BY <1>1, <1>2
<1>11. RingHolds(w, h, c, r)
  BY <1>1, <1>3, <1>6, <1>8, <1>9, <1>10 DEF RingHolds
<1>12. [b EXCEPT ![(h + Len(q) - 1) % c] = Blank] = w
  BY <1>2, <1>4, <1>5
<1> QED
  BY <1>2, <1>7, <1>8, <1>11, <1>12

(***************************************************************************)
(* Set: one element is another one.                                        *)
(***************************************************************************)
LEMMA SetHolds ==
  ASSUME NEW b, NEW h, NEW c, NEW q, RingHolds(b, h, c, q), NEW p \in Nat, p < Len(q),
         NEW v \in Elements
  PROVE  /\ RingHolds([b EXCEPT ![(h + p) % c] = v], h, c, [q EXCEPT ![p + 1] = v])
         /\ Len([q EXCEPT ![p + 1] = v]) = Len(q)
<1>1. c \in Nat /\ h \in Nat /\ q \in Seq(Elements)
  BY DEF RingHolds
<1>2. PICK n \in Nat : n = Len(q) /\ n <= c /\ p < n /\ DOMAIN q = 1..n
  BY <1>1, LenProperties DEF RingHolds
<1>3. c > 0 /\ h < c /\ p \in 0..(c - 1) /\ p + 1 \in 1..n
  BY <1>1, <1>2 DEF RingHolds
<1>4. PICK w : w = [b EXCEPT ![(h + p) % c] = v]
  OBVIOUS
<1>5. /\ DOMAIN w = 0..(c - 1)
      /\ \A i \in 0..(c - 1) : w[(h + i) % c] = IF i = p THEN v ELSE b[(h + i) % c]
  <2>1. PICK s : s = (h + p) % c
    OBVIOUS
  <2>2. SlotWritten(b, h, c, p, v, [b EXCEPT ![s] = v])
    BY <1>3, <2>1, WriteSlot
  <2>3. SlotWritten(b, h, c, p, v, w)
    BY <1>4, <2>1, <2>2
  <2> QED
    BY <2>3 DEF SlotWritten
<1>6. PICK r : r = [q EXCEPT ![p + 1] = v]
  OBVIOUS
<1>7. r \in Seq(Elements) /\ Len(r) = n /\ \A i \in 1..n : r[i] = IF i = p + 1 THEN v ELSE q[i]
  BY <1>1, <1>2, <1>3, <1>6, ExceptSeq
<1>8. ASSUME NEW i \in 0..(c - 1)
      PROVE  w[(h + i) % c] = IF i < n THEN r[i + 1] ELSE Blank
  <2>1. b[(h + i) % c] = IF i < n THEN q[i + 1] ELSE Blank
    BY <1>2 DEF RingHolds
  <2>2. CASE i = p
    BY <1>2, <1>3, <1>5, <1>7, <2>2
  <2>3. CASE i # p /\ i < n
    <3>1. i + 1 \in 1..n /\ i + 1 # p + 1
      BY <1>2, <2>3
    <3> QED
      BY <1>5, <1>7, <2>1, <2>3, <3>1
  <2>4. CASE ~(i < n)
    BY <1>2, <1>5, <2>1, <2>4
  <2> QED
    BY <2>2, <2>3, <2>4
<1>9. RingHolds(w, h, c, r)
  BY <1>1, <1>2, <1>3, <1>5, <1>7, <1>8 DEF RingHolds
<1> QED
  BY <1>2, <1>4, <1>6, <1>7, <1>9

(***************************************************************************)
(* The position of a slot, and the slots beside it.                        *)
(***************************************************************************)
LEMMA PositionExists ==
  ASSUME NEW c \in Nat, NEW h \in Nat, h < c, NEW s \in 0..(c - 1)
  PROVE  \E i \in 0..(c - 1) : i = (s - h + c) % c /\ (h + i) % c = s
<1>1. PICK k : k = (s - h + c) % c
  OBVIOUS
<1>2. (s - h + c) % c \in 0..(c - 1)
  BY SlotFacts
<1>3. (h + ((s - h + c) % c)) % c = s
  BY SlotFacts
<1>4. k \in 0..(c - 1) /\ (h + k) % c = s
  BY <1>1, <1>2, <1>3
<1> QED
  BY <1>1, <1>4

(***************************************************************************)
(* The slot at a position has that position.                               *)
(***************************************************************************)
LEMMA PositionOf ==
  ASSUME NEW c \in Nat, NEW h \in Nat, h < c, NEW j \in 0..(c - 1), NEW s, s = (h + j) % c
  PROVE  s \in 0..(c - 1) /\ (s - h + c) % c = j
<1>1. s \in 0..(c - 1)
  BY SlotFacts
<1>2. PICK k : k = (s - h + c) % c
  OBVIOUS
<1>3. k \in 0..(c - 1) /\ (h + k) % c = s
  <2>1. (s - h + c) % c \in 0..(c - 1)
    BY <1>1, SlotFacts
  <2>2. (h + ((s - h + c) % c)) % c = s
    BY <1>1, SlotFacts
  <2> QED
    BY <1>2, <2>1, <2>2
<1>4. (h + k) % c = (h + j) % c
  BY <1>3
<1>5. k = j
  <2>1. \A x, y \in 0..(c - 1) : (h + x) % c = (h + y) % c => x = y
    BY SlotFacts
  <2> QED
    BY <1>3, <1>4, <2>1
<1> QED
  BY <1>1, <1>2, <1>5

Back(h, c) == (h - 1 + c) % c

(***************************************************************************)
(* The slot after that of a position, counted from the slot before the     *)
(* head.                                                                   *)
(***************************************************************************)
LEMMA NextSlot ==
  ASSUME NEW c \in Nat, NEW h \in Nat, h < c, NEW g, g = Back(h, c),
         NEW j \in 0..(c - 1), NEW s, s = (g + j) % c
  PROVE  (s + 1) % c = (h + j) % c
<1>1. g \in Nat /\ g < c
  BY HeadBack DEF Back
<1>2. g = IF h = 0 THEN c - 1 ELSE h - 1
  <2>1. PICK x \in Nat : x = h - 1 + c /\ x < 2 * c
    OBVIOUS
  <2>2. x % c = IF x < c THEN x ELSE x - c
    BY <2>1, OneTurn
  <2> QED
    BY <2>1, <2>2 DEF Back
<1>3. s = IF g + j < c THEN g + j ELSE g + j - c
  BY <1>1, SlotFacts
<1>4. s \in 0..(c - 1)
  BY <1>1, <1>3
<1>5. PICK x \in Nat : x = s + 1 /\ x < 2 * c
  BY <1>4
<1>6. x % c = IF x < c THEN x ELSE x - c
  BY <1>5, OneTurn
<1>7. (h + j) % c = IF h + j < c THEN h + j ELSE h + j - c
  BY SlotFacts
<1>8. (IF x < c THEN x ELSE x - c) = (IF h + j < c THEN h + j ELSE h + j - c)
  BY <1>2, <1>3, <1>5
<1> QED
  BY <1>5, <1>6, <1>7, <1>8

(***************************************************************************)
(* The slot before that of a position.                                     *)
(***************************************************************************)
LEMMA PreviousSlot ==
  ASSUME NEW c \in Nat, NEW h \in Nat, h < c, NEW j \in 1..(c - 1), NEW s, s = (h + j) % c
  PROVE  (s - 1 + c) % c = (h + (j - 1)) % c
<1>1. PICK k \in 0..(c - 1) : k = j - 1
  OBVIOUS
<1>2. j \in 0..(c - 1)
  OBVIOUS
<1>3. s = IF h + j < c THEN h + j ELSE h + j - c
  BY <1>2, SlotFacts
<1>4. s \in 0..(c - 1)
  BY <1>3
<1>5. PICK x \in Nat : x = s - 1 + c /\ x < 2 * c
  BY <1>4
<1>6. x % c = IF x < c THEN x ELSE x - c
  BY <1>5, OneTurn
<1>7. (h + k) % c = IF h + k < c THEN h + k ELSE h + k - c
  BY SlotFacts
<1>8. (IF x < c THEN x ELSE x - c) = (IF h + k < c THEN h + k ELSE h + k - c)
  BY <1>1, <1>3, <1>5
<1> QED
  BY <1>1, <1>5, <1>6, <1>7, <1>8

(***************************************************************************)
(* Insert, whichever side is shifted: one element more in the middle.      *)
(***************************************************************************)
LeftShift(b, g, c, p, v) ==
  [s \in DOMAIN b |-> IF (s - g + c) % c < p THEN b[(s + 1) % c]
                      ELSE IF (s - g + c) % c = p THEN v ELSE b[s]]

RightShift(b, h, c, n, p, v) ==
  [s \in DOMAIN b |-> IF (s - h + c) % c > p /\ (s - h + c) % c <= n THEN b[(s - 1 + c) % c]
                      ELSE IF (s - h + c) % c = p THEN v ELSE b[s]]

(***************************************************************************)
(* Shifting to the left inserts.                                           *)
(***************************************************************************)
LEMMA LeftHolds ==
  ASSUME NEW b, NEW h, NEW c, NEW q, RingHolds(b, h, c, q), Len(q) < c,
         NEW p \in Nat, p <= Len(q), NEW v \in Elements, NEW g, g = Back(h, c), NEW w,
         w = LeftShift(b, g, c, p, v)
  PROVE  RingHolds(w, g, c, InsertAt(q, p + 1, v))
<1>1. c \in Nat /\ h \in Nat /\ q \in Seq(Elements) /\ DOMAIN b = 0..(c - 1)
  BY DEF RingHolds
<1>2. PICK n \in Nat : n = Len(q) /\ n < c /\ p <= n
  BY <1>1, LenProperties
<1>3. c > 0 /\ h < c
  BY <1>1, <1>2 DEF RingHolds
<1>4. \A i \in 1..(c - 1) : (g + i) % c = (h + (i - 1)) % c
  BY <1>1, <1>3, HeadBack DEF Back
<1>11. g \in Nat /\ g < c
  BY <1>1, <1>3, HeadBack DEF Back
<1>5. PICK k \in 1..(Len(q) + 1) : k = p + 1
  BY <1>2
<1>6. PICK r : r = InsertAt(q, k, v)
  OBVIOUS
<1>7. /\ r \in Seq(Elements) /\ Len(r) = n + 1
      /\ \A j \in 1..(n + 1) : r[j] = IF j < k THEN q[j] ELSE IF j = k THEN v ELSE q[j - 1]
  <2>1. InsertAt(q, k, v) \in Seq(Elements) /\ Len(InsertAt(q, k, v)) = Len(q) + 1
    BY <1>1, InsertAtFacts
  <2>2. \A j \in 1..(Len(q) + 1) :
          InsertAt(q, k, v)[j] = IF j < k THEN q[j] ELSE IF j = k THEN v ELSE q[j - 1]
    BY <1>1, InsertAtFacts
  <2> QED
    BY <1>2, <1>6, <2>1, <2>2
<1>8. ASSUME NEW j \in 0..(c - 1)
      PROVE  w[(g + j) % c] = IF j < n + 1 THEN r[j + 1] ELSE Blank
  <2>1. PICK s : s = (g + j) % c
    OBVIOUS
  <2>2. s \in 0..(c - 1) /\ (s - g + c) % c = j
    BY <1>1, <1>11, <2>1, PositionOf
  <2>3. w[s] = IF j < p THEN b[(s + 1) % c] ELSE IF j = p THEN v ELSE b[s]
    BY <1>1, <2>2 DEF LeftShift
  <2>4. CASE j < p
    <3>1. (s + 1) % c = (h + j) % c
      BY <1>1, <1>3, <2>1, NextSlot
    <3>2. b[(h + j) % c] = q[j + 1]
      <4>1. j < Len(q)
        BY <1>2, <2>4
      <4> QED
        BY <4>1 DEF RingHolds
    <3>3. j + 1 \in 1..(n + 1) /\ j + 1 < k /\ j < n + 1
      BY <1>2, <1>5, <2>4
    <3>4. r[j + 1] = q[j + 1]
      BY <1>7, <3>3
    <3> QED
      BY <2>1, <2>3, <2>4, <3>1, <3>2, <3>3, <3>4
  <2>5. CASE j = p
    <3>1. j + 1 \in 1..(n + 1) /\ j + 1 = k /\ j < n + 1 /\ ~(j < p) /\ ~(j + 1 < k)
      BY <1>2, <1>5, <2>5
    <3>2. r[j + 1] = v
      BY <1>7, <3>1
    <3> QED
      BY <2>1, <2>3, <2>5, <3>1, <3>2
  <2>6. CASE j > p
    <3>1. PICK i \in 0..(c - 1) : i = j - 1
      BY <1>1, <2>6
    <3>2. j \in 1..(c - 1) /\ ~(j < p) /\ j # p
      BY <1>1, <2>6
    <3>3. s = (h + i) % c
      BY <1>4, <2>1, <3>1, <3>2
    <3>4. w[s] = b[(h + i) % c]
      BY <2>3, <3>2, <3>3
    <3>5. b[(h + i) % c] = IF i < n THEN q[i + 1] ELSE Blank
      BY <1>2 DEF RingHolds
    <3>6. CASE i < n
      <4>1. j + 1 \in 1..(n + 1) /\ ~(j + 1 < k) /\ j + 1 # k /\ (j + 1) - 1 = i + 1 /\ j < n + 1
        BY <1>2, <1>5, <2>6, <3>1, <3>6
      <4>2. r[j + 1] = q[(j + 1) - 1]
        BY <1>7, <4>1
      <4> QED
        BY <2>1, <3>4, <3>5, <3>6, <4>1, <4>2
    <3>7. CASE ~(i < n)
      <4>1. ~(j < n + 1)
        BY <1>2, <3>1, <3>7
      <4> QED
        BY <2>1, <3>4, <3>5, <3>7, <4>1
    <3> QED
      BY <3>6, <3>7
  <2> QED
    BY <2>4, <2>5, <2>6
<1>9. DOMAIN w = 0..(c - 1) /\ n + 1 <= c
  BY <1>1, <1>2 DEF LeftShift
<1>10. RingHolds(w, g, c, r)
  <2>1. \A i \in 0..(c - 1) : w[(g + i) % c] = IF i < Len(r) THEN r[i + 1] ELSE Blank
    BY <1>7, <1>8
  <2>2. /\ c \in Nat /\ DOMAIN w = 0..(c - 1)
        /\ g \in Nat /\ (c = 0 => g = 0) /\ (c > 0 => g < c)
        /\ r \in Seq(Elements) /\ Len(r) <= c
    BY <1>1, <1>3, <1>7, <1>9, <1>11
  <2> QED
    BY <2>1, <2>2 DEF RingHolds
<1> QED
  BY <1>5, <1>6, <1>10

(***************************************************************************)
(* Shifting to the right inserts.                                          *)
(***************************************************************************)
LEMMA RightHolds ==
  ASSUME NEW b, NEW h, NEW c, NEW q, RingHolds(b, h, c, q), Len(q) < c,
         NEW p \in Nat, p <= Len(q), NEW v \in Elements, NEW w,
         w = RightShift(b, h, c, Len(q), p, v)
  PROVE  RingHolds(w, h, c, InsertAt(q, p + 1, v))
<1>1. c \in Nat /\ h \in Nat /\ q \in Seq(Elements) /\ DOMAIN b = 0..(c - 1)
  BY DEF RingHolds
<1>2. PICK n \in Nat : n = Len(q) /\ n < c /\ p <= n
  BY <1>1, LenProperties
<1>3. c > 0 /\ h < c
  BY <1>1, <1>2 DEF RingHolds
<1>4. PICK k \in 1..(Len(q) + 1) : k = p + 1
  BY <1>2
<1>5. PICK r : r = InsertAt(q, k, v)
  OBVIOUS
<1>6. /\ r \in Seq(Elements) /\ Len(r) = n + 1
      /\ \A j \in 1..(n + 1) : r[j] = IF j < k THEN q[j] ELSE IF j = k THEN v ELSE q[j - 1]
  <2>1. InsertAt(q, k, v) \in Seq(Elements) /\ Len(InsertAt(q, k, v)) = Len(q) + 1
    BY <1>1, InsertAtFacts
  <2>2. \A j \in 1..(Len(q) + 1) :
          InsertAt(q, k, v)[j] = IF j < k THEN q[j] ELSE IF j = k THEN v ELSE q[j - 1]
    BY <1>1, InsertAtFacts
  <2> QED
    BY <1>2, <1>5, <2>1, <2>2
<1>7. ASSUME NEW j \in 0..(c - 1)
      PROVE  w[(h + j) % c] = IF j < n + 1 THEN r[j + 1] ELSE Blank
  <2>1. PICK s : s = (h + j) % c
    OBVIOUS
  <2>2. s \in 0..(c - 1) /\ (s - h + c) % c = j
    BY <1>1, <1>3, <2>1, PositionOf
  <2>3. w[s] = IF j > p /\ j <= n THEN b[(s - 1 + c) % c] ELSE IF j = p THEN v ELSE b[s]
    BY <1>1, <1>2, <2>2 DEF RightShift
  <2>4. CASE j > p /\ j <= n
    <3>1. PICK i \in 0..(c - 1) : i = j - 1
      BY <1>1, <2>4
    <3>2. j \in 1..(c - 1) /\ i < n
      BY <1>1, <1>2, <2>4, <3>1
    <3>3. (s - 1 + c) % c = (h + (j - 1)) % c
      BY <1>1, <1>3, <2>1, <3>2, PreviousSlot
    <3>4. w[s] = b[(h + i) % c]
      BY <2>3, <2>4, <3>1, <3>3
    <3>5. b[(h + i) % c] = q[i + 1]
      BY <1>2, <3>2 DEF RingHolds
    <3>6. j + 1 \in 1..(n + 1) /\ ~(j + 1 < k) /\ j + 1 # k /\ (j + 1) - 1 = i + 1 /\ j < n + 1
      BY <1>2, <1>4, <2>4, <3>1
    <3>7. r[j + 1] = q[(j + 1) - 1]
      BY <1>6, <3>6
    <3> QED
      BY <2>1, <3>4, <3>5, <3>6, <3>7
  <2>5. CASE j = p
    <3>1. j + 1 \in 1..(n + 1) /\ j + 1 = k /\ j < n + 1 /\ ~(j > p) /\ ~(j + 1 < k)
      BY <1>2, <1>4, <2>5
    <3>2. r[j + 1] = v
      BY <1>6, <3>1
    <3> QED
      BY <2>1, <2>3, <2>5, <3>1, <3>2
  <2>6. CASE j < p
    <3>1. j + 1 \in 1..(n + 1) /\ j + 1 < k /\ j < n + 1 /\ ~(j > p) /\ j # p /\ j < Len(q)
      BY <1>2, <1>4, <2>6
    <3>2. w[s] = b[(h + j) % c]
      BY <2>1, <2>3, <3>1
    <3>3. b[(h + j) % c] = q[j + 1]
      BY <3>1 DEF RingHolds
    <3>4. r[j + 1] = q[j + 1]
      BY <1>6, <3>1
    <3> QED
      BY <2>1, <3>1, <3>2, <3>3, <3>4
  <2>7. CASE j > n
    <3>1. ~(j < n + 1) /\ ~(j <= n) /\ j # p /\ ~(j < Len(q))
      BY <1>2, <2>7
    <3>2. w[s] = b[(h + j) % c]
      BY <2>1, <2>3, <3>1
    <3>3. b[(h + j) % c] = Blank
      BY <3>1 DEF RingHolds
    <3> QED
      BY <2>1, <3>1, <3>2, <3>3
  <2> QED
    BY <1>2, <2>4, <2>5, <2>6, <2>7
<1>8. DOMAIN w = 0..(c - 1) /\ n + 1 <= c
  BY <1>1, <1>2 DEF RightShift
<1>9. RingHolds(w, h, c, r)
  <2>1. \A i \in 0..(c - 1) : w[(h + i) % c] = IF i < Len(r) THEN r[i + 1] ELSE Blank
    BY <1>6, <1>7
  <2>2. /\ c \in Nat /\ DOMAIN w = 0..(c - 1)
        /\ h \in Nat /\ (c = 0 => h = 0) /\ (c > 0 => h < c)
        /\ r \in Seq(Elements) /\ Len(r) <= c
    BY <1>1, <1>3, <1>6, <1>8
  <2> QED
    BY <2>1, <2>2 DEF RingHolds
<1> QED
  BY <1>4, <1>5, <1>9

-----------------------------------------------------------------------------
(***************************************************************************)
(* What ToSlice returns, before and after a step.                          *)
(***************************************************************************)
LEMMA SlicesAre ==
  \A c, q : RingHolds(buf, head, c, q) /\ count = Len(q) => Capacity = c /\ ToSlice = q
BY SliceOf

(***************************************************************************)
(* The same of the next state.                                             *)
(***************************************************************************)
LEMMA SlicesWillBe ==
  \A c, q : RingHolds(buf', head', c, q) /\ count' = Len(q) => ToSlice' = q
<1>1. (\A c, q : RingHolds(buf, head, c, q) /\ count = Len(q) => Capacity = c /\ ToSlice = q)'
  BY SlicesAre, PTL
<1> QED
  BY <1>1 DEF RingHolds

(***************************************************************************)
(* A step turns the sequence q into the sequence r.                        *)
(***************************************************************************)
Becomes(r) == \E c : RingHolds(buf', head', c, r) /\ count' = Len(r)

(***************************************************************************)
(* PushFront puts an element before the sequence.                          *)
(***************************************************************************)
LEMMA PushFrontSlice ==
  ASSUME NEW c, NEW q, RingHolds(buf, head, c, q), count = Len(q), NEW v \in Elements, PushFront(v)
  PROVE  Becomes(<<v>> \o q)
<1>1. PICK k \in Nat : /\ RingHolds(Room.buf, Room.head, k, q) /\ Len(q) < k /\ CapOf(Room) = k
  BY RoomHolds
<1>2. PICK b : b = Room.buf
  OBVIOUS
<1>3. PICK h : h = Room.head
  OBVIOUS
<1>4. /\ buf' = [b EXCEPT ![(h - 1 + k) % k] = v] /\ head' = (h - 1 + k) % k
      /\ count' = count + 1
  BY <1>1, <1>2, <1>3 DEF PushFront
<1>5. RingHolds([b EXCEPT ![(h - 1 + k) % k] = v], (h - 1 + k) % k, k, <<v>> \o q)
  BY <1>1, <1>2, <1>3, FrontHolds
<1>6. RingHolds(buf', head', k, <<v>> \o q)
  BY <1>4, <1>5
<1>7. Len(<<v>> \o q) = Len(q) + 1
  BY ConsFacts DEF RingHolds
<1> QED
  BY <1>4, <1>6, <1>7 DEF Becomes

(***************************************************************************)
(* PushBack puts an element after the sequence.                            *)
(***************************************************************************)
LEMMA PushBackSlice ==
  ASSUME NEW c, NEW q, RingHolds(buf, head, c, q), count = Len(q), NEW v \in Elements, PushBack(v)
  PROVE  Becomes(Append(q, v))
<1>1. PICK k \in Nat : /\ RingHolds(Room.buf, Room.head, k, q) /\ Len(q) < k /\ CapOf(Room) = k
  BY RoomHolds
<1>2. PICK b : b = Room.buf
  OBVIOUS
<1>3. PICK h : h = Room.head
  OBVIOUS
<1>4. /\ buf' = [b EXCEPT ![(h + Len(q)) % k] = v] /\ head' = h /\ count' = count + 1
  BY <1>1, <1>2, <1>3 DEF PushBack
<1>5. RingHolds([b EXCEPT ![(h + Len(q)) % k] = v], h, k, Append(q, v))
  BY <1>1, <1>2, <1>3, BackHolds
<1>6. RingHolds(buf', head', k, Append(q, v))
  BY <1>4, <1>5
<1>7. Len(Append(q, v)) = Len(q) + 1
  BY AppendProperties DEF RingHolds
<1> QED
  BY <1>4, <1>6, <1>7 DEF Becomes

(***************************************************************************)
(* PopFront and PopBack take an end off.                                   *)
(***************************************************************************)
LEMMA PopSlice ==
  ASSUME NEW c, NEW q, RingHolds(buf, head, c, q), count = Len(q)
  PROVE  /\ PopFront => q # <<>> /\ Becomes(Tail(q))
         /\ PopBack => q # <<>> /\ Becomes(Front(q))
<1>1. Capacity = c /\ q \in Seq(Elements)
  BY SlicesAre DEF RingHolds
<1>2. ASSUME PopFront PROVE q # <<>> /\ Becomes(Tail(q))
  <2>1. /\ Len(q) > 0 /\ count' = count - 1
        /\ buf' = [buf EXCEPT ![head] = Blank] /\ head' = (head + 1) % c
    BY <1>1, <1>2 DEF PopFront
  <2>2. /\ RingHolds([buf EXCEPT ![head] = Blank], (head + 1) % c, c, Tail(q))
        /\ Len(Tail(q)) = Len(q) - 1
    BY <2>1, PopFrontHolds
  <2>3. RingHolds(buf', head', c, Tail(q))
    BY <2>1, <2>2
  <2>4. q # <<>>
    BY <1>1, <2>1
  <2> QED
    BY <2>1, <2>2, <2>3, <2>4 DEF Becomes
<1>3. ASSUME PopBack PROVE q # <<>> /\ Becomes(Front(q))
  <2>1. /\ Len(q) > 0 /\ count' = count - 1
        /\ buf' = [buf EXCEPT ![(head + Len(q) - 1) % c] = Blank] /\ head' = head
    BY <1>1, <1>3 DEF PopBack
  <2>2. /\ RingHolds([buf EXCEPT ![(head + Len(q) - 1) % c] = Blank], head, c, Front(q))
        /\ Len(Front(q)) = Len(q) - 1
    BY <2>1, PopBackHolds
  <2>3. RingHolds(buf', head', c, Front(q))
    BY <2>1, <2>2
  <2>4. q # <<>>
    BY <1>1, <2>1
  <2> QED
    BY <2>1, <2>2, <2>3, <2>4 DEF Becomes
<1> QED
  BY <1>2, <1>3

(***************************************************************************)
(* Set writes an element.                                                  *)
(***************************************************************************)
LEMMA SetSlice ==
  ASSUME NEW c, NEW q, RingHolds(buf, head, c, q), count = Len(q), NEW v \in Elements,
         NEW p \in Nat, Set(p, v)
  PROVE  p + 1 \in DOMAIN q /\ Becomes([q EXCEPT ![p + 1] = v])
<1>1. Capacity = c /\ q \in Seq(Elements)
  BY SlicesAre DEF RingHolds
<1>2. /\ p < Len(q) /\ count' = count
      /\ buf' = [buf EXCEPT ![(head + p) % c] = v] /\ head' = head
  BY <1>1 DEF Set
<1>3. /\ RingHolds([buf EXCEPT ![(head + p) % c] = v], head, c, [q EXCEPT ![p + 1] = v])
      /\ Len([q EXCEPT ![p + 1] = v]) = Len(q)
  <2>1. PICK b : b = buf
    OBVIOUS
  <2>2. PICK h : h = head
    OBVIOUS
  <2>3. RingHolds(b, h, c, q) /\ p < Len(q)
    BY <1>2, <2>1, <2>2
  <2>4. /\ RingHolds([b EXCEPT ![(h + p) % c] = v], h, c, [q EXCEPT ![p + 1] = v])
        /\ Len([q EXCEPT ![p + 1] = v]) = Len(q)
    <3>1. PICK x : x = (h + p) % c
      OBVIOUS
    <3>2. RingHolds([b EXCEPT ![(h + p) % c] = v], h, c, [q EXCEPT ![p + 1] = v])
      BY <2>3, SetHolds, Zenon
    <3>3. Len([q EXCEPT ![p + 1] = v]) = Len(q)
      BY <2>3, SetHolds
    <3> QED
      BY <3>2, <3>3
  <2> QED
    BY <2>1, <2>2, <2>4
<1>4. RingHolds(buf', head', c, [q EXCEPT ![p + 1] = v])
  BY <1>2, <1>3
<1>5. p + 1 \in DOMAIN q
  BY <1>1, <1>2, LenProperties
<1> QED
  BY <1>2, <1>3, <1>4, <1>5 DEF Becomes

(***************************************************************************)
(* Insert extends the sequence in the middle.                              *)
(***************************************************************************)
LEMMA InsertSlice ==
  ASSUME NEW c, NEW q, RingHolds(buf, head, c, q), count = Len(q), NEW v \in Elements,
         NEW p \in Nat, Insert(p, v)
  PROVE  p + 1 \in 1..(Len(q) + 1) /\ Becomes(InsertAt(q, p + 1, v))
<1>1. PICK k \in Nat : /\ RingHolds(Room.buf, Room.head, k, q) /\ Len(q) < k /\ CapOf(Room) = k
  BY RoomHolds
<1>2. PICK b : b = Room.buf
  OBVIOUS
<1>3. PICK h : h = Room.head
  OBVIOUS
<1>4. p <= Len(q) /\ count' = Len(q) + 1
  BY DEF Insert
<1>5. RingHolds(b, h, k, q)
  BY <1>1, <1>2, <1>3
<1>6. q \in Seq(Elements) /\ Len(q) \in Nat
  BY LenProperties DEF RingHolds
<1>7. p + 1 \in 1..(Len(q) + 1)
  BY <1>4, <1>6
<1>10. Len(InsertAt(q, p + 1, v)) = Len(q) + 1
  <2>1. PICK i \in 1..(Len(q) + 1) : i = p + 1
    BY <1>7
  <2>2. Len(InsertAt(q, i, v)) = Len(q) + 1
    BY <1>6, InsertAtFacts
  <2> QED
    BY <2>1, <2>2
<1>8. CASE ShiftLeft(Room, p, v)
  <2>1. head' = Back(h, k) /\ buf' = LeftShift(b, Back(h, k), k, p, v)
    BY <1>1, <1>2, <1>3, <1>8 DEF ShiftLeft, LeftShift, Back
  <2>2. RingHolds(buf', head', k, InsertAt(q, p + 1, v))
    BY <1>1, <1>4, <1>5, <2>1, LeftHolds
  <2> QED
    BY <1>4, <1>7, <1>10, <2>2 DEF Becomes
<1>9. CASE ShiftRight(Room, p, v)
  <2>1. head' = h /\ buf' = RightShift(b, h, k, Len(q), p, v)
    BY <1>1, <1>2, <1>3, <1>9 DEF ShiftRight, RightShift
  <2>2. RingHolds(buf', head', k, InsertAt(q, p + 1, v))
    BY <1>1, <1>4, <1>5, <2>1, RightHolds
  <2> QED
    BY <1>4, <1>7, <1>10, <2>2 DEF Becomes
<1> QED
  BY <1>8, <1>9 DEF Insert

(***************************************************************************)
(* Every step keeps the invariant and is a step of the sequence, the one   *)
(* of the same operation.                                                  *)
(***************************************************************************)
LEMMA DequeStep ==
  ASSUME DequeIndInv, [DequeNext]_dequeVars
  PROVE  DequeIndInv' /\ [AsSequence!Next]_ToSlice /\ SameOperation
<1>1. PICK c, q : RingHolds(buf, head, c, q) /\ count = Len(q)
  BY DEF DequeIndInv
<1>2. ToSlice = q
  BY <1>1, SlicesAre
<1>3. ASSUME NEW r, Becomes(r) PROVE DequeIndInv' /\ ToSlice' = r
  <2>1. PICK d : RingHolds(buf', head', d, r) /\ count' = Len(r)
    BY <1>3 DEF Becomes
  <2>2. ToSlice' = r
    BY <2>1, SlicesWillBe
  <2>3. \E k, s : RingHolds(buf', head', k, s) /\ count' = Len(s)
    BY <2>1
  <2> QED
    BY <2>2, <2>3 DEF DequeIndInv, RingHolds
<1>4. ASSUME NEW v \in Elements, PushFront(v) PROVE DequeIndInv' /\ AsSequence!PushFront(v)
  <2>1. Becomes(<<v>> \o q)
    BY <1>1, <1>4, PushFrontSlice
  <2>2. DequeIndInv' /\ ToSlice' = <<v>> \o ToSlice
    BY <1>2, <1>3, <2>1
  <2> QED
    BY <2>2 DEF AsSequence!PushFront
<1>5. ASSUME NEW v \in Elements, PushBack(v) PROVE DequeIndInv' /\ AsSequence!PushBack(v)
  <2>1. Becomes(Append(q, v))
    BY <1>1, <1>5, PushBackSlice
  <2>2. DequeIndInv' /\ ToSlice' = Append(ToSlice, v)
    BY <1>2, <1>3, <2>1
  <2> QED
    BY <2>2 DEF AsSequence!PushBack
<1>6. ASSUME PopFront PROVE DequeIndInv' /\ AsSequence!PopFront
  <2>1. q # <<>> /\ Becomes(Tail(q))
    BY <1>1, <1>6, PopSlice
  <2>2. DequeIndInv' /\ ToSlice' = Tail(ToSlice) /\ ToSlice # <<>>
    BY <1>2, <1>3, <2>1
  <2> QED
    BY <2>2 DEF AsSequence!PopFront
<1>7. ASSUME PopBack PROVE DequeIndInv' /\ AsSequence!PopBack
  <2>1. q # <<>> /\ Becomes(Front(q))
    BY <1>1, <1>7, PopSlice
  <2>2. DequeIndInv' /\ ToSlice' = Front(ToSlice) /\ ToSlice # <<>>
    BY <1>2, <1>3, <2>1
  <2>3. ToSlice' = AsSequence!Front(ToSlice)
    BY <2>2 DEF Front, AsSequence!Front
  <2> QED
    BY <2>2, <2>3 DEF AsSequence!PopBack
<1>8. ASSUME NEW v \in Elements, NEW p \in 0..MaxCount, Set(p, v)
      PROVE  /\ DequeIndInv' /\ AsSequence!Set(p + 1, v)
             /\ p + 1 \in 1..(Len(ToSlice) + 1)
  <2>1. p \in Nat
    BY DequeAssumption
  <2>2. p + 1 \in DOMAIN q /\ Becomes([q EXCEPT ![p + 1] = v])
    BY <1>1, <1>8, <2>1, SetSlice
  <2>3. PICK i : i = p + 1
    OBVIOUS
  <2>4. DequeIndInv' /\ ToSlice' = [ToSlice EXCEPT ![i] = v] /\ i \in DOMAIN ToSlice
    BY <1>2, <1>3, <2>2, <2>3
  <2> QED
    BY <1>1, <1>2, <2>1, <2>3, <2>4 DEF AsSequence!Set, RingHolds
<1>9. ASSUME NEW v \in Elements, NEW p \in 0..MaxCount, Insert(p, v)
      PROVE  /\ DequeIndInv' /\ AsSequence!Insert(p + 1, v)
             /\ p + 1 \in 1..(Len(ToSlice) + 1)
  <2>1. p \in Nat
    BY DequeAssumption
  <2>2. p + 1 \in 1..(Len(q) + 1) /\ Becomes(InsertAt(q, p + 1, v))
    BY <1>1, <1>9, <2>1, InsertSlice
  <2>3. PICK i : i = p + 1
    OBVIOUS
  <2>4. DequeIndInv' /\ ToSlice' = InsertAt(ToSlice, i, v) /\ i \in 1..(Len(ToSlice) + 1)
    BY <1>2, <1>3, <2>2, <2>3
  <2>5. ToSlice' = AsSequence!InsertAt(ToSlice, i, v)
    BY <2>4 DEF InsertAt, AsSequence!InsertAt
  <2> QED
    BY <2>3, <2>4, <2>5 DEF AsSequence!Insert
<1>10. ASSUME UNCHANGED dequeVars PROVE DequeIndInv' /\ UNCHANGED ToSlice
  <2>1. buf' = buf /\ head' = head /\ count' = count
    BY <1>10 DEF dequeVars
  <2>2. Becomes(q)
    BY <1>1, <2>1 DEF Becomes
  <2> QED
    BY <1>2, <1>3, <2>2
<1>11. SameOperation
  BY <1>4, <1>5, <1>6, <1>7, <1>8, <1>9 DEF SameOperation
<1>12. DequeIndInv'
  BY <1>4, <1>5, <1>6, <1>7, <1>8, <1>9, <1>10 DEF DequeNext
<1>13. [AsSequence!Next]_ToSlice
  BY <1>4, <1>5, <1>6, <1>7, <1>8, <1>9, <1>10 DEF DequeNext, AsSequence!Next
<1> QED
  BY <1>11, <1>12, <1>13

(***************************************************************************)
(* The empty ring holds the empty sequence.                                *)
(***************************************************************************)
LEMMA DequeInitInv == DequeInit => DequeIndInv /\ AsSequence!Init
<1> SUFFICES ASSUME DequeInit PROVE DequeIndInv /\ AsSequence!Init
  OBVIOUS
<1>1. DOMAIN buf = {} /\ head = 0 /\ count = 0
  BY DEF DequeInit
<1>2. 0..(0 - 1) = {} /\ <<>> \in Seq(Elements) /\ Len(<<>>) = 0
  OBVIOUS
<1>3. RingHolds(buf, head, 0, <<>>) /\ count = Len(<<>>)
  BY <1>1, <1>2 DEF RingHolds
<1>4. ToSlice = <<>>
  BY <1>3, SlicesAre
<1> QED
  BY <1>3, <1>4 DEF DequeIndInv, AsSequence!Init

(***************************************************************************)
(* The invariant makes LRANGE exact.                                       *)
(***************************************************************************)
LEMMA CountOfInterval ==
  ASSUME NEW a \in Nat, NEW b \in Nat, a <= b
  PROVE  Cardinality(a..(b - 1)) = b - a
<1>1. a \in Int /\ b - 1 \in Int
  OBVIOUS
<1>2. Cardinality(a..(b - 1)) = IF a > b - 1 THEN 0 ELSE (b - 1) - a + 1
  BY <1>1, FS_Interval
<1> QED
  BY <1>2

(***************************************************************************)
(* LRANGE is exact for every pair of indices.                              *)
(***************************************************************************)
LEMMA RangesExact == DequeIndInv => RangeExact
<1> SUFFICES ASSUME DequeIndInv, NEW start \in -(count + 1)..(count + 1),
                    NEW stop \in -(count + 1)..(count + 1)
             PROVE  /\ Len(RangeOfList(start, stop)) = Cardinality(Between(start, stop))
                    /\ \A i \in Between(start, stop) :
                         RangeOfList(start, stop)[Cardinality({j \in Between(start, stop) : j < i}) + 1]
                           = ToSlice[i + 1]
  BY DEF RangeExact
<1>1. PICK c, q : RingHolds(buf, head, c, q) /\ count = Len(q)
  BY DEF DequeIndInv
<1>2. ToSlice = q /\ Capacity = c /\ c \in Nat /\ q \in Seq(Elements) /\ head \in Nat
  BY <1>1, SlicesAre DEF RingHolds
<1>3. PICK n \in Nat : n = Len(q) /\ n = count /\ n <= c
  BY <1>1, <1>2, LenProperties DEF RingHolds
<1>4. start \in Int /\ stop \in Int
  BY <1>3
<1>5. PICK from \in Nat : /\ from = normalizeRange(start, stop).from
                          /\ from = IF start < 0 THEN (IF n + start < 0 THEN 0 ELSE n + start) ELSE start
  BY <1>3, <1>4 DEF normalizeRange
<1>6. PICK to \in Int : /\ to = normalizeRange(start, stop).to
                        /\ to = IF stop < 0 THEN n + stop ELSE IF stop >= n THEN n - 1 ELSE stop
  BY <1>3, <1>4 DEF normalizeRange
<1>7. PICK wanted : wanted = Between(start, stop)
  OBVIOUS
<1>8. \A i : i \in wanted <=> i \in 0..(n - 1) /\ from <= i /\ i <= to
  <2>1. ASSUME NEW i \in 0..(n - 1)
        PROVE  /\ (IF start < 0 THEN start <= i - n ELSE start <= i) <=> from <= i
               /\ (IF stop < 0 THEN i - n <= stop ELSE i <= stop) <=> i <= to
    BY <1>3, <1>4, <1>5, <1>6
  <2>2. wanted = {i \in 0..(n - 1) : /\ IF start < 0 THEN start <= i - n ELSE start <= i
                                     /\ IF stop < 0 THEN i - n <= stop ELSE i <= stop}
    BY <1>3, <1>7 DEF Between
  <2> QED
    BY <2>1, <2>2
<1>9. PICK got : got = RangeOfList(start, stop)
  OBVIOUS
<1>10. CASE from > to \/ from >= n \/ to < 0
  <2>1. got = <<>>
    BY <1>3, <1>5, <1>6, <1>9, <1>10 DEF RangeOfList
  <2>2. wanted = {}
    BY <1>3, <1>5, <1>6, <1>8, <1>10
  <2>3. Len(got) = Cardinality(wanted)
    BY <2>1, <2>2, FS_EmptySet
  <2> QED
    BY <1>7, <1>9, <2>2, <2>3
<1>11. CASE ~(from > to \/ from >= n \/ to < 0)
  <2>1. from <= to /\ from < n /\ to >= 0 /\ to <= n - 1
    BY <1>3, <1>4, <1>5, <1>6, <1>11
  <2>2. PICK m \in Nat : m = to + 1
    BY <1>6, <2>1
  <2>3. wanted = from..(m - 1)
    <3>1. \A i : i \in 0..(n - 1) /\ from <= i /\ i <= to <=> i \in from..(m - 1)
      BY <1>3, <1>5, <1>6, <2>1, <2>2
    <3>2. \A i : i \in wanted <=> i \in from..(m - 1)
      BY <1>8, <3>1
    <3> QED
      BY <3>2
  <2>4. Cardinality(wanted) = m - from
    <3>1. from <= m
      BY <1>5, <1>6, <2>1, <2>2
    <3>2. Cardinality(from..(m - 1)) = m - from
      BY <3>1, CountOfInterval
    <3> QED
      BY <2>3, <3>2
  <2>5. got = [k \in 1..(m - from) |-> buf[(head + from + k - 1) % c]]
    <3>1. got = [k \in 1..(to - from + 1) |-> buf[(head + from + k - 1) % c]]
      BY <1>2, <1>3, <1>5, <1>6, <1>9, <1>11 DEF RangeOfList
    <3>2. to - from + 1 = m - from
      BY <2>2
    <3> QED
      BY <3>1, <3>2
  <2>6. Len(got) = m - from
    BY <2>1, <2>2, <2>5
  <2>7. ASSUME NEW i \in wanted
        PROVE  got[Cardinality({j \in wanted : j < i}) + 1] = q[i + 1]
    <3>1. i \in Nat /\ from <= i /\ i < m /\ m <= n
      BY <2>1, <2>2, <2>3
    <3>2. {j \in wanted : j < i} = from..(i - 1)
      BY <2>3, <3>1
    <3>3. Cardinality({j \in wanted : j < i}) = i - from
      BY <3>1, <3>2, CountOfInterval
    <3>4. PICK k \in 1..(m - from) : k = i - from + 1
      BY <3>1
    <3>5. head + from + k - 1 = head + i
      BY <1>2, <3>1, <3>4
    <3>6. got[k] = buf[(head + i) % c]
      BY <2>5, <3>5
    <3>7. i \in 0..(c - 1) /\ i < Len(q)
      BY <1>2, <1>3, <3>1
    <3>8. buf[(head + i) % c] = q[i + 1]
      BY <1>1, <3>7 DEF RingHolds
    <3> QED
      BY <3>3, <3>4, <3>6, <3>8
  <2> QED
    BY <1>2, <1>7, <1>9, <2>4, <2>6, <2>7
<1> QED
  BY <1>10, <1>11

(***************************************************************************)
(* It gives the types, and slots that are free are blank.                  *)
(***************************************************************************)
LEMMA RingTypes == DequeIndInv => DequeTypeOK /\ FreeSlotsBlank
<1> SUFFICES ASSUME DequeIndInv PROVE DequeTypeOK /\ FreeSlotsBlank
  OBVIOUS
<1>1. PICK c, q : RingHolds(buf, head, c, q) /\ count = Len(q)
  BY DEF DequeIndInv
<1>2. Capacity = c /\ c \in Nat /\ q \in Seq(Elements) /\ head \in Nat /\ DOMAIN buf = 0..(c - 1)
  BY <1>1, SlicesAre DEF RingHolds
<1>3. PICK n \in Nat : n = Len(q) /\ n = count /\ n <= c
  BY <1>1, <1>2, LenProperties DEF RingHolds
<1>4. ASSUME NEW s \in 0..(c - 1)
      PROVE  buf[s] = IF (s - head + c) % c < n THEN q[((s - head + c) % c) + 1] ELSE Blank
  <2>1. c > 0 /\ head < c
    BY <1>1, <1>2 DEF RingHolds
  <2>2. PICK h \in Nat : h = head /\ h < c
    BY <1>2, <2>1
  <2>3. PICK i \in 0..(c - 1) : i = (s - h + c) % c /\ (h + i) % c = s
    BY <1>2, <2>2, PositionExists
  <2>4. i = (s - head + c) % c /\ (head + i) % c = s
    BY <2>2, <2>3
  <2>5. buf[(head + i) % c] = IF i < n THEN q[i + 1] ELSE Blank
    BY <1>1, <1>3 DEF RingHolds
  <2>6. buf[s] = buf[(head + i) % c]
    BY <2>4
  <2>7. buf[s] = IF i < n THEN q[i + 1] ELSE Blank
    BY <2>5, <2>6
  <2> QED
    BY <2>4, <2>7
<1>5. FreeSlotsBlank
  <2> SUFFICES ASSUME NEW s \in 0..(c - 1), (s - head + c) % c >= n PROVE buf[s] = Blank
    BY <1>2, <1>3 DEF FreeSlotsBlank
  <2>1. PICK i : i = (s - head + c) % c
    OBVIOUS
  <2>2. i \in Nat
    <3>1. c > 0 /\ head < c
      BY <1>1, <1>2 DEF RingHolds
    <3>2. (s - head + c) % c \in 0..(c - 1)
      BY <1>2, <3>1, SlotFacts
    <3> QED
      BY <1>2, <2>1, <3>2
  <2>3. ~(i < n)
    BY <1>3, <2>1, <2>2
  <2> QED
    BY <1>4, <2>1, <2>3
<1>6. \A s \in 0..(c - 1) : buf[s] \in Elements \cup {Blank}
  <2> SUFFICES ASSUME NEW s \in 0..(c - 1), (s - head + c) % c < n
               PROVE  q[((s - head + c) % c) + 1] \in Elements
    BY <1>4
  <2>1. PICK i : i = (s - head + c) % c
    OBVIOUS
  <2>2. i \in Nat
    <3>1. c > 0 /\ head < c
      BY <1>1, <1>2 DEF RingHolds
    <3>2. (s - head + c) % c \in 0..(c - 1)
      BY <1>2, <3>1, SlotFacts
    <3> QED
      BY <1>2, <2>1, <3>2
  <2>3. i + 1 \in 1..n
    BY <1>3, <2>1, <2>2
  <2> QED
    BY <1>2, <1>3, <2>1, <2>3, ElementOfSeq
<1>7. Range(buf) \subseteq Elements \cup {Blank}
  BY <1>2, <1>6 DEF Range
<1>8. head \in 0..(IF c = 0 THEN 0 ELSE c - 1) /\ count \in 0..c
  BY <1>1, <1>2, <1>3 DEF RingHolds
<1>9. DequeTypeOK
  BY <1>2, <1>7, <1>8 DEF DequeTypeOK
<1> QED
  BY <1>5, <1>9

(***************************************************************************)
(* The ring buffer for any elements, initial capacity and number of        *)
(* elements: its slots hold what they should, cleared where they are free, *)
(* however it wraps, grows and shifts, and LRANGE returns exactly the      *)
(* elements between its two indices.                                       *)
(***************************************************************************)
THEOREM RingIsSound == DequeSpec => []DequeInv
<1>1. DequeIndInv /\ [DequeNext]_dequeVars => DequeIndInv'
  BY DequeStep
<1>2. DequeIndInv => DequeInv
  BY RangesExact, RingTypes DEF DequeInv
<1> QED
  BY <1>1, <1>2, DequeInitInv, PTL DEF DequeSpec

(***************************************************************************)
(* The operations of the ring buffer implement those of a sequence: every  *)
(* push, pop, write and insertion does to ToSlice what the same operation, *)
(* at the same end or position, would do to the sequence itself.           *)
(***************************************************************************)
THEOREM RingIsSequence == DequeSpec => DequeIsSequence
<1>1. DequeIndInv /\ [DequeNext]_dequeVars =>
        DequeIndInv' /\ [AsSequence!Next]_ToSlice /\ [SameOperation]_dequeVars
  BY DequeStep
<1> QED
  BY <1>1, DequeInitInv, PTL DEF DequeSpec, DequeIsSequence, AsSequence!Spec

-----------------------------------------------------------------------------
(***************************************************************************)
(* THE RATE LIMITER                                                        *)
(***************************************************************************)

(***************************************************************************)
(* Types; what was allowed since the last reset is in order; of that the   *)
(* limiter records the latest, and what it does not record has left the    *)
(* window; and a request comes a window after the one Limit before it.     *)
(***************************************************************************)
RateTypes ==
  /\ now \in 0..MaxTime
  /\ requests = <<>> \/ \E q : requests = <<q>>
  /\ Recorded \in Seq(Nat) /\ Len(Recorded) <= Limit
  /\ grants \in Seq(Nat)

GrantsInOrder ==
  /\ \A i \in 1..Len(grants) : grants[i] <= now
  /\ \A i, j \in 1..Len(grants) : i < j => grants[i] <= grants[j]

LatestRecorded ==
  /\ Len(Recorded) <= Len(grants)
  /\ \A i \in 1..Len(Recorded) : Recorded[i] = grants[Len(grants) - Len(Recorded) + i]
  /\ \A i \in 1..(Len(grants) - Len(Recorded)) : grants[i] <= now - Window

Spaced ==
  \A i \in 1..(Len(grants) - Limit) : grants[i] + Window <= grants[i + Limit]

RateIndInv == RateTypes /\ GrantsInOrder /\ LatestRecorded /\ Spaced

(***************************************************************************)
(* v is q without its first k elements, those that are not after c.        *)
(***************************************************************************)
CutAt(q, c, k, v) ==
  /\ v \in Seq(Nat) /\ Len(v) = Len(q) - k
  /\ \A j \in 1..(Len(q) - k) : v[j] = q[k + j]
  /\ \A i \in 1..k : q[i] <= c
  /\ \A i \in (k + 1)..Len(q) : q[i] > c

-----------------------------------------------------------------------------
(***************************************************************************)
(* In a sequence that rises the elements after c are a last part of it.    *)
(***************************************************************************)
LEMMA CutExists ==
  ASSUME NEW q \in Seq(Nat), NEW c \in Int,
         \A i, j \in 1..Len(q) : i < j => q[i] <= q[j]
  PROVE  \E k \in 0..Len(q) : /\ \A i \in 1..k : q[i] <= c
                              /\ \A i \in (k + 1)..Len(q) : q[i] > c
<1>1. PICK n \in Nat : n = Len(q)
  BY LenProperties
<1>2. \A i \in 1..n : q[i] \in Nat
  BY <1>1, ElementOfSeq
<1> DEFINE T == {k \in 0..n : \A i \in (k + 1)..n : q[i] > c}
<1>3. T \in SUBSET Nat /\ n \in T
  BY <1>1
<1>4. PICK k \in T : \A m \in T : k <= m
  BY <1>3, LeastNumber
<1>5. ASSUME NEW i \in 1..k PROVE q[i] <= c
  <2>1. k \in 1..n /\ k - 1 \in 0..n /\ ~(k <= k - 1)
    BY <1>4
  <2>2. k - 1 \notin T
    BY <1>4, <2>1
  <2>3. ~(q[k] > c)
    <3>1. PICK j \in ((k - 1) + 1)..n : ~(q[j] > c)
      BY <2>1, <2>2
    <3>2. j = k \/ j \in (k + 1)..n
      BY <2>1
    <3> QED
      BY <1>4, <3>1, <3>2
  <2>4. q[k] <= c
    BY <1>2, <2>1, <2>3
  <2>5. i \in 1..n /\ (i = k \/ i < k)
    BY <2>1
  <2>6. q[i] <= q[k]
    BY <1>1, <1>2, <2>1, <2>5
  <2> QED
    BY <1>2, <2>1, <2>4, <2>5, <2>6
<1> QED
  BY <1>1, <1>4, <1>5

(***************************************************************************)
(* The loop of RateLimit keeps the last part of the recorded requests.     *)
(***************************************************************************)
LEMMA ValidCuts ==
  ASSUME Recorded \in Seq(Nat), NEW t \in Int, Window \in Nat,
         \A i, j \in 1..Len(Recorded) : i < j => Recorded[i] <= Recorded[j]
  PROVE  \E k \in 0..Len(Recorded) : CutAt(Recorded, t - Window, k, ValidAt(t))
<1>0. PICK q \in Seq(Nat) : q = Recorded
  OBVIOUS
<1>1. PICK n \in Nat : n = Len(q) /\ DOMAIN q = 1..n
  BY LenProperties
<1>2. PICK c \in Int : c = t - Window
  OBVIOUS
<1>3. \A i, j \in 1..Len(q) : i < j => q[i] <= q[j]
  BY <1>0
<1>4. PICK k \in 0..n : /\ \A i \in 1..k : q[i] <= c
                        /\ \A i \in (k + 1)..n : q[i] > c
  <2>1. \E k \in 0..Len(q) : /\ \A i \in 1..k : q[i] <= c
                             /\ \A i \in (k + 1)..Len(q) : q[i] > c
    BY <1>3, CutExists
  <2> QED
    BY <1>1, <2>1
<1>5. \A i \in 1..n : q[i] \in Nat
  BY <1>1, ElementOfSeq
<1> DEFINE E(f, i) == IF i = 0 THEN <<>>
                      ELSE IF q[i] > c THEN Append(f[i - 1], q[i]) ELSE f[i - 1]
           G(g) == g = [i \in 0..n |-> E(g, i)]
           W(i) == IF i <= k THEN <<>> ELSE [j \in 1..(i - k) |-> q[k + j]]
<1>6. ASSUME NEW i \in 0..n
      PROVE  /\ W(i) \in Seq(Nat)
             /\ i >= k => Len(W(i)) = i - k
             /\ i > k => \A j \in 1..(i - k) : W(i)[j] = q[k + j]
  <2>0. i \in Nat /\ k \in Nat
    BY <1>4
  <2>1. CASE i <= k
    <3>1. W(i) = <<>>
      BY <2>1
    <3>2. ~(i > k) /\ (i >= k => i - k = 0)
      BY <2>0, <2>1
    <3> HIDE DEF W
    <3> QED
      BY <3>1, <3>2
  <2>2. CASE i > k
    <3>1. PICK m \in Nat : m = i - k
      BY <2>0, <2>2
    <3>2. \A j \in 1..m : q[k + j] \in Nat
      BY <1>4, <1>5, <3>1
    <3>3. PICK w : w = [j \in 1..m |-> q[k + j]]
      OBVIOUS
    <3>4. w \in Seq(Nat) /\ Len(w) = m
      BY <3>1, <3>2, <3>3
    <3>5. W(i) = w
      BY <2>0, <2>2, <3>1, <3>3
    <3> HIDE DEF W
    <3> QED
      BY <3>1, <3>3, <3>4, <3>5
  <2> HIDE DEF W
  <2> QED
    BY <2>0, <2>1, <2>2
<1> HIDE DEF W
<1>7. W(0) = <<>>
  BY <1>4 DEF W
<1>8. ASSUME NEW i \in 1..n
      PROVE  W(i) = IF q[i] > c THEN Append(W(i - 1), q[i]) ELSE W(i - 1)
  <2>1. i - 1 \in 0..n /\ i \in 0..n /\ i \in Nat
    BY <1>1
  <2>2. CASE i <= k
    <3>1. ~(q[i] > c) /\ i - 1 <= k
      BY <1>2, <1>4, <1>5, <2>2
    <3> QED
      BY <2>2, <3>1 DEF W
  <2>3. CASE i > k
    <3>1. q[i] > c
      BY <1>4, <2>3
    <3>2. PICK a \in Seq(Nat) : a = W(i - 1)
      BY <1>6, <2>1
    <3>3. PICK b \in Seq(Nat) : b = W(i)
      BY <1>6, <2>1
    <3>4. Len(a) = (i - 1) - k /\ Len(b) = i - k
      <4>1. i - 1 >= k /\ i >= k
        BY <1>4, <2>1, <2>3
      <4> QED
        BY <1>6, <2>1, <3>2, <3>3, <4>1
    <3>5. /\ Append(a, q[i]) \in Seq(Nat) /\ Len(Append(a, q[i])) = Len(a) + 1
          /\ \A j \in 1..Len(a) : Append(a, q[i])[j] = a[j]
          /\ Append(a, q[i])[Len(a) + 1] = q[i]
      BY <1>5, AppendProperties
    <3>6. ASSUME NEW j \in 1..Len(b) PROVE b[j] = Append(a, q[i])[j]
      <4>1. j \in 1..(i - k) /\ b[j] = q[k + j]
        BY <1>6, <2>1, <2>3, <3>3, <3>4
      <4>2. CASE j = i - k
        BY <1>4, <2>1, <3>4, <3>5, <4>1, <4>2
      <4>3. CASE j # i - k
        <5>1. j \in 1..((i - 1) - k) /\ i - 1 > k
          BY <1>4, <2>1, <4>1, <4>3
        <5>2. a[j] = q[k + j]
          BY <1>6, <2>1, <3>2, <5>1
        <5> QED
          BY <3>4, <3>5, <4>1, <5>1, <5>2
      <4> QED
        BY <4>2, <4>3
    <3>7. Len(b) = Len(Append(a, q[i]))
      BY <1>4, <2>1, <3>4, <3>5
    <3>8. b = Append(a, q[i])
      BY <3>5, <3>6, <3>7, SeqEqual
    <3> QED
      BY <3>1, <3>2, <3>3, <3>8
  <2> QED
    BY <1>4, <2>1, <2>2, <2>3
<1>9. \E g : G(g)
  <2>1. PICK g : g = [i \in 0..n |-> W(i)]
    OBVIOUS
  <2>2. ASSUME NEW i \in 0..n PROVE g[i] = E(g, i)
    <3>1. CASE i = 0
      BY <1>1, <1>7, <2>1, <3>1
    <3>2. CASE i # 0
      <4>1. i \in 1..n /\ i - 1 \in 0..n
        BY <1>1, <3>2
      <4>2. g[i] = W(i) /\ g[i - 1] = W(i - 1)
        <5> HIDE DEF W
        <5> QED
          BY <2>1, <4>1
      <4> QED
        BY <1>8, <3>2, <4>1, <4>2
    <3> QED
      BY <3>1, <3>2
  <2> QED
    BY <2>1, <2>2
<1>10. PICK g : G(g) /\ ValidAt(t) = g[n]
  <2>1. ValidAt(t) = (CHOOSE h : G(h))[n]
    BY <1>0, <1>1, <1>2 DEF ValidAt
  <2> HIDE DEF G
  <2>2. G(CHOOSE h : G(h))
    BY <1>9, Zenon
  <2> QED
    BY <2>1, <2>2, Zenon
<1> DEFINE S == {i \in 0..n : g[i] = W(i)}
<1>11. 0 \in S
  BY <1>1, <1>7, <1>10
<1>12. ASSUME NEW i \in 0..(n - 1), i \in S PROVE i + 1 \in S
  <2>1. i + 1 \in 1..n /\ i + 1 \in 0..n /\ (i + 1) - 1 = i /\ i + 1 # 0
    BY <1>1
  <2>2. g[i + 1] = E(g, i + 1)
    BY <1>10, <2>1
  <2> QED
    BY <1>8, <1>12, <2>1, <2>2
<1>13. n \in S
  <2> HIDE DEF S
  <2>1. \A i \in 0..n : i \in S
    BY <1>11, <1>12, CountUp
  <2> QED
    BY <2>1
<1>14. CutAt(q, c, k, W(n))
  <2>1. n \in 0..n
    BY <1>1
  <2>2. W(n) \in Seq(Nat) /\ Len(W(n)) = n - k
    <3>1. n >= k
      BY <1>4
    <3> QED
      BY <1>6, <2>1, <3>1
  <2>3. \A j \in 1..(n - k) : W(n)[j] = q[k + j]
    BY <1>4, <1>6, <2>1
  <2> QED
    BY <1>1, <1>4, <2>2, <2>3 DEF CutAt
<1> QED
  BY <1>0, <1>1, <1>2, <1>10, <1>13, <1>14

(***************************************************************************)
(* The elements of q are the last ones of g, and those before them are not *)
(* after c.                                                                *)
(***************************************************************************)
LatestOf(g, q, c) ==
  /\ Len(q) <= Len(g)
  /\ \A i \in 1..Len(q) : q[i] = g[Len(g) - Len(q) + i]
  /\ \A i \in 1..(Len(g) - Len(q)) : g[i] <= c

(***************************************************************************)
(* That stays so when what is not after c is dropped.                      *)
(***************************************************************************)
LEMMA LatestAfterCut ==
  ASSUME NEW g \in Seq(Nat), NEW q \in Seq(Nat), NEW c \in Int, NEW k \in 0..Len(q), NEW v,
         LatestOf(g, q, c), CutAt(q, c, k, v)
  PROVE  LatestOf(g, v, c)
<1>1. PICK n \in Nat : n = Len(g)
  BY LenProperties
<1>2. PICK r \in Nat : r = Len(q)
  BY LenProperties
<1>3. Len(v) = r - k /\ k \in 0..r /\ r <= n
  BY <1>1, <1>2 DEF CutAt, LatestOf
<1>4. ASSUME NEW i \in 1..(r - k) PROVE v[i] = g[n - (r - k) + i]
  <2>1. v[i] = q[k + i] /\ k + i \in 1..r
    BY <1>2, <1>3 DEF CutAt
  <2>2. q[k + i] = g[n - r + (k + i)]
    BY <1>1, <1>2, <2>1 DEF LatestOf
  <2>3. n - r + (k + i) = n - (r - k) + i
    BY <1>3
  <2> QED
    BY <2>1, <2>2, <2>3
<1>5. ASSUME NEW i \in 1..(n - (r - k)) PROVE g[i] <= c
  <2>1. CASE i <= n - r
    BY <1>1, <1>2, <1>3, <2>1 DEF LatestOf
  <2>2. CASE ~(i <= n - r)
    <3>1. PICK j \in 1..k : j = i - (n - r)
      BY <1>3, <2>2
    <3>2. q[j] <= c
      BY DEF CutAt
    <3>3. j \in 1..r /\ n - r + j = i
      BY <1>3, <3>1
    <3>4. q[j] = g[n - r + j]
      BY <1>1, <1>2, <3>3 DEF LatestOf
    <3> QED
      BY <3>2, <3>3, <3>4
  <2> QED
    BY <2>1, <2>2
<1> QED
  BY <1>1, <1>3, <1>4, <1>5 DEF LatestOf

(***************************************************************************)
(* The recorded requests are in order, and not in the future.              *)
(***************************************************************************)
LEMMA RecordedInOrder ==
  ASSUME RateIndInv
  PROVE  /\ \A i \in 1..Len(Recorded) : Recorded[i] \in Nat /\ Recorded[i] <= now
         /\ \A i, j \in 1..Len(Recorded) : i < j => Recorded[i] <= Recorded[j]
<1>1. PICK n \in Nat : n = Len(grants)
  BY LenProperties DEF RateIndInv, RateTypes
<1>2. PICK r \in Nat : r = Len(Recorded)
  BY LenProperties DEF RateIndInv, RateTypes
<1>3. r <= n /\ \A i \in 1..r : Recorded[i] = grants[n - r + i]
  BY <1>1, <1>2 DEF RateIndInv, LatestRecorded
<1>4. \A i \in 1..r : n - r + i \in 1..n
  BY <1>3
<1>5. \A i, j \in 1..r : i < j => n - r + i < n - r + j
  BY <1>3
<1>6. \A i \in 1..r : Recorded[i] \in Nat
  BY <1>2, ElementOfSeq DEF RateIndInv, RateTypes
<1>7. /\ \A i \in 1..n : grants[i] <= now
      /\ \A i, j \in 1..n : i < j => grants[i] <= grants[j]
  BY <1>1 DEF RateIndInv, GrantsInOrder
<1>8. \A i \in 1..r : Recorded[i] <= now
  BY <1>3, <1>4, <1>7
<1>9. ASSUME NEW i \in 1..r, NEW j \in 1..r, i < j PROVE Recorded[i] <= Recorded[j]
  <2>1. grants[n - r + i] <= grants[n - r + j]
    BY <1>4, <1>5, <1>7, <1>9
  <2> QED
    BY <1>3, <2>1
<1> QED
  BY <1>2, <1>6, <1>8, <1>9

(***************************************************************************)
(* What is inside the window at time t.                                    *)
(***************************************************************************)
LEMMA ValidFacts ==
  ASSUME RateIndInv, NEW t \in Int
  PROVE  \E k \in 0..Len(Recorded) : CutAt(Recorded, t - Window, k, ValidAt(t))
<1>1. Window \in Nat
  BY RateLimiterAssumption
<1>2. \A i, j \in 1..Len(Recorded) : i < j => Recorded[i] <= Recorded[j]
  BY RecordedInOrder
<1>3. Recorded \in Seq(Nat)
  BY DEF RateIndInv, RateTypes
<1> QED
  BY <1>1, <1>2, <1>3, ValidCuts

(***************************************************************************)
(* The requests of the window that ends now.                               *)
(***************************************************************************)
LEMMA ValidNow ==
  ASSUME RateIndInv
  PROVE  /\ ValidAt(now) \in Seq(Nat) /\ Len(ValidAt(now)) <= Len(Recorded)
         /\ LatestOf(grants, ValidAt(now), now - Window)
<1>1. now \in Int /\ now - Window \in Int
  BY RateLimiterAssumption DEF RateIndInv, RateTypes
<1>2. PICK k \in 0..Len(Recorded) : CutAt(Recorded, now - Window, k, ValidAt(now))
  BY <1>1, ValidFacts
<1>3. Recorded \in Seq(Nat) /\ grants \in Seq(Nat)
  BY DEF RateIndInv, RateTypes
<1>4. LatestOf(grants, Recorded, now - Window)
  BY DEF RateIndInv, LatestRecorded, LatestOf
<1>5. LatestOf(grants, ValidAt(now), now - Window)
  BY <1>1, <1>2, <1>3, <1>4, LatestAfterCut
<1>6. Len(Recorded) \in Nat
  BY <1>3, LenProperties
<1> QED
  BY <1>2, <1>5, <1>6 DEF CutAt

-----------------------------------------------------------------------------
(***************************************************************************)
(* The head of a short sequence.                                           *)
(***************************************************************************)
LEMMA RecordedOf ==
  /\ requests = <<>> => Recorded = <<>>
  /\ \A q : requests = <<q>> => Recorded = q
  /\ requests' = <<>> => Recorded' = <<>>
  /\ \A q : requests' = <<q>> => Recorded' = q
BY DEF Recorded

(***************************************************************************)
(* Nothing is recorded and nothing was allowed at the start.               *)
(***************************************************************************)
LEMMA RateInitInv == RateInit => RateIndInv
<1> SUFFICES ASSUME RateInit PROVE RateIndInv
  OBVIOUS
<1>1. now = 0 /\ Recorded = <<>> /\ grants = <<>> /\ requests = <<>>
  BY RecordedOf DEF RateInit
<1>2. Len(<<>>) = 0 /\ <<>> \in Seq(Nat) /\ Limit \in Nat \ {0} /\ MaxTime \in Nat
  BY RateLimiterAssumption
<1> QED
  BY <1>1, <1>2 DEF RateIndInv, RateTypes, GrantsInOrder, LatestRecorded, Spaced

(***************************************************************************)
(* A request that is allowed comes a window after the one Limit before it. *)
(***************************************************************************)
LEMMA AllowKeeps == ASSUME RateIndInv, Allow PROVE RateIndInv'
<1>1. PICK v \in Seq(Nat) : v = ValidAt(now)
  BY ValidNow
<1>2. LatestOf(grants, v, now - Window) /\ Len(v) < Limit
  BY <1>1, ValidNow DEF Allow
<1>3. PICK n \in Nat : n = Len(grants)
  BY LenProperties DEF RateIndInv, RateTypes
<1>4. PICK m \in Nat : m = Len(v)
  BY LenProperties
<1>5. now \in Nat /\ now' = now /\ Window \in Nat /\ Limit \in Nat \ {0} /\ m < Limit
  BY <1>2, <1>4, RateLimiterAssumption DEF Allow, RateIndInv, RateTypes
<1>6. PICK q : q = Append(v, now)
  OBVIOUS
<1>7. PICK g : g = Append(grants, now)
  OBVIOUS
<1>8. /\ q \in Seq(Nat) /\ Len(q) = m + 1 /\ q[m + 1] = now
      /\ \A i \in 1..m : q[i] = v[i]
  BY <1>4, <1>5, <1>6, AppendProperties
<1>9. /\ g \in Seq(Nat) /\ Len(g) = n + 1 /\ g[n + 1] = now
      /\ \A i \in 1..n : g[i] = grants[i]
  BY <1>3, <1>5, <1>7, AppendProperties DEF RateIndInv, RateTypes
<1>10. requests' = <<q>> /\ Recorded' = q /\ grants' = g
  BY <1>1, <1>6, <1>7, RecordedOf DEF Allow
<1>11. /\ m <= n /\ \A i \in 1..m : v[i] = grants[n - m + i]
       /\ \A i \in 1..(n - m) : grants[i] <= now - Window
  BY <1>2, <1>3, <1>4 DEF LatestOf
<1>12. RateTypes'
  BY <1>5, <1>8, <1>9, <1>10 DEF RateIndInv, RateTypes
<1>13. \A i \in 1..n : grants[i] \in Nat
  BY <1>3, ElementOfSeq DEF RateIndInv, RateTypes
<1>14. GrantsInOrder'
  <2>1. /\ \A i \in 1..n : grants[i] <= now
        /\ \A i, j \in 1..n : i < j => grants[i] <= grants[j]
    BY <1>3 DEF RateIndInv, GrantsInOrder
  <2>2. \A i \in 1..(n + 1) : i \in 1..n \/ i = n + 1
    OBVIOUS
  <2>3. \A i \in 1..(n + 1) : g[i] <= now
    BY <1>5, <1>9, <2>1, <2>2
  <2>4. ASSUME NEW i \in 1..(n + 1), NEW j \in 1..(n + 1), i < j PROVE g[i] <= g[j]
    <3>1. CASE j = n + 1
      BY <1>9, <2>3, <3>1
    <3>2. CASE j \in 1..n
      BY <1>9, <2>1, <2>4, <3>2
    <3> QED
      BY <2>2, <3>1, <3>2
  <2> QED
    BY <1>5, <1>9, <1>10, <2>3, <2>4 DEF GrantsInOrder
<1>15. LatestRecorded'
  <2>1. ASSUME NEW i \in 1..(m + 1) PROVE q[i] = g[(n + 1) - (m + 1) + i]
    <3>1. CASE i = m + 1
      <4>1. (n + 1) - (m + 1) + i = n + 1
        BY <3>1
      <4> QED
        BY <1>8, <1>9, <3>1, <4>1
    <3>2. CASE i \in 1..m
      <4>1. (n + 1) - (m + 1) + i = n - m + i /\ n - m + i \in 1..n
        BY <1>11, <3>2
      <4> QED
        BY <1>8, <1>9, <1>11, <3>2, <4>1
    <3> QED
      BY <3>1, <3>2
  <2>2. ASSUME NEW i \in 1..((n + 1) - (m + 1)) PROVE g[i] <= now - Window
    <3>1. i \in 1..(n - m) /\ i \in 1..n
      BY <1>11
    <3> QED
      BY <1>9, <1>11, <3>1
  <2>3. m + 1 <= n + 1
    BY <1>11
  <2> QED
    BY <1>5, <1>8, <1>9, <1>10, <2>1, <2>2, <2>3 DEF LatestRecorded
<1>16. Spaced'
  <2>1. ASSUME NEW i \in 1..((n + 1) - Limit) PROVE g[i] + Window <= g[i + Limit]
    <3>1. CASE i + Limit = n + 1
      <4>1. i \in 1..(n - m) /\ i \in 1..n
        BY <1>5, <1>11, <3>1
      <4>2. g[i] = grants[i] /\ grants[i] <= now - Window /\ grants[i] \in Nat
        BY <1>9, <1>11, <1>13, <4>1
      <4>3. g[i + Limit] = now
        BY <1>9, <3>1
      <4>4. grants[i] + Window <= now
        BY <1>5, <4>2
      <4> QED
        BY <4>2, <4>3, <4>4
    <3>2. CASE i + Limit # n + 1
      <4>1. i \in 1..(n - Limit) /\ i \in 1..n /\ i + Limit \in 1..n
        BY <1>5, <3>2
      <4>2. grants[i] + Window <= grants[i + Limit]
        BY <1>3, <4>1 DEF RateIndInv, Spaced
      <4> QED
        BY <1>9, <4>1, <4>2
    <3> QED
      BY <3>1, <3>2
  <2> QED
    BY <1>9, <1>10, <2>1 DEF Spaced
<1> QED
  BY <1>12, <1>14, <1>15, <1>16 DEF RateIndInv

(***************************************************************************)
(* A refusal drops what has left the window.                               *)
(***************************************************************************)
LEMMA DenyKeeps == ASSUME RateIndInv, Deny PROVE RateIndInv'
<1>1. PICK v \in Seq(Nat) : v = ValidAt(now)
  BY ValidNow
<1>2. LatestOf(grants, v, now - Window) /\ Len(v) <= Len(Recorded)
  BY <1>1, ValidNow
<1>3. requests' = <<v>> /\ Recorded' = v /\ grants' = grants /\ now' = now
  BY <1>1, RecordedOf DEF Deny
<1>4. Len(v) \in Nat /\ Len(Recorded) \in Nat /\ Limit \in Nat /\ Len(Recorded) <= Limit
  BY LenProperties, RateLimiterAssumption DEF RateIndInv, RateTypes
<1>5. Len(v) <= Limit
  BY <1>2, <1>4
<1>6. RateTypes'
  BY <1>3, <1>5 DEF RateIndInv, RateTypes
<1>7. LatestRecorded'
  BY <1>2, <1>3 DEF LatestOf, LatestRecorded
<1>8. GrantsInOrder' /\ Spaced'
  BY <1>3 DEF RateIndInv, GrantsInOrder, Spaced
<1> QED
  BY <1>6, <1>7, <1>8 DEF RateIndInv

(***************************************************************************)
(* A limiter nobody has used for twice its window has nothing to forget.   *)
(***************************************************************************)
LEMMA CleanupKeeps == ASSUME RateIndInv, Cleanup PROVE RateIndInv'
<1>1. Recorded' = <<>> /\ requests' = <<>> /\ grants' = grants /\ now' = now
  BY RecordedOf DEF Cleanup
<1>2. PICK n \in Nat : n = Len(grants)
  BY LenProperties DEF RateIndInv, RateTypes
<1>3. PICK r \in Nat : r = Len(Recorded)
  BY LenProperties DEF RateIndInv, RateTypes
<1>4. now \in Nat /\ Window \in Nat \ {0} /\ Limit \in Nat
  BY RateLimiterAssumption DEF RateIndInv, RateTypes
<1>5. ASSUME NEW i \in 1..n PROVE grants[i] <= now - Window
  <2>1. /\ r <= n /\ \A j \in 1..r : Recorded[j] = grants[n - r + j]
        /\ \A j \in 1..(n - r) : grants[j] <= now - Window
    BY <1>2, <1>3 DEF RateIndInv, LatestRecorded
  <2>2. CASE i \in 1..(n - r)
    BY <2>1, <2>2
  <2>3. CASE i \notin 1..(n - r)
    <3>1. r # 0 /\ Recorded # <<>>
      BY <1>3, <2>1, <2>3
    <3>2. now - Recorded[r] > Window * 2
      BY <1>3, <3>1 DEF Cleanup, Last
    <3>3. r \in 1..r /\ n - r + r = n /\ n \in 1..n
      BY <2>1, <3>1
    <3>4. Recorded[r] = grants[n]
      BY <2>1, <3>3
    <3>5. grants[i] \in Nat /\ grants[n] \in Nat
      BY <1>2, <3>3, ElementOfSeq DEF RateIndInv, RateTypes
    <3>6. grants[i] <= grants[n]
      <4>1. i = n \/ i < n
        OBVIOUS
      <4> QED
        BY <1>2, <3>3, <3>5, <4>1 DEF RateIndInv, GrantsInOrder
    <3> QED
      BY <1>4, <3>2, <3>4, <3>5, <3>6
  <2> QED
    BY <2>2, <2>3
<1>6. Len(<<>>) = 0 /\ <<>> \in Seq(Nat)
  OBVIOUS
<1>7. RateTypes'
  BY <1>1, <1>4, <1>6 DEF RateIndInv, RateTypes
<1>8. LatestRecorded'
  BY <1>1, <1>2, <1>5, <1>6 DEF LatestRecorded
<1>9. GrantsInOrder' /\ Spaced'
  BY <1>1 DEF RateIndInv, GrantsInOrder, Spaced
<1> QED
  BY <1>7, <1>8, <1>9 DEF RateIndInv

(***************************************************************************)
(* Every step keeps the invariant.                                         *)
(***************************************************************************)
LEMMA RateNextInv == RateIndInv /\ [RateNext]_rateVars => RateIndInv'
<1> SUFFICES ASSUME RateIndInv, [RateNext]_rateVars PROVE RateIndInv'
  OBVIOUS
<1>1. Len(<<>>) = 0 /\ <<>> \in Seq(Nat) /\ Limit \in Nat \ {0}
  BY RateLimiterAssumption
<1>2. CASE RateLimitReset
  <2>1. Recorded' = <<>> /\ requests' = <<>> /\ grants' = <<>> /\ now' = now
    BY <1>2, RecordedOf DEF RateLimitReset
  <2> QED
    BY <1>1, <2>1 DEF RateIndInv, RateTypes, GrantsInOrder, LatestRecorded, Spaced
<1>3. CASE Advance
  <2>1. requests' = requests /\ grants' = grants /\ now' = now + 1 /\ now < MaxTime
    BY <1>3 DEF Advance
  <2>2. Recorded' = Recorded
    BY <2>1 DEF Recorded
  <2>3. now \in Nat /\ MaxTime \in Nat /\ Window \in Nat /\ now' \in 0..MaxTime
    BY <2>1, RateLimiterAssumption DEF RateIndInv, RateTypes
  <2>4. RateTypes'
    BY <2>1, <2>2, <2>3 DEF RateIndInv, RateTypes
  <2>5. PICK n \in Nat : n = Len(grants)
    BY LenProperties DEF RateIndInv, RateTypes
  <2>6. \A i \in 1..n : grants[i] \in Nat
    BY <2>5, ElementOfSeq DEF RateIndInv, RateTypes
  <2>7. GrantsInOrder'
    BY <2>1, <2>3, <2>5, <2>6 DEF RateIndInv, GrantsInOrder
  <2>8. Spaced'
    BY <2>1 DEF RateIndInv, Spaced
  <2>9. PICK r \in Nat : r = Len(Recorded)
    BY LenProperties DEF RateIndInv, RateTypes
  <2>10. r <= n /\ \A i \in 1..(n - r) : grants[i] <= now - Window /\ i \in 1..n
    BY <2>5, <2>9 DEF RateIndInv, LatestRecorded
  <2>11. \A i \in 1..(n - r) : grants[i] <= (now + 1) - Window
    BY <2>3, <2>6, <2>10
  <2>12. LatestRecorded'
    BY <2>1, <2>2, <2>5, <2>9, <2>11 DEF RateIndInv, LatestRecorded
  <2> QED
    BY <2>4, <2>7, <2>8, <2>12 DEF RateIndInv
<1>4. CASE UNCHANGED rateVars
  BY <1>4 DEF rateVars, RateIndInv, RateTypes, GrantsInOrder, LatestRecorded, Spaced, Recorded
<1> QED
  BY <1>2, <1>3, <1>4, AllowKeeps, DenyKeeps, CleanupKeeps DEF RateNext

-----------------------------------------------------------------------------
(***************************************************************************)
(* Requests a window apart from the one Limit before them are few in every *)
(* window.                                                                 *)
(***************************************************************************)
LEMMA SpacedIsRespected == RateIndInv => WindowRespected
<1> SUFFICES ASSUME RateIndInv, NEW t \in 0..MaxTime
             PROVE  Cardinality({i \in DOMAIN grants : t <= grants[i] /\ grants[i] < t + Window}) <= Limit
  BY DEF WindowRespected
<1>1. PICK n \in Nat : n = Len(grants) /\ DOMAIN grants = 1..n
  BY LenProperties DEF RateIndInv, RateTypes
<1>2. \A i \in 1..n : grants[i] \in Nat
  BY <1>1, ElementOfSeq DEF RateIndInv, RateTypes
<1>3. Limit \in Nat \ {0} /\ Window \in Nat /\ t \in Nat
  BY RateLimiterAssumption
<1>4. PICK I : /\ I = {i \in DOMAIN grants : t <= grants[i] /\ grants[i] < t + Window}
               /\ I = {i \in 1..n : t <= grants[i] /\ grants[i] < t + Window}
  BY <1>1
<1>5. CASE I = {}
  <2>1. Cardinality({}) = 0
    BY FS_EmptySet
  <2>2. Cardinality(I) = 0
    BY <1>5, <2>1
  <2> QED
    BY <1>3, <1>4, <2>2
<1>6. CASE I # {}
  <2>1. I \in SUBSET Nat
    BY <1>4
  <2>2. PICK m \in I : \A i \in I : m <= i
    BY <1>6, <2>1, LeastNumber
  <2>3. ASSUME NEW i \in I PROVE i \in m..(m + Limit - 1)
    <3>1. i \in 1..n /\ m \in 1..n /\ m <= i
      BY <1>4, <2>2
    <3> SUFFICES ASSUME i >= m + Limit PROVE FALSE
      BY <1>3, <3>1
    <3>2. m \in 1..(n - Limit) /\ m + Limit \in 1..n
      BY <1>3, <3>1
    <3>3. grants[m] + Window <= grants[m + Limit]
      BY <1>1, <3>2 DEF RateIndInv, Spaced
    <3>4. grants[m + Limit] <= grants[i]
      <4>1. i = m + Limit \/ m + Limit < i
        BY <1>3, <3>1
      <4> QED
        BY <1>1, <1>2, <3>1, <3>2, <4>1 DEF RateIndInv, GrantsInOrder
    <3>5. t <= grants[m] /\ grants[i] < t + Window
      BY <1>4
    <3> QED
      BY <1>2, <1>3, <3>1, <3>2, <3>3, <3>4, <3>5
  <2>4. m \in Int /\ m + Limit - 1 \in Int
    BY <1>3, <1>4
  <2>5. IsFiniteSet(m..(m + Limit - 1))
    BY <2>4, FS_Interval
  <2>6. Cardinality(m..(m + Limit - 1)) = IF m > m + Limit - 1 THEN 0 ELSE (m + Limit - 1) - m + 1
    BY <2>4, FS_Interval
  <2>7. Cardinality(m..(m + Limit - 1)) = Limit
    BY <1>3, <2>4, <2>6
  <2>8. I \in SUBSET (m..(m + Limit - 1))
    BY <2>3
  <2>9. Cardinality(I) <= Cardinality(m..(m + Limit - 1))
    BY <2>5, <2>8, FS_Subset
  <2> QED
    BY <1>1, <1>4, <2>7, <2>9
<1> QED
  BY <1>5, <1>6

(***************************************************************************)
(* What a division cuts off is less than the divisor.                      *)
(***************************************************************************)
LEMMA DivisionCuts ==
  ASSUME NEW x \in Nat, NEW d \in Nat \ {0}
  PROVE  x \div d \in Nat /\ (x \div d) * d <= x /\ x < (x \div d) * d + d
OBVIOUS

(***************************************************************************)
(* The wait a refused caller is told of ends within a millisecond before   *)
(* the oldest recorded request leaves the window.                          *)
(***************************************************************************)
LEMMA AnswersAreHonest == RateIndInv => RetryHonest
<1> SUFFICES ASSUME RateIndInv, Len(ValidAt(now)) >= Limit
             PROVE  LET told == now + retryAfterMs * TicksPerMs IN
                    /\ \A t \in now..(told - 1) : Len(ValidAt(t)) >= Limit
                    /\ Len(ValidAt(told + TicksPerMs)) < Limit
  BY DEF RetryHonest
<1>1. now \in Nat /\ Limit \in Nat \ {0} /\ Window \in Nat /\ TicksPerMs \in Nat \ {0}
  BY RateLimiterAssumption DEF RateIndInv, RateTypes
<1>2. PICK r \in Nat : r = Len(Recorded)
  BY LenProperties DEF RateIndInv, RateTypes
<1>3. r <= Limit /\ \A i \in 1..r : Recorded[i] \in Nat /\ Recorded[i] <= now
  BY <1>2, RecordedInOrder DEF RateIndInv, RateTypes
<1>4. now \in Int
  BY <1>1
<1>5. PICK k \in 0..Len(Recorded) : CutAt(Recorded, now - Window, k, ValidAt(now))
  BY <1>4, ValidFacts
<1>6. PICK v \in Seq(Nat) : v = ValidAt(now)
  BY <1>5 DEF CutAt
<1>7. Len(v) = r - k /\ k \in 0..r
  BY <1>2, <1>5, <1>6 DEF CutAt
<1>8. k = 0 /\ r = Limit
  BY <1>1, <1>3, <1>6, <1>7
<1>9. PICK h \in Nat : h = Recorded[1]
  BY <1>1, <1>3, <1>8
<1>10. Head(ValidAt(now)) = h
  <2>1. 1 \in 1..(r - k) /\ k + 1 = 1
    BY <1>1, <1>8
  <2>2. v[1] = Recorded[k + 1]
    BY <1>2, <1>5, <1>6, <2>1 DEF CutAt
  <2>3. v # <<>>
    BY <1>1, <1>7, <1>8
  <2>4. Head(v) = v[1]
    BY <2>3
  <2> QED
    BY <1>6, <1>9, <2>1, <2>2, <2>4
<1>11. h > now - Window
  <2>1. 1 \in (k + 1)..r
    BY <1>1, <1>8
  <2> QED
    BY <1>2, <1>5, <1>9, <2>1 DEF CutAt
<1>12. PICK x \in Nat : x = h + Window - now
  BY <1>1, <1>11
<1>13. PICK y \in Nat : y = retryAfterMs * TicksPerMs /\ y <= x /\ x < y + TicksPerMs
  <2>1. x \div TicksPerMs \in Nat /\ (x \div TicksPerMs) * TicksPerMs <= x
        /\ x < (x \div TicksPerMs) * TicksPerMs + TicksPerMs
    BY <1>1, DivisionCuts
  <2>2. retryAfterMs = x \div TicksPerMs
    BY <1>10, <1>12 DEF retryAfterMs
  <2>3. (x \div TicksPerMs) * TicksPerMs \in Nat
    BY <1>1, <2>1
  <2> QED
    BY <2>1, <2>2, <2>3
<1>14. ASSUME NEW t \in now..((now + y) - 1) PROVE Len(ValidAt(t)) >= Limit
  <2>1. t \in Int /\ t - Window < h
    BY <1>1, <1>12, <1>13
  <2>2. PICK i \in 0..Len(Recorded) : CutAt(Recorded, t - Window, i, ValidAt(t))
    BY <2>1, ValidFacts
  <2>3. i = 0
    <3> SUFFICES ASSUME i # 0 PROVE FALSE
      OBVIOUS
    <3>1. 1 \in 1..i
      BY <1>2
    <3>2. Recorded[1] <= t - Window
      BY <2>2, <3>1 DEF CutAt
    <3> QED
      BY <1>1, <1>9, <2>1, <3>2
  <2>4. Len(ValidAt(t)) = r - i
    BY <1>2, <2>2 DEF CutAt
  <2> QED
    BY <1>1, <1>8, <2>3, <2>4
<1>15. Len(ValidAt((now + y) + TicksPerMs)) < Limit
  <2>1. PICK t \in Int : t = (now + y) + TicksPerMs
    BY <1>1
  <2>2. h <= t - Window
    <3>1. x < y + TicksPerMs /\ x = h + Window - now
      BY <1>12, <1>13
    <3>2. t - Window = now + y + TicksPerMs - Window
      BY <1>1, <2>1
    <3> QED
      BY <1>1, <3>1, <3>2
  <2>3. PICK i \in 0..Len(Recorded) : CutAt(Recorded, t - Window, i, ValidAt(t))
    BY ValidFacts
  <2>4. i # 0
    <3> SUFFICES ASSUME i = 0 PROVE FALSE
      OBVIOUS
    <3>1. 1 \in (i + 1)..Len(Recorded)
      BY <1>1, <1>2, <1>8
    <3>2. Recorded[1] > t - Window
      BY <2>3, <3>1 DEF CutAt
    <3> QED
      BY <1>1, <1>9, <2>1, <2>2, <3>2
  <2>5. Len(ValidAt(t)) = r - i /\ i \in 0..r
    BY <1>2, <2>3 DEF CutAt
  <2>6. Len(ValidAt(t)) < Limit
    BY <1>1, <1>8, <2>4, <2>5
  <2> QED
    BY <2>1, <2>6
<1> QED
  BY <1>13, <1>14, <1>15

(***************************************************************************)
(* RATELIMIT with any limit, window and clock: the recorded requests are   *)
(* in order and at most as many as the limit, no window contains more      *)
(* allowed requests than that, though the cleanup forgets whole limiters,  *)
(* and the wait told to a refused caller is right to the millisecond.      *)
(***************************************************************************)
THEOREM RateIsLimited == RateSpec => []RateInv
<1>1. RateIndInv => RateTypeOK
  <2> SUFFICES ASSUME RateIndInv PROVE RateTypeOK
    OBVIOUS
  <2>1. PICK r \in Nat : r = Len(Recorded) /\ DOMAIN Recorded = 1..r
    BY LenProperties DEF RateIndInv, RateTypes
  <2>2. /\ \A i \in 1..r : Recorded[i] \in Nat /\ Recorded[i] <= now
        /\ \A i, j \in 1..r : i < j => Recorded[i] <= Recorded[j]
    BY <2>1, RecordedInOrder
  <2>3. now \in Nat /\ now \in 0..MaxTime /\ Len(Recorded) <= Limit
    BY RateLimiterAssumption DEF RateIndInv, RateTypes
  <2>4. \A i \in 1..r : Recorded[i] \in 0..now
    BY <2>2, <2>3
  <2> QED
    BY <2>1, <2>2, <2>3, <2>4 DEF RateTypeOK
<1>2. RateIndInv => RateInv
  BY <1>1, SpacedIsRespected, AnswersAreHonest DEF RateInv
<1> QED
  BY <1>2, RateInitInv, RateNextInv, PTL DEF RateSpec

-----------------------------------------------------------------------------
(***************************************************************************)
(* EVICTION                                                                *)
(***************************************************************************)

(***************************************************************************)
(* The inductive invariant of Eviction: outside of its loop nothing is     *)
(* evicted; once a key was, the estimate is unknown and will be renewed.   *)
(***************************************************************************)
EvictionTypes ==
  /\ size \in [EvictKeys -> Sizes \cup {0}] /\ volatile \subseteq Present
  /\ accessTime \in Seq(EvictKeys) /\ IsInjective(accessTime)
  /\ memEstimate \in Nat /\ ops \in 0..(RefreshEvery - 1)
  /\ maxMemory \in Limits /\ policy \in Policies /\ checked \in BOOLEAN /\ evicting \in BOOLEAN
  /\ reading = <<>> \/ \E k \in EvictKeys : reading = <<k>>

LoopHistory ==
  /\ evicted \in BOOLEAN /\ wasted \in {0, 1}
  /\ ~evicting => ~evicted /\ wasted = 0
  /\ ~evicted => wasted = 0
  /\ evicted => memEstimate = 0

EvictionIndInv == EvictionTypes /\ LoopHistory

-----------------------------------------------------------------------------
(***************************************************************************)
(* The memory of finitely many keys is a number.                           *)
(***************************************************************************)
LEMMA MemoryIsNumber ==
  ASSUME size \in [EvictKeys -> Sizes \cup {0}]
  PROVE  Memory \in Nat
<1> DEFINE Units(k) == {k} \X (1..size[k])
           All == {Units(k) : k \in EvictKeys}
<1>1. ASSUME NEW k \in EvictKeys PROVE IsFiniteSet(Units(k))
  <2>1. size[k] \in Sizes \cup {0} /\ Sizes \subseteq Nat \ {0}
    BY EvictionAssumption
  <2>2. PICK n : n = size[k]
    OBVIOUS
  <2>3. n \in Nat
    BY <2>1, <2>2
  <2>4. size[k] \in Int /\ 1 \in Int
    BY <2>2, <2>3
  <2>5. IsFiniteSet(1..size[k]) /\ IsFiniteSet({k})
    BY <2>4, FS_Interval, FS_Singleton
  <2> QED
    BY <2>5, FS_Product
<1>2. IsFiniteSet(All)
  <2>1. IsFiniteSet(EvictKeys)
    BY EvictionAssumption
  <2> DEFINE f == [k \in EvictKeys |-> Units(k)]
  <2>2. f \in Surjection(EvictKeys, All)
    BY DEF Surjection
  <2> QED
    BY <2>1, <2>2, FS_Surjection
<1>3. IsFiniteSet(UNION All)
  BY <1>1, <1>2, FS_UNION
<1>4. Memory = Cardinality(UNION All)
  BY DEF Memory
<1> QED
  BY <1>3, <1>4, FS_CardinalityType

(***************************************************************************)
(* The access times without a key: the others, once each.                  *)
(***************************************************************************)
LEMMA UntouchedFacts ==
  ASSUME EvictionTypes, NEW k \in EvictKeys
  PROVE  /\ Untouched(k) \in Seq(EvictKeys) /\ IsInjective(Untouched(k))
         /\ \A i \in DOMAIN Untouched(k) : Untouched(k)[i] # k
<1>1. PICK n \in Nat : n = Len(accessTime)
  BY LenProperties DEF EvictionTypes
<1>2. DOMAIN accessTime = 1..n /\ accessTime \in Seq(EvictKeys)
  BY <1>1, LenProperties DEF EvictionTypes
<1>3. \A a, b \in 1..n : accessTime[a] = accessTime[b] => a = b
  BY <1>2 DEF EvictionTypes, IsInjective
<1>4. CASE k \notin Range(accessTime)
  <2>1. Untouched(k) = accessTime
    BY <1>4 DEF Untouched
  <2> QED
    BY <1>2, <1>4, <2>1 DEF Range, EvictionTypes
<1>5. CASE k \in Range(accessTime)
  <2>1. PICK p \in 1..n : accessTime[p] = k /\ Untouched(k) = RemoveAt(accessTime, p)
    <3>1. \E i \in DOMAIN accessTime : accessTime[i] = k
      BY <1>5 DEF Range
    <3>2. PICK p : p = CHOOSE i \in DOMAIN accessTime : accessTime[i] = k
      OBVIOUS
    <3>3. p \in DOMAIN accessTime /\ accessTime[p] = k
      BY <3>1, <3>2
    <3>4. Untouched(k) = RemoveAt(accessTime, p)
      BY <1>5, <3>2 DEF Untouched
    <3> QED
      BY <1>2, <3>3, <3>4
  <2>2. p \in 1..Len(accessTime)
    BY <1>1
  <2>3. /\ RemoveAt(accessTime, p) \in Seq(EvictKeys)
        /\ DOMAIN RemoveAt(accessTime, p) = 1..(Len(accessTime) - 1)
        /\ \A j \in 1..(Len(accessTime) - 1) :
             RemoveAt(accessTime, p)[j] = IF j < p THEN accessTime[j] ELSE accessTime[j + 1]
    BY <1>2, <2>2, RemoveAtFacts
  <2>4. PICK r : r = RemoveAt(accessTime, p)
    OBVIOUS
  <2>5. DOMAIN r = 1..(n - 1)
    BY <1>1, <2>3, <2>4
  <2>6. \A j \in 1..(n - 1) : r[j] = IF j < p THEN accessTime[j] ELSE accessTime[j + 1]
    BY <1>1, <2>3, <2>4
  <2>7. IsInjective(r)
    BY <1>3, <2>5, <2>6 DEF IsInjective
  <2>8. \A j \in 1..(n - 1) : r[j] # k
    BY <1>3, <2>1, <2>6
  <2> QED
    BY <2>1, <2>3, <2>4, <2>5, <2>7, <2>8
<1> QED
  BY <1>4, <1>5

(***************************************************************************)
(* A key that is touched has one access time.                              *)
(***************************************************************************)
LEMMA TouchedFacts ==
  ASSUME EvictionTypes, NEW k \in EvictKeys
  PROVE  Touched(k) \in Seq(EvictKeys) /\ IsInjective(Touched(k))
<1>1. PICK u : u = Untouched(k)
  OBVIOUS
<1>2. u \in Seq(EvictKeys) /\ IsInjective(u) /\ \A i \in DOMAIN u : u[i] # k
  BY <1>1, UntouchedFacts
<1>3. PICK n \in Nat : n = Len(u)
  BY <1>2, LenProperties
<1>4. /\ Append(u, k) \in Seq(EvictKeys) /\ Len(Append(u, k)) = n + 1
      /\ \A i \in 1..n : Append(u, k)[i] = u[i]
      /\ Append(u, k)[n + 1] = k
  BY <1>2, <1>3, AppendProperties
<1>5. DOMAIN u = 1..n /\ DOMAIN Append(u, k) = 1..(n + 1)
  BY <1>2, <1>3, <1>4, LenProperties
<1>6. IsInjective(Append(u, k))
  <2> SUFFICES ASSUME NEW a \in 1..(n + 1), NEW b \in 1..(n + 1),
                      Append(u, k)[a] = Append(u, k)[b]
               PROVE  a = b
    BY <1>5 DEF IsInjective
  <2>1. CASE a \in 1..n /\ b \in 1..n
    BY <1>2, <1>4, <1>5, <2>1 DEF IsInjective
  <2>2. CASE a \notin 1..n /\ b \in 1..n
    BY <1>2, <1>4, <1>5, <2>2
  <2>3. CASE a \in 1..n /\ b \notin 1..n
    BY <1>2, <1>4, <1>5, <2>3
  <2> QED
    BY <2>1, <2>2, <2>3
<1> QED
  BY <1>1, <1>4, <1>6 DEF Touched, EvictionTypes

(***************************************************************************)
(* A Get may enter the key anywhere among the others.                      *)
(***************************************************************************)
LEMMA InsertedFacts ==
  ASSUME EvictionTypes, NEW k \in EvictKeys, NEW i \in 1..(Len(Untouched(k)) + 1)
  PROVE  /\ InsertAt(Untouched(k), i, k) \in Seq(EvictKeys)
         /\ IsInjective(InsertAt(Untouched(k), i, k))
<1>1. PICK u : u = Untouched(k)
  OBVIOUS
<1>2. u \in Seq(EvictKeys) /\ IsInjective(u) /\ \A j \in DOMAIN u : u[j] # k
  BY <1>1, UntouchedFacts
<1>3. PICK n \in Nat : n = Len(u)
  BY <1>2, LenProperties
<1>4. i \in 1..(Len(u) + 1)
  BY <1>1
<1>5. /\ InsertAt(u, i, k) \in Seq(EvictKeys)
      /\ DOMAIN InsertAt(u, i, k) = 1..(Len(u) + 1)
      /\ \A j \in 1..(Len(u) + 1) :
           InsertAt(u, i, k)[j] = IF j < i THEN u[j] ELSE IF j = i THEN k ELSE u[j - 1]
  BY <1>2, <1>4, InsertAtFacts
<1>6. PICK v : v = InsertAt(u, i, k)
  OBVIOUS
<1>7. DOMAIN v = 1..(n + 1) /\ DOMAIN u = 1..n /\ i \in 1..(n + 1)
  BY <1>2, <1>3, <1>4, <1>5, <1>6, LenProperties
<1>8. \A j \in 1..(n + 1) : v[j] = IF j < i THEN u[j] ELSE IF j = i THEN k ELSE u[j - 1]
  BY <1>3, <1>5, <1>6
<1>9. /\ \A a, b \in 1..n : u[a] = u[b] => a = b
      /\ \A a \in 1..n : u[a] # k
  BY <1>2, <1>7 DEF IsInjective
<1>10. IsInjective(v)
  BY <1>7, <1>8, <1>9 DEF IsInjective
<1> QED
  BY <1>1, <1>5, <1>6, <1>10

-----------------------------------------------------------------------------
(***************************************************************************)
(* Nothing is known at the start.                                          *)
(***************************************************************************)
LEMMA EvictionInitInv == EvictionInit => EvictionIndInv
<1> SUFFICES ASSUME EvictionInit PROVE EvictionIndInv
  OBVIOUS
<1>1. Sizes \subseteq Nat \ {0} /\ 0 \in Limits /\ RefreshEvery \in Nat \ {0}
  BY EvictionAssumption
<1>2. size \in [EvictKeys -> Sizes \cup {0}] /\ volatile \subseteq Present
  BY DEF EvictionInit, Present
<1>3. accessTime \in Seq(EvictKeys) /\ IsInjective(accessTime)
  <2>1. accessTime = <<>> /\ DOMAIN << >> = {}
    BY DEF EvictionInit
  <2> QED
    BY <2>1 DEF IsInjective
<1>4. EvictionTypes
  <2>1. memEstimate \in Nat /\ ops \in 0..(RefreshEvery - 1)
    BY <1>1 DEF EvictionInit
  <2>2. maxMemory \in Limits /\ policy \in Policies /\ checked \in BOOLEAN /\ evicting \in BOOLEAN /\ reading = <<>>
    BY <1>1 DEF EvictionInit, Policies
  <2> QED
    BY <1>2, <1>3, <2>1, <2>2 DEF EvictionTypes
<1> QED
  BY <1>4 DEF EvictionInit, LoopHistory, EvictionIndInv

(***************************************************************************)
(* Keys with an expiry time are there, also after a write or a deletion.   *)
(***************************************************************************)
LEMMA KeysAfter ==
  ASSUME EvictionTypes, NEW k \in EvictKeys
  PROVE  /\ deleteKeyLocked(k) =>
              size' \in [EvictKeys -> Sizes \cup {0}] /\ volatile' \subseteq Present'
         /\ \A n \in Sizes, expires \in BOOLEAN :
              Write(k, n, expires) =>
                size' \in [EvictKeys -> Sizes \cup {0}] /\ volatile' \subseteq Present'
<1>1. Sizes \subseteq Nat \ {0}
  BY EvictionAssumption
<1>2. size \in [EvictKeys -> Sizes \cup {0}] /\ volatile \subseteq {j \in EvictKeys : size[j] > 0}
  BY DEF EvictionTypes, Present
<1>3. ASSUME deleteKeyLocked(k)
      PROVE  size' \in [EvictKeys -> Sizes \cup {0}] /\ volatile' \subseteq Present'
  BY <1>2, <1>3 DEF deleteKeyLocked, Present
<1>4. ASSUME NEW n \in Sizes, NEW expires \in BOOLEAN, Write(k, n, expires)
      PROVE  size' \in [EvictKeys -> Sizes \cup {0}] /\ volatile' \subseteq Present'
  <2>1. n \in Nat /\ n > 0
    BY <1>1
  <2>2. size' = [size EXCEPT ![k] = n] /\ volatile' \subseteq volatile \cup {k}
    BY <1>4 DEF Write
  <2> QED
    BY <1>2, <2>1, <2>2 DEF Present
<1> QED
  BY <1>3, <1>4

(***************************************************************************)
(* Every step keeps the invariant.                                         *)
(***************************************************************************)
LEMMA EvictionNextInv == EvictionIndInv /\ [EvictionNext]_evictVars => EvictionIndInv'
<1> SUFFICES ASSUME EvictionIndInv, [EvictionNext]_evictVars PROVE EvictionIndInv'
  OBVIOUS
<1>1. EvictionTypes /\ LoopHistory
  BY DEF EvictionIndInv
<1>2. ASSUME NEW k \in EvictKeys, NEW n \in Sizes, NEW expires \in BOOLEAN, Write(k, n, expires)
      PROVE  EvictionIndInv'
  <2>1. size' \in [EvictKeys -> Sizes \cup {0}] /\ volatile' \subseteq Present'
    BY <1>1, <1>2, KeysAfter
  <2>2. accessTime' \in Seq(EvictKeys) /\ IsInjective(accessTime')
    BY <1>1, <1>2, TouchedFacts DEF Write
  <2>3. UNCHANGED <<memEstimate, ops, maxMemory, policy, checked, evicting, reading, evicted, wasted>>
    BY <1>2 DEF Write, configVars
  <2> QED
    BY <1>1, <2>1, <2>2, <2>3 DEF EvictionIndInv, EvictionTypes, LoopHistory
<1>3. ASSUME NEW k \in EvictKeys, Delete(k) PROVE EvictionIndInv'
  <2>1. size' \in [EvictKeys -> Sizes \cup {0}] /\ volatile' \subseteq Present'
    BY <1>1, <1>3, KeysAfter DEF Delete
  <2>2. accessTime' \in Seq(EvictKeys) /\ IsInjective(accessTime')
    BY <1>1, <1>3, TouchedFacts, UntouchedFacts DEF Delete, Forgotten
  <2>3. UNCHANGED <<memEstimate, ops, maxMemory, policy, checked, evicting, reading, evicted, wasted>>
    BY <1>3 DEF Delete, configVars
  <2> QED
    BY <1>1, <2>1, <2>2, <2>3 DEF EvictionIndInv, EvictionTypes, LoopHistory
<1>4. ASSUME NEW k \in EvictKeys, GetReads(k) PROVE EvictionIndInv'
  BY <1>1, <1>4 DEF GetReads, configVars, EvictionIndInv, EvictionTypes, LoopHistory, Present
<1>5. CASE GetTouches
  <2>1. PICK k \in EvictKeys : reading = <<k>>
    BY <1>1, <1>5 DEF GetTouches, EvictionTypes
  <2>2. PICK i \in 1..(Len(Untouched(k)) + 1) : accessTime' = InsertAt(Untouched(k), i, k)
    BY <1>5, <2>1 DEF GetTouches
  <2>3. accessTime' \in Seq(EvictKeys) /\ IsInjective(accessTime')
    BY <1>1, <2>2, InsertedFacts
  <2>4. reading' = <<>> /\ UNCHANGED <<size, volatile, memEstimate, ops, maxMemory, policy, checked, evicting, evicted, wasted>>
    BY <1>5 DEF GetTouches, configVars
  <2> QED
    BY <1>1, <2>3, <2>4 DEF EvictionIndInv, EvictionTypes, LoopHistory, Present
<1>6. ASSUME NEW m \in Limits, SetMaxMemory(m) PROVE EvictionIndInv'
  BY <1>1, <1>6, EvictionAssumption
     DEF SetMaxMemory, EvictionIndInv, EvictionTypes, LoopHistory, Present
<1>7. ASSUME NEW p \in Policies, SetEvictPolicy(p) PROVE EvictionIndInv'
  BY <1>1, <1>7 DEF SetEvictPolicy, EvictionIndInv, EvictionTypes, LoopHistory, Present
<1>8. CASE EvictIfNeeded
  BY <1>1, <1>8 DEF EvictIfNeeded, configVars, EvictionIndInv, EvictionTypes, LoopHistory, Present
<1>9. CASE TakesLock
  BY <1>1, <1>9 DEF TakesLock, configVars, EvictionIndInv, EvictionTypes, LoopHistory, Present
<1>10. Estimate \in Nat /\ (CountCall => ops' \in 0..(RefreshEvery - 1))
  <2>1. Memory \in Nat
    BY <1>1, MemoryIsNumber DEF EvictionTypes
  <2>2. Estimate \in Nat
    BY <1>1, <2>1 DEF Estimate, EvictionTypes
  <2>3. RefreshEvery \in Nat \ {0} /\ ops \in 0..(RefreshEvery - 1)
    BY <1>1, EvictionAssumption DEF EvictionTypes
  <2>4. CountCall => ops' \in 0..(RefreshEvery - 1)
    BY <2>3 DEF CountCall, Renews
  <2> QED
    BY <2>2, <2>4
<1>11. CASE Returns
  BY <1>1, <1>10, <1>11 DEF Returns, configVars, EvictionIndInv, EvictionTypes, LoopHistory, Present
<1>12. ASSUME NEW k \in EvictKeys, EvictOne(k) PROVE EvictionIndInv'
  <2>1. size' \in [EvictKeys -> Sizes \cup {0}] /\ volatile' \subseteq Present'
    BY <1>1, <1>12, KeysAfter DEF EvictOne
  <2>2. accessTime' \in Seq(EvictKeys) /\ IsInjective(accessTime')
    BY <1>1, <1>12, TouchedFacts, UntouchedFacts DEF EvictOne, AccessAfter, Forgotten
  <2>3. /\ memEstimate' = 0 /\ ops' \in 0..(RefreshEvery - 1) /\ evicting
        /\ UNCHANGED <<maxMemory, policy, checked, evicting, reading>>
    BY <1>10, <1>12 DEF EvictOne, configVars
  <2>4. EvictionTypes'
    BY <1>1, <2>1, <2>2, <2>3 DEF EvictionTypes
  <2>5. evicted' = TRUE /\ wasted' = wasted + Spoils(k) /\ Estimate > maxMemory
    BY <1>12 DEF EvictOne
  <2>6. CASE evicted
    <3>1. Estimate = Memory
      BY <1>1, <2>6 DEF Estimate, Renews, LoopHistory
    <3>2. Memory \in Nat /\ maxMemory \in Nat
      BY <1>1, MemoryIsNumber, EvictionAssumption DEF EvictionTypes
    <3>3. Spoils(k) = 0
      BY <2>5, <3>1, <3>2 DEF Spoils
    <3>4. wasted' = wasted
      BY <1>1, <2>5, <3>3 DEF LoopHistory
    <3> QED
      BY <1>1, <2>3, <2>4, <2>5, <3>4 DEF LoopHistory, EvictionIndInv
  <2>7. CASE ~evicted
    <3>1. wasted = 0 /\ Spoils(k) \in {0, 1}
      BY <1>1, <2>7 DEF LoopHistory, Spoils
    <3>2. wasted' \in {0, 1}
      BY <2>5, <3>1
    <3> QED
      BY <1>1, <2>3, <2>4, <2>5, <3>2 DEF LoopHistory, EvictionIndInv
  <2> QED
    BY <2>6, <2>7
<1>13. CASE UNCHANGED evictVars
  BY <1>1, <1>13 DEF evictVars, configVars, EvictionIndInv, EvictionTypes, LoopHistory, Present
<1> QED
  BY <1>2, <1>3, <1>4, <1>5, <1>6, <1>7, <1>8, <1>11, <1>12, <1>13, <1>9 DEF EvictionNext

(***************************************************************************)
(* However keys are written, read, deleted and evicted, for any keys,      *)
(* sizes, limits and sample sizes: a key has one access time at most, and  *)
(* a call of EvictIfNeeded loses at most one key to an estimate that is    *)
(* out of date.                                                            *)
(***************************************************************************)
THEOREM EvictionWastesOne == EvictionSpec => []EvictionInv
<1>1. EvictionIndInv => EvictionInv
  BY DEF EvictionIndInv, EvictionTypes, LoopHistory, EvictionInv, EvictionTypeOK, OneWasted
<1> QED
  BY <1>1, EvictionInitInv, EvictionNextInv, PTL DEF EvictionSpec

(***************************************************************************)
(* A call of EvictIfNeeded that has evicted goes on until the memory, as   *)
(* it really is, is within maxmemory or the policy finds no victim.        *)
(***************************************************************************)
THEOREM EvictionIsEnough == EvictionSpec => EvictedEnough
<1>1. ASSUME EvictionIndInv, [EvictionNext]_evictVars
      PROVE  [evicting /\ ~evicting' /\ (evicted \/ Present' # Present)
                => Memory' <= maxMemory \/ Victims = {}]_evictVars
  <2> SUFFICES ASSUME EvictionNext, evicting, ~evicting', evicted \/ Present' # Present
               PROVE  Memory' <= maxMemory \/ Victims = {}
    BY <1>1
  <2>1. Returns
    BY DEF EvictionNext, Write, Delete, GetReads, GetTouches, SetMaxMemory, SetEvictPolicy,
           EvictIfNeeded, TakesLock, EvictOne
  <2>2. size' = size
    BY <2>1 DEF Returns
  <2>3. Present' = Present /\ Memory' = Memory
    BY <2>2 DEF Present, Memory
  <2>4. memEstimate = 0
    BY <1>1, <2>3 DEF EvictionIndInv, LoopHistory
  <2>5. Estimate = Memory
    BY <2>4 DEF Estimate, Renews
  <2> QED
    BY <2>1, <2>3, <2>5 DEF Returns
<1> QED
  BY <1>1, EvictionInitInv, EvictionNextInv, PTL DEF EvictionSpec, EvictedEnough
=============================================================================
