------------------------- MODULE ReliableQueueProofs -------------------------
(***************************************************************************)
(* Proofs about ReliableQueue for every number of messages, consumers,     *)
(* retries and delays.                                                     *)
(***************************************************************************)
EXTENDS ReliableQueue, FiniteSetTheorems, SequenceTheorems, TLAPS

-----------------------------------------------------------------------------
(***************************************************************************)
(* What the list operations of the queue do to the elements of a list.     *)
(***************************************************************************)

(***************************************************************************)
(* append: the new element joins the others, and an element that was not   *)
(* there before leaves the list free of duplicates.                        *)
(***************************************************************************)
LEMMA AppendElements ==
  ASSUME NEW S, NEW s \in Seq(S), NEW e \in S
  PROVE  /\ Append(s, e) \in Seq(S)
         /\ ToSet(Append(s, e)) = ToSet(s) \cup {e}
         /\ (NoDuplicates(s) /\ e \notin ToSet(s)) => NoDuplicates(Append(s, e))
<1>1. /\ Append(s, e) \in Seq(S)
      /\ Len(Append(s, e)) = Len(s) + 1
      /\ \A i \in 1..Len(s) : Append(s, e)[i] = s[i]
      /\ Append(s, e)[Len(s) + 1] = e
      /\ Len(s) \in Nat
  BY AppendProperties
<1>2. /\ DOMAIN s = 1..Len(s)
      /\ DOMAIN Append(s, e) = 1..(Len(s) + 1)
  BY <1>1, LenProperties
<1>3. ToSet(Append(s, e)) = ToSet(s) \cup {e}
  BY <1>1, <1>2 DEF ToSet
<1>4. ASSUME NoDuplicates(s), e \notin ToSet(s)
      PROVE  NoDuplicates(Append(s, e))
  BY <1>1, <1>2, <1>4 DEF ToSet, NoDuplicates
<1> QED
  BY <1>1, <1>3, <1>4

(***************************************************************************)
(* The same for the concatenation of two lists.                            *)
(***************************************************************************)
LEMMA ConcatElements ==
  ASSUME NEW S, NEW s \in Seq(S), NEW t \in Seq(S)
  PROVE  /\ s \o t \in Seq(S)
         /\ ToSet(s \o t) = ToSet(s) \cup ToSet(t)
         /\ (NoDuplicates(s) /\ NoDuplicates(t) /\ ToSet(s) \cap ToSet(t) = {})
              => NoDuplicates(s \o t)
<1>1. /\ s \o t \in Seq(S)
      /\ Len(s \o t) = Len(s) + Len(t)
      /\ \A i \in 1..Len(s) + Len(t) :
           (s \o t)[i] = IF i <= Len(s) THEN s[i] ELSE t[i - Len(s)]
      /\ Len(s) \in Nat /\ Len(t) \in Nat
  BY ConcatProperties, LenProperties
<1>2. /\ DOMAIN s = 1..Len(s)
      /\ DOMAIN t = 1..Len(t)
      /\ DOMAIN (s \o t) = 1..(Len(s) + Len(t))
  BY <1>1, LenProperties
<1>3. ToSet(s \o t) = ToSet(s) \cup ToSet(t)
  <2>1. ToSet(s \o t) \subseteq ToSet(s) \cup ToSet(t)
    BY <1>1, <1>2 DEF ToSet
  <2>2. ToSet(s) \subseteq ToSet(s \o t)
    BY <1>1, <1>2 DEF ToSet
  <2>3. ASSUME NEW i \in 1..Len(t)
        PROVE  t[i] \in ToSet(s \o t)
    <3>1. /\ i + Len(s) \in 1..(Len(s) + Len(t))
          /\ (s \o t)[i + Len(s)] = t[i]
      BY <1>1
    <3> QED
      BY <3>1, <1>2 DEF ToSet
  <2> QED
    BY <2>1, <2>2, <2>3, <1>2 DEF ToSet
<1>4. ASSUME NoDuplicates(s), NoDuplicates(t), ToSet(s) \cap ToSet(t) = {}
      PROVE  NoDuplicates(s \o t)
  <2>1. \A i \in 1..Len(s), j \in 1..Len(t) : s[i] # t[j]
    BY <1>2, <1>4 DEF ToSet
  <2> QED
    BY <2>1, <1>1, <1>4 DEF NoDuplicates
<1> QED
  BY <1>1, <1>3, <1>4

(***************************************************************************)
(* Taking the element at position i out of a list, as the scan of Dequeue  *)
(* does, keeps the others in their order.                                  *)
(***************************************************************************)
LEMMA RemoveAtElements ==
  ASSUME NEW S, NEW s \in Seq(S), NEW i \in 1..Len(s)
  PROVE  /\ RemoveAt(s, i) \in Seq(S)
         /\ Len(RemoveAt(s, i)) = Len(s) - 1
         /\ \A j \in 1..(Len(s) - 1) :
              RemoveAt(s, i)[j] = IF j < i THEN s[j] ELSE s[j + 1]
         /\ NoDuplicates(s) => /\ NoDuplicates(RemoveAt(s, i))
                               /\ ToSet(RemoveAt(s, i)) = ToSet(s) \ {s[i]}
<1> DEFINE a == SubSeq(s, 1, i - 1)
           b == SubSeq(s, i + 1, Len(s))
           r == RemoveAt(s, i)
<1>0. /\ Len(s) \in Nat
      /\ DOMAIN s = 1..Len(s)
      /\ \A j \in 1..Len(s) : s[j] \in S
  BY LenProperties, ElementOfSeq
<1>1. /\ a \in Seq(S) /\ Len(a) = i - 1
      /\ \A j \in 1..(i - 1) : a[j] = s[j]
  BY <1>0, SubSeqProperties
<1>2. /\ b \in Seq(S) /\ Len(b) = Len(s) - i
      /\ \A j \in 1..(Len(s) - i) : b[j] = s[i + j]
  <2> DEFINE m == i + 1
  <2>1. m \in Int /\ Len(s) \in Int /\ \A j \in m..Len(s) : s[j] \in S
    BY <1>0
  <2>2. m <= Len(s) + 1 /\ Len(s) - m + 1 = Len(s) - i
    BY <1>0
  <2> HIDE DEF m
  <2>3. /\ SubSeq(s, m, Len(s)) \in Seq(S)
        /\ Len(SubSeq(s, m, Len(s))) = Len(s) - m + 1
        /\ \A j \in 1..(Len(s) - m + 1) : SubSeq(s, m, Len(s))[j] = s[m + j - 1]
    BY <2>1, <2>2, SubSeqProperties
  <2>4. \A j \in 1..(Len(s) - i) : m + j - 1 = i + j
    BY <1>0 DEF m
  <2> QED
    BY <2>2, <2>3, <2>4 DEF m
<1>3. r = a \o b
  BY DEF RemoveAt
<1> HIDE DEF a, b, r
<1>4. /\ r \in Seq(S) /\ Len(r) = Len(s) - 1
      /\ \A j \in 1..(Len(s) - 1) :
           r[j] = IF j <= i - 1 THEN a[j] ELSE b[j - (i - 1)]
  <2>1. /\ a \o b \in Seq(S) /\ Len(a \o b) = Len(a) + Len(b)
        /\ \A j \in 1..Len(a) + Len(b) :
             (a \o b)[j] = IF j <= Len(a) THEN a[j] ELSE b[j - Len(a)]
    BY <1>1, <1>2, ConcatProperties
  <2>2. Len(a) + Len(b) = Len(s) - 1
    BY <1>0, <1>1, <1>2
  <2> QED
    BY <1>1, <1>3, <2>1, <2>2
<1>5. \A j \in 1..(Len(s) - 1) : r[j] = IF j < i THEN s[j] ELSE s[j + 1]
  <2> TAKE j \in 1..(Len(s) - 1)
  <2>1. CASE j < i
    BY <2>1, <1>0, <1>1, <1>4
  <2>2. CASE ~(j < i)
    <3>1. j - (i - 1) \in 1..(Len(s) - i) /\ i + (j - (i - 1)) = j + 1
      BY <2>2, <1>0
    <3>2. r[j] = b[j - (i - 1)]
      BY <2>2, <1>0, <1>4
    <3> QED
      BY <2>2, <3>1, <3>2, <1>2
  <2> QED
    BY <2>1, <2>2
<1>6. DOMAIN r = 1..(Len(s) - 1)
  BY <1>4, LenProperties
<1>7. ASSUME NoDuplicates(s)
      PROVE  NoDuplicates(r) /\ ToSet(r) = ToSet(s) \ {s[i]}
  <2>1. NoDuplicates(r)
    BY <1>0, <1>4, <1>5, <1>7 DEF NoDuplicates
  <2>2. ToSet(r) \subseteq ToSet(s) \ {s[i]}
    BY <1>0, <1>5, <1>6, <1>7 DEF NoDuplicates, ToSet
  <2>3. ASSUME NEW k \in 1..Len(s), k # i
        PROVE  s[k] \in ToSet(r)
    <3>1. CASE k < i
      BY <3>1, <1>0, <1>5, <1>6 DEF ToSet
    <3>2. CASE k > i
      <4>1. k - 1 \in 1..(Len(s) - 1) /\ r[k - 1] = s[k]
        BY <3>2, <1>0, <1>5
      <4> QED
        BY <4>1, <1>6 DEF ToSet
    <3> QED
      BY <2>3, <3>1, <3>2, <1>0
  <2> QED
    BY <2>1, <2>2, <2>3, <1>0 DEF ToSet
<1> QED
  BY <1>4, <1>5, <1>7 DEF r

(***************************************************************************)
(* An iteration order of a finite set visits each element exactly once.    *)
(***************************************************************************)
LEMMA OrdersElements ==
  ASSUME NEW S, IsFiniteSet(S), NEW s \in Orders(S)
  PROVE  /\ s \in Seq(S)
         /\ ToSet(s) = S
         /\ NoDuplicates(s)
<1>1. Cardinality(S) \in Nat
  BY FS_CardinalityType
<1>2. /\ s \in [1..Cardinality(S) -> S]
      /\ \A m \in S : \E i \in 1..Cardinality(S) : s[i] = m
      /\ \A i, j \in 1..Cardinality(S) : s[i] = s[j] => i = j
  BY DEF Orders
<1>3. s \in Seq(S) /\ Len(s) = Cardinality(S)
  BY <1>1, <1>2
<1>4. ToSet(s) = S
  BY <1>2 DEF ToSet
<1> QED
  BY <1>2, <1>3, <1>4 DEF NoDuplicates

-----------------------------------------------------------------------------
(***************************************************************************)
(* The inductive invariant: besides the properties themselves, messages    *)
(* that were never handed out stand in pending in the order of Enqueue,    *)
(* and ids not yet given out have untouched counters.                      *)
(***************************************************************************)
FreshIds == \A m \in Messages : m > nextID => deliveries[m] = 0 /\ retries[m] = 0

AckedWereDelivered == \A m \in acked : deliveries[m] > 0

PromptAreReady == prompt \subseteq 1..nextID /\ \A m \in prompt : delay[m] = 0

UndeliveredInOrder ==
  \A i, j \in 1..Len(pending) :
    (i < j /\ deliveries[pending[i]] = 0 /\ deliveries[pending[j]] = 0)
      => pending[i] < pending[j]

History == FreshIds /\ AckedWereDelivered /\ PromptAreReady
             /\ UndeliveredInOrder /\ FirstDeliveryFIFO

MInv == MessagesTypeOK /\ OnePlace /\ RetryBudget /\ History

Inv == MInv /\ WaitersTypeOK

(***************************************************************************)
(* Overdue messages are in a finite set, so they have iteration orders.    *)
(***************************************************************************)
LEMMA ExpiredFinite ==
  ASSUME MessagesTypeOK
  PROVE  IsFiniteSet(ToRetry) /\ IsFiniteSet(ToBury)
<1>1. IsFiniteSet(Messages)
  BY FS_Interval, QueueAssumption DEF Messages
<1>2. ToRetry \subseteq Messages /\ ToBury \subseteq Messages
  BY DEF MessagesTypeOK, ToRetry, ToBury, Expired
<1> QED
  BY <1>1, <1>2, FS_Subset

(***************************************************************************)
(* What the pass of Dequeue that finds a message does to the places of the *)
(* messages: m is taken out of pending or straight from its late holder.   *)
(***************************************************************************)
LEMMA TakeFirstEffect ==
  ASSUME MInv, TakeFirst
  PROVE  \E m \in ToSet(pending) \cup ToRetry :
           /\ pending' \in Seq(Messages) /\ NoDuplicates(pending')
           /\ ToSet(pending') = (ToSet(pending) \cup ToRetry) \ {m}
           /\ deadLetter' \in Seq(Messages) /\ NoDuplicates(deadLetter')
           /\ ToSet(deadLetter') = ToSet(deadLetter) \cup ToBury
           /\ processing' = (processing \ Expired) \cup {m}
           /\ retries' = [n \in Messages |->
                            IF n \in Expired THEN retries[n] + 1 ELSE retries[n]]
           /\ delay' = [n \in Messages |-> IF n \in ToRetry THEN 0 ELSE delay[n]]
           /\ lease' = [lease EXCEPT ![m] = AckTimeout]
           /\ deliveries' = [deliveries EXCEPT ![m] = @ + 1]
           /\ nacked' = nacked \ {m}
           /\ UNCHANGED <<nextID, acked, dropped, prompt>>
           /\ \A i, j \in 1..Len(pending') :
                (i < j /\ deliveries[pending'[i]] = 0 /\ deliveries[pending'[j]] = 0)
                  => pending'[i] < pending'[j]
           /\ \A k \in prompt :
                (k \in ToSet(pending) /\ deliveries[k] = 0 /\ deliveries[m] = 0)
                  => m <= k
<1> USE DEF MInv
<1>1. PICK back \in Orders(ToRetry), buried \in Orders(ToBury) :
        \E i \in 1..Len(pending \o back) :
          /\ FirstReady(pending \o back, i)
          /\ requeueExpiredLocked(buried)
          /\ pending' = RemoveAt(pending \o back, i)
          /\ processing' = (processing \ Expired) \cup {(pending \o back)[i]}
          /\ lease' = [lease EXCEPT ![(pending \o back)[i]] = AckTimeout]
          /\ deliveries' = [deliveries EXCEPT ![(pending \o back)[i]] = @ + 1]
          /\ nacked' = nacked \ {(pending \o back)[i]}
          /\ UNCHANGED <<nextID, acked, dropped, prompt>>
  BY DEF TakeFirst
<1> DEFINE p == pending \o back
<1> HIDE DEF p
<1>2. PICK i \in 1..Len(p) :
          /\ FirstReady(p, i)
          /\ requeueExpiredLocked(buried)
          /\ pending' = RemoveAt(p, i)
          /\ processing' = (processing \ Expired) \cup {p[i]}
          /\ lease' = [lease EXCEPT ![p[i]] = AckTimeout]
          /\ deliveries' = [deliveries EXCEPT ![p[i]] = @ + 1]
          /\ nacked' = nacked \ {p[i]}
          /\ UNCHANGED <<nextID, acked, dropped, prompt>>
  BY <1>1 DEF p
<1>3. /\ back \in Seq(Messages) /\ ToSet(back) = ToRetry /\ NoDuplicates(back)
      /\ buried \in Seq(Messages) /\ ToSet(buried) = ToBury /\ NoDuplicates(buried)
  <2>1. ToRetry \subseteq Messages /\ ToBury \subseteq Messages
    BY DEF MessagesTypeOK, ToRetry, ToBury, Expired
  <2>2. /\ back \in Seq(ToRetry) /\ ToSet(back) = ToRetry /\ NoDuplicates(back)
        /\ buried \in Seq(ToBury) /\ ToSet(buried) = ToBury /\ NoDuplicates(buried)
    BY OrdersElements, ExpiredFinite
  <2> QED
    BY <2>1, <2>2, SeqMonotonic
<1>4. /\ ToRetry \subseteq processing /\ ToBury \subseteq processing
      /\ \A n \in ToRetry : deliveries[n] > 0 /\ n \in Messages
  BY DEF MessagesTypeOK, RetryBudget, ToRetry, ToBury, Expired
<1>5. /\ p \in Seq(Messages) /\ NoDuplicates(p)
      /\ ToSet(p) = ToSet(pending) \cup ToRetry
  BY <1>3, <1>4, ConcatElements DEF p, MessagesTypeOK, OnePlace
<1>6. /\ Len(p) = Len(pending) + Len(back)
      /\ Len(pending) \in Nat /\ Len(back) \in Nat
      /\ \A j \in 1..Len(pending) : p[j] = pending[j]
      /\ \A j \in 1..Len(p) : j > Len(pending) => p[j] \in ToRetry
  <2>1. /\ pending \in Seq(Messages) /\ Len(pending) \in Nat /\ Len(back) \in Nat
        /\ DOMAIN back = 1..Len(back)
    BY <1>3, LenProperties DEF MessagesTypeOK
  <2>2. /\ Len(p) = Len(pending) + Len(back)
        /\ \A j \in 1..Len(pending) + Len(back) :
             p[j] = IF j <= Len(pending) THEN pending[j] ELSE back[j - Len(pending)]
    BY <1>3, <2>1, ConcatProperties DEF p
  <2>3. ASSUME NEW j \in 1..Len(p), j > Len(pending)
        PROVE  p[j] \in ToRetry
    <3>1. j - Len(pending) \in DOMAIN back /\ p[j] = back[j - Len(pending)]
      BY <2>1, <2>2, <2>3
    <3> QED
      BY <3>1, <1>3 DEF ToSet
  <2> QED
    BY <2>1, <2>2, <2>3
<1>7. /\ RemoveAt(p, i) \in Seq(Messages)
      /\ Len(RemoveAt(p, i)) = Len(p) - 1
      /\ \A j \in 1..(Len(p) - 1) :
           RemoveAt(p, i)[j] = IF j < i THEN p[j] ELSE p[j + 1]
      /\ NoDuplicates(RemoveAt(p, i))
      /\ ToSet(RemoveAt(p, i)) = ToSet(p) \ {p[i]}
  BY <1>5, RemoveAtElements
<1>8. p[i] \in ToSet(pending) \cup ToRetry
  BY <1>5, LenProperties DEF ToSet
<1>9. /\ deadLetter' \in Seq(Messages) /\ NoDuplicates(deadLetter')
      /\ ToSet(deadLetter') = ToSet(deadLetter) \cup ToBury
  BY <1>2, <1>3, <1>4, ConcatElements DEF requeueExpiredLocked, MessagesTypeOK, OnePlace
<1>10. \A j, k \in 1..Len(p) :
         (j < k /\ deliveries[p[j]] = 0 /\ deliveries[p[k]] = 0) => p[j] < p[k]
  <2> TAKE j, k \in 1..Len(p)
  <2> HAVE j < k /\ deliveries[p[j]] = 0 /\ deliveries[p[k]] = 0
  <2>1. j <= Len(pending) /\ k <= Len(pending)
    BY <1>4, <1>6
  <2> QED
    BY <2>1, <1>6 DEF History, UndeliveredInOrder
<1>11. \A j, k \in 1..Len(pending') :
         (j < k /\ deliveries[pending'[j]] = 0 /\ deliveries[pending'[k]] = 0)
           => pending'[j] < pending'[k]
  <2> TAKE j, k \in 1..Len(pending')
  <2> HAVE j < k /\ deliveries[pending'[j]] = 0 /\ deliveries[pending'[k]] = 0
  <2>1. PICK j1, k1 \in 1..Len(p) :
          j1 < k1 /\ pending'[j] = p[j1] /\ pending'[k] = p[k1]
    <3>1. /\ j \in 1..(Len(p) - 1) /\ k \in 1..(Len(p) - 1)
          /\ j \in Int /\ k \in Int /\ i \in Int
          /\ pending'[j] = IF j < i THEN p[j] ELSE p[j + 1]
          /\ pending'[k] = IF k < i THEN p[k] ELSE p[k + 1]
      BY <1>2, <1>6, <1>7
    <3> DEFINE j1 == IF j < i THEN j ELSE j + 1
               k1 == IF k < i THEN k ELSE k + 1
    <3>2. /\ j1 \in 1..Len(p) /\ k1 \in 1..Len(p) /\ j1 < k1
      BY <3>1, <1>6
    <3>3. pending'[j] = p[j1] /\ pending'[k] = p[k1]
      BY <3>1
    <3> HIDE DEF j1, k1
    <3> QED
      BY <3>2, <3>3
  <2> QED
    BY <2>1, <1>10
<1>12. ASSUME NEW k \in prompt, k \in ToSet(pending), deliveries[k] = 0,
              deliveries[p[i]] = 0
       PROVE  p[i] <= k
  <2>1. PICK x \in 1..Len(pending) : pending[x] = k
    BY <1>12, LenProperties DEF ToSet, MessagesTypeOK
  <2>2. x \in 1..Len(p) /\ p[x] = k
    BY <2>1, <1>6
  <2>3. ~(x < i)
    <3>1. Ready(p[x])
      BY <2>2 DEF Ready, History, PromptAreReady
    <3> QED
      BY <3>1, <2>2, <1>2, <1>6 DEF FirstReady
  <2>4. p[i] \in Int /\ k \in Int
    BY <1>5, <2>2, ElementOfSeq, QueueAssumption DEF Messages
  <2>5. CASE x = i
    BY <2>2, <2>4, <2>5
  <2>6. CASE i < x
    BY <2>2, <2>4, <2>6, <1>10, <1>12
  <2> QED
    BY <2>2, <2>3, <2>5, <2>6, <1>6
<1> WITNESS p[i] \in ToSet(pending) \cup ToRetry
<1> QED
  BY <1>2, <1>5, <1>7, <1>9, <1>11, <1>12 DEF requeueExpiredLocked

(***************************************************************************)
(* The pass of Dequeue that finds nothing only buries overdue messages.    *)
(***************************************************************************)
LEMMA TakeNoneEffect ==
  ASSUME MInv, TakeNone
  PROVE  /\ deadLetter' \in Seq(Messages) /\ NoDuplicates(deadLetter')
         /\ ToSet(deadLetter') = ToSet(deadLetter) \cup ToBury
         /\ Expired = ToBury
         /\ processing' = processing \ ToBury
         /\ retries' = [n \in Messages |->
                          IF n \in ToBury THEN retries[n] + 1 ELSE retries[n]]
         /\ delay' = delay
         /\ UNCHANGED <<pending, lease, nextID, historyVars>>
<1> USE DEF MInv
<1>1. PICK buried \in Orders(ToBury) :
        /\ ToRetry = {}
        /\ requeueExpiredLocked(buried)
        /\ processing' = processing \ Expired
        /\ UNCHANGED <<pending, lease, nextID, historyVars>>
  BY DEF TakeNone
<1>2. Expired = ToBury
  BY <1>1 DEF ToRetry, ToBury
<1>3. ToBury \subseteq processing /\ ToBury \subseteq Messages
  BY DEF MessagesTypeOK, ToBury, Expired
<1>4. buried \in Seq(Messages) /\ ToSet(buried) = ToBury /\ NoDuplicates(buried)
  BY <1>3, OrdersElements, ExpiredFinite, SeqMonotonic
<1>5. /\ deadLetter' \in Seq(Messages) /\ NoDuplicates(deadLetter')
      /\ ToSet(deadLetter') = ToSet(deadLetter) \cup ToBury
  BY <1>1, <1>3, <1>4, ConcatElements DEF requeueExpiredLocked, MessagesTypeOK, OnePlace
<1>6. delay' = delay
  BY <1>1 DEF requeueExpiredLocked, MessagesTypeOK
<1> QED
  BY <1>1, <1>2, <1>5, <1>6 DEF requeueExpiredLocked

(***************************************************************************)
(* Each critical section of the queue preserves the invariant.             *)
(***************************************************************************)
LEMMA TakeFirstPreserves ==
  ASSUME MInv, TakeFirst
  PROVE  MInv'
<1> USE DEF MInv
<1>1. PICK m \in ToSet(pending) \cup ToRetry :
           /\ pending' \in Seq(Messages) /\ NoDuplicates(pending')
           /\ ToSet(pending') = (ToSet(pending) \cup ToRetry) \ {m}
           /\ deadLetter' \in Seq(Messages) /\ NoDuplicates(deadLetter')
           /\ ToSet(deadLetter') = ToSet(deadLetter) \cup ToBury
           /\ processing' = (processing \ Expired) \cup {m}
           /\ retries' = [n \in Messages |->
                            IF n \in Expired THEN retries[n] + 1 ELSE retries[n]]
           /\ delay' = [n \in Messages |-> IF n \in ToRetry THEN 0 ELSE delay[n]]
           /\ lease' = [lease EXCEPT ![m] = AckTimeout]
           /\ deliveries' = [deliveries EXCEPT ![m] = @ + 1]
           /\ nacked' = nacked \ {m}
           /\ UNCHANGED <<nextID, acked, dropped, prompt>>
           /\ \A i, j \in 1..Len(pending') :
                (i < j /\ deliveries[pending'[i]] = 0 /\ deliveries[pending'[j]] = 0)
                  => pending'[i] < pending'[j]
           /\ \A k \in prompt :
                (k \in ToSet(pending) /\ deliveries[k] = 0 /\ deliveries[m] = 0)
                  => m <= k
  BY TakeFirstEffect
<1>2. /\ ToSet(pending) \subseteq Messages /\ ToSet(deadLetter) \subseteq Messages
      /\ ToRetry \cup ToBury = Expired /\ ToRetry \cap ToBury = {}
      /\ Expired \subseteq processing /\ processing \subseteq Messages
      /\ m \in Messages
  <2>1. ToSet(pending) \subseteq Messages /\ ToSet(deadLetter) \subseteq Messages
    BY ElementOfSeq, LenProperties DEF MessagesTypeOK, ToSet
  <2> QED
    BY <2>1 DEF MessagesTypeOK, ToRetry, ToBury, Expired
<1>3. /\ MaxRetries \in Nat /\ AckTimeout \in Nat /\ MaxMsgs \in Nat
  BY QueueAssumption
<1>4. \A n \in Messages : /\ retries[n] \in Nat /\ deliveries[n] \in Nat
                          /\ retries[n] <= MaxRetries /\ deliveries[n] <= MaxRetries
  BY <1>3 DEF MessagesTypeOK
<1>5. \A n \in processing : retries[n] + 1 = deliveries[n]
  BY <1>2 DEF RetryBudget
<1>6. /\ \A n \in ToRetry : retries[n] + 1 < MaxRetries
      /\ \A n \in ToBury : retries[n] + 1 = MaxRetries
  BY <1>2, <1>3, <1>4, <1>5 DEF ToRetry, ToBury, Exhausted
<1>7. /\ deliveries[m] < MaxRetries
      /\ deliveries[m] = IF m \in Expired THEN retries[m] + 1 ELSE retries[m]
      /\ m \notin ToBury
  BY <1>2, <1>5, <1>6 DEF RetryBudget, OnePlace
<1>8. MessagesTypeOK'
  <2>1. retries' \in [Messages -> 0..MaxRetries]
    BY <1>1, <1>2, <1>3, <1>4, <1>5, <1>6
  <2>2. deliveries' \in [Messages -> 0..MaxRetries]
    <3>1. deliveries \in [Messages -> 0..MaxRetries]
      BY DEF MessagesTypeOK
    <3>2. deliveries[m] + 1 \in 0..MaxRetries
      BY <1>2, <1>3, <1>4, <1>7
    <3> QED
      BY <1>1, <3>1, <3>2
  <2>3. delay' \in [Messages -> Nat]
    <3>1. \A n \in Messages : delay[n] \in Nat
      BY DEF MessagesTypeOK
    <3> QED
      BY <1>1, <3>1
  <2>4. lease' \in [Messages -> -1..AckTimeout]
    <3>1. lease \in [Messages -> -1..AckTimeout] /\ AckTimeout \in -1..AckTimeout
      BY <1>3 DEF MessagesTypeOK
    <3> QED
      BY <1>1, <3>1
  <2> QED
    BY <1>1, <1>2, <2>1, <2>2, <2>3, <2>4 DEF MessagesTypeOK
<1>9. OnePlace'
  <2>1. Held' = Held
    BY <1>1, <1>2 DEF Held
  <2>2. /\ ToSet(pending') \cap processing' = {}
        /\ ToSet(pending') \cap ToSet(deadLetter') = {}
        /\ processing' \cap ToSet(deadLetter') = {}
    BY <1>1, <1>2, <1>7 DEF OnePlace
  <2> QED
    BY <1>1, <2>1, <2>2 DEF OnePlace
<1>10. RetryBudget'
  <2> SUFFICES ASSUME NEW n \in Messages
               PROVE  /\ n \in ToSet(pending') => /\ retries'[n] = deliveries'[n]
                                                  /\ retries'[n] < MaxRetries
                      /\ n \in processing' => retries'[n] + 1 = deliveries'[n]
                      /\ n \in ToSet(deadLetter') => /\ retries'[n] = MaxRetries
                                                     /\ deliveries'[n] = MaxRetries
    BY DEF RetryBudget
  <2>0. deliveries'[n] = IF n = m THEN deliveries[n] + 1 ELSE deliveries[n]
    BY <1>1 DEF MessagesTypeOK
  <2>00. retries'[n] = IF n \in Expired THEN retries[n] + 1 ELSE retries[n]
    BY <1>1
  <2>1. ASSUME n \in ToSet(pending')
        PROVE  retries'[n] = deliveries'[n] /\ retries'[n] < MaxRetries
    <3>1. n # m /\ (n \in ToSet(pending) \/ n \in ToRetry)
      BY <2>1, <1>1
    <3>2. CASE n \in ToRetry
      BY <3>1, <3>2, <2>0, <2>00, <1>2, <1>5, <1>6
    <3>3. CASE n \in ToSet(pending)
      <4>1. n \notin Expired
        BY <3>3, <1>2 DEF OnePlace
      <4> QED
        BY <3>1, <3>3, <4>1, <2>0, <2>00 DEF RetryBudget
    <3> QED
      BY <3>1, <3>2, <3>3
  <2>2. ASSUME n \in processing'
        PROVE  retries'[n] + 1 = deliveries'[n]
    <3>1. CASE n = m
      BY <3>1, <1>7, <2>0, <2>00
    <3>2. CASE n # m
      BY <3>2, <2>2, <1>1, <1>5, <2>0, <2>00
    <3> QED
      BY <3>1, <3>2
  <2>3. ASSUME n \in ToSet(deadLetter')
        PROVE  retries'[n] = MaxRetries /\ deliveries'[n] = MaxRetries
    <3>1. n # m
      BY <2>3, <1>1, <1>2, <1>7 DEF OnePlace
    <3>2. CASE n \in ToBury
      BY <3>1, <3>2, <2>0, <2>00, <1>2, <1>5, <1>6
    <3>3. CASE n \in ToSet(deadLetter)
      <4>1. n \notin Expired
        BY <3>3, <1>2 DEF OnePlace
      <4> QED
        BY <3>1, <3>3, <4>1, <2>0, <2>00 DEF RetryBudget
    <3> QED
      BY <2>3, <3>2, <3>3, <1>1
  <2> QED
    BY <2>1, <2>2, <2>3
<1>11. History'
  <2>0. /\ deliveries'[m] = deliveries[m] + 1
        /\ \A n \in Messages : n # m => deliveries'[n] = deliveries[n]
    BY <1>1, <1>2 DEF MessagesTypeOK
  <2>00. m \in 1..nextID /\ nextID \in Nat
    BY <1>2, <1>3 DEF OnePlace, Held, MessagesTypeOK
  <2>1. FreshIds'
    <3> SUFFICES ASSUME NEW n \in Messages, n > nextID
                 PROVE  deliveries'[n] = 0 /\ retries'[n] = 0
      BY <1>1 DEF FreshIds
    <3>1. n # m /\ n \notin processing
      BY <2>00, <1>2, <1>3 DEF OnePlace, Held, Messages
    <3> QED
      BY <3>1, <2>0, <1>1, <1>2 DEF History, FreshIds
  <2>2. AckedWereDelivered'
    BY <1>1, <1>2, <1>4, <2>0 DEF History, AckedWereDelivered, MessagesTypeOK
  <2>3. PromptAreReady'
    BY <1>1 DEF History, PromptAreReady, MessagesTypeOK
  <2>4. UndeliveredInOrder'
    <3>1. \A i \in 1..Len(pending') : pending'[i] # m /\ pending'[i] \in Messages
      <4>1. \A i \in 1..Len(pending') : pending'[i] \in ToSet(pending')
        BY <1>1, LenProperties DEF ToSet
      <4> QED
        BY <4>1, <1>1, <1>2
    <3> QED
      BY <3>1, <2>0, <1>1 DEF UndeliveredInOrder
  <2>5. FirstDeliveryFIFO'
    <3> SUFFICES ASSUME NEW k \in prompt, NEW n \in Messages,
                        k < n, deliveries'[n] > 0
                 PROVE  deliveries'[k] > 0 \/ k \in dropped
      BY <1>1 DEF FirstDeliveryFIFO
    <3>1. k \in Messages /\ k \in 1..nextID
      BY DEF MessagesTypeOK, History, PromptAreReady
    <3>2. CASE k = m \/ deliveries[n] > 0
      BY <3>1, <3>2, <1>4, <2>0 DEF History, FirstDeliveryFIFO
    <3>3. CASE k # m /\ ~(deliveries[n] > 0)
      <4>1. n = m /\ deliveries[m] = 0
        BY <3>3, <2>0, <1>4
      <4>2. ~(k \in ToSet(pending) /\ deliveries[k] = 0)
        BY <4>1, <1>1, <3>1, <1>3 DEF Messages
      <4>3. CASE deliveries[k] # 0
        BY <4>3, <3>1, <3>3, <2>0, <1>4
      <4>4. CASE k \notin ToSet(pending) /\ deliveries[k] = 0
        <5>1. k \notin processing
          BY <4>4, <1>5, <1>4, <3>1
        <5>2. k \notin ToSet(deadLetter)
          BY <4>4, <3>1, QueueAssumption DEF RetryBudget
        <5>3. k \notin acked
          BY <4>4, <1>4, <3>1 DEF History, AckedWereDelivered
        <5> QED
          BY <4>4, <5>1, <5>2, <5>3, <3>1 DEF OnePlace, Held
      <4> QED
        BY <4>2, <4>3, <4>4
    <3> QED
      BY <3>2, <3>3
  <2> QED
    BY <2>1, <2>2, <2>3, <2>4, <2>5 DEF History
<1> QED
  BY <1>8, <1>9, <1>10, <1>11

(***************************************************************************)
(* A pass of Dequeue that finds nothing ready only buries exhausted        *)
(* messages and keeps the invariant.                                       *)
(***************************************************************************)
LEMMA TakeNonePreserves ==
  ASSUME MInv, TakeNone
  PROVE  MInv'
<1> USE DEF MInv
<1>1. /\ deadLetter' \in Seq(Messages) /\ NoDuplicates(deadLetter')
      /\ ToSet(deadLetter') = ToSet(deadLetter) \cup ToBury
      /\ processing' = processing \ ToBury
      /\ retries' = [n \in Messages |->
                       IF n \in ToBury THEN retries[n] + 1 ELSE retries[n]]
      /\ delay' = delay
      /\ UNCHANGED <<pending, lease, nextID, acked, dropped, deliveries, nacked, prompt>>
  BY TakeNoneEffect DEF historyVars
<1>2. /\ ToBury \subseteq processing /\ processing \subseteq Messages
      /\ MaxRetries \in Nat
  BY QueueAssumption DEF MessagesTypeOK, ToBury, Expired
<1>3. \A n \in Messages : /\ retries[n] \in Nat /\ deliveries[n] \in Nat
                          /\ retries[n] <= MaxRetries /\ deliveries[n] <= MaxRetries
  BY <1>2 DEF MessagesTypeOK
<1>4. \A n \in processing : retries[n] + 1 = deliveries[n]
  BY <1>2 DEF RetryBudget
<1>5. \A n \in ToBury : retries[n] + 1 = MaxRetries
  BY <1>2, <1>3, <1>4 DEF ToBury, Exhausted
<1>6. MessagesTypeOK'
  <2>1. retries' \in [Messages -> 0..MaxRetries]
    BY <1>1, <1>2, <1>3, <1>5
  <2> QED
    BY <1>1, <1>2, <2>1 DEF MessagesTypeOK
<1>7. OnePlace'
  <2>1. Held' = Held
    BY <1>1, <1>2 DEF Held
  <2> QED
    BY <1>1, <1>2, <2>1 DEF OnePlace
<1>8. RetryBudget'
  BY <1>1, <1>2, <1>3, <1>4, <1>5 DEF RetryBudget, OnePlace
<1>9. History'
  <2>1. FreshIds'
    <3>1. \A n \in Messages : n > nextID => n \notin processing
      BY QueueAssumption DEF OnePlace, Held, Messages, MessagesTypeOK
    <3> QED
      BY <1>1, <1>2, <3>1 DEF History, FreshIds
  <2>2. AckedWereDelivered' /\ PromptAreReady' /\ UndeliveredInOrder' /\ FirstDeliveryFIFO'
    BY <1>1 DEF History, AckedWereDelivered, PromptAreReady, UndeliveredInOrder,
                FirstDeliveryFIFO
  <2> QED
    BY <2>1, <2>2 DEF History
<1> QED
  BY <1>6, <1>7, <1>8, <1>9

(***************************************************************************)
(* Enqueue adds a new identity behind all others and keeps the invariant.  *)
(***************************************************************************)
LEMMA EnqueuePreserves ==
  ASSUME MInv, NEW d \in Delays, Enqueue(d)
  PROVE  MInv'
<1> USE DEF MInv
<1> DEFINE new == nextID + 1
<1>1. /\ nextID \in Nat /\ new \in Messages /\ nextID' = new /\ d \in Nat
      /\ new \notin 1..nextID /\ 1..new = 1..nextID \cup {new}
  <2>1. /\ nextID \in Nat /\ MaxMsgs \in Nat /\ nextID < MaxMsgs
        /\ nextID' = nextID + 1 /\ d \in Nat
    BY QueueAssumption DEF MessagesTypeOK, Enqueue
  <2>2. nextID + 1 \in 1..MaxMsgs /\ nextID + 1 \notin 1..nextID
    BY <2>1
  <2>3. 1..(nextID + 1) = 1..nextID \cup {nextID + 1}
    BY <2>1
  <2> QED
    BY <2>1, <2>2, <2>3 DEF Messages
<1>2. /\ pending' = Append(pending, new)
      /\ delay' = [delay EXCEPT ![new] = d]
      /\ prompt' = IF d = 0 THEN prompt \cup {new} ELSE prompt
      /\ UNCHANGED <<processing, deadLetter, retries, lease, acked, dropped,
                     deliveries, nacked>>
  BY DEF Enqueue
<1> HIDE DEF new
<1>3. new \notin Held /\ new \notin acked /\ new \notin dropped
  BY <1>1 DEF OnePlace
<1>4. /\ pending' \in Seq(Messages)
      /\ ToSet(pending') = ToSet(pending) \cup {new}
      /\ NoDuplicates(pending')
  BY <1>1, <1>2, <1>3, AppendElements DEF MessagesTypeOK, OnePlace, Held
<1>5. MessagesTypeOK'
  <2>1. delay' \in [Messages -> Nat]
    BY <1>1, <1>2 DEF MessagesTypeOK
  <2>2. prompt' \subseteq Messages
    BY <1>1, <1>2 DEF MessagesTypeOK
  <2>3. nextID' \in 0..MaxMsgs
    BY <1>1 DEF Messages
  <2> QED
    BY <1>2, <1>4, <2>1, <2>2, <2>3 DEF MessagesTypeOK
<1>6. OnePlace'
  <2>1. Held' = Held \cup {new}
    BY <1>2, <1>4 DEF Held
  <2>2. (Held \cup acked \cup dropped) \cup {new} = 1..new
    BY <1>1 DEF OnePlace
  <2> QED
    BY <1>1, <1>2, <1>3, <1>4, <2>1, <2>2 DEF OnePlace, Held
<1>7. deliveries[new] = 0 /\ retries[new] = 0
  BY <1>1 DEF History, FreshIds, new
<1>8. RetryBudget'
  BY <1>2, <1>3, <1>4, <1>7, QueueAssumption DEF RetryBudget, Held
<1>9. History'
  <2>1. FreshIds'
    BY <1>1, <1>2, QueueAssumption DEF History, FreshIds, Messages, new
  <2>2. AckedWereDelivered'
    BY <1>2 DEF History, AckedWereDelivered
  <2>3. PromptAreReady'
    BY <1>1, <1>2 DEF History, PromptAreReady, MessagesTypeOK
  <2>4. UndeliveredInOrder'
    <3>1. /\ Len(pending') = Len(pending) + 1 /\ Len(pending) \in Nat
          /\ \A i \in 1..Len(pending) : pending'[i] = pending[i]
          /\ pending'[Len(pending) + 1] = new
      BY <1>1, <1>2, AppendProperties, LenProperties DEF MessagesTypeOK
    <3>2. \A i \in 1..Len(pending) : pending[i] < new
      <4>1. \A i \in 1..Len(pending) : pending[i] \in ToSet(pending)
        BY LenProperties DEF ToSet, MessagesTypeOK
      <4>2. ToSet(pending) \subseteq 1..nextID
        BY DEF OnePlace, Held
      <4> QED
        BY <4>1, <4>2, <1>1 DEF new
    <3> QED
      BY <3>1, <3>2, <1>2 DEF History, UndeliveredInOrder
  <2>5. FirstDeliveryFIFO'
    <3>1. \A n \in Messages : deliveries[n] > 0 => ~(new < n)
      BY <1>1, QueueAssumption DEF History, FreshIds, Messages, MessagesTypeOK, new
    <3> QED
      BY <3>1, <1>2 DEF History, FirstDeliveryFIFO
  <2> QED
    BY <2>1, <2>2, <2>3, <2>4, <2>5 DEF History
<1> QED
  BY <1>5, <1>6, <1>8, <1>9

(***************************************************************************)
(* QAck moves a message from processing to the acknowledged ones.          *)
(***************************************************************************)
LEMMA QAckPreserves ==
  ASSUME MInv, NEW m \in Messages, QAck(m)
  PROVE  MInv'
<1> USE DEF MInv
<1>1. /\ m \in processing /\ processing' = processing \ {m}
      /\ acked' = acked \cup {m}
      /\ UNCHANGED <<pending, deadLetter, retries, delay, lease, nextID,
                     dropped, deliveries, nacked, prompt>>
  BY DEF QAck
<1>2. MessagesTypeOK'
  BY <1>1 DEF MessagesTypeOK
<1>3. OnePlace'
  <2>1. m \notin ToSet(pending) /\ m \notin ToSet(deadLetter) /\ m \notin dropped
    BY <1>1 DEF OnePlace, Held
  <2>2. Held' = Held \ {m} /\ m \in Held
    BY <1>1, <2>1 DEF Held
  <2> QED
    BY <1>1, <2>1, <2>2 DEF OnePlace
<1>4. RetryBudget'
  BY <1>1 DEF RetryBudget
<1>5. History'
  <2>1. deliveries[m] > 0
    BY <1>1, QueueAssumption DEF RetryBudget, MessagesTypeOK
  <2> QED
    BY <1>1, <2>1 DEF History, FreshIds, AckedWereDelivered, PromptAreReady,
                      UndeliveredInOrder, FirstDeliveryFIFO
<1> QED
  BY <1>2, <1>3, <1>4, <1>5

(***************************************************************************)
(* QNack puts a message back or dead-letters it, by the same comparison as *)
(* requeueExpiredLocked.                                                   *)
(***************************************************************************)
LEMMA QNackPreserves ==
  ASSUME MInv, NEW m \in Messages, QNack(m)
  PROVE  MInv'
<1> USE DEF MInv
<1>1. /\ m \in processing /\ processing' = processing \ {m}
      /\ retries' = [retries EXCEPT ![m] = @ + 1]
      /\ nacked' = nacked \cup {m}
      /\ UNCHANGED <<lease, nextID, acked, dropped, deliveries, prompt>>
  BY DEF QNack
<1>2. /\ MaxRetries \in Nat /\ retries[m] \in Nat
      /\ retries[m] + 1 = deliveries[m] /\ deliveries[m] <= MaxRetries
      /\ retries'[m] = retries[m] + 1
      /\ \A n \in Messages : n # m => retries'[n] = retries[n]
  BY <1>1, QueueAssumption DEF RetryBudget, MessagesTypeOK
<1>3. /\ m \notin ToSet(pending) /\ m \notin ToSet(deadLetter)
      /\ m \notin acked /\ m \notin dropped /\ m \in 1..nextID
  BY <1>1 DEF OnePlace, Held
<1>4. retries' \in [Messages -> 0..MaxRetries] /\ nacked' \subseteq Messages
  <2>1. retries \in [Messages -> 0..MaxRetries] /\ retries[m] + 1 \in 0..MaxRetries
    BY <1>2 DEF MessagesTypeOK
  <2> QED
    BY <1>1, <2>1 DEF MessagesTypeOK
<1>5. FreshIds' /\ AckedWereDelivered' /\ FirstDeliveryFIFO'
  <2>1. nextID \in Nat
    BY QueueAssumption DEF MessagesTypeOK
  <2>2. FreshIds'
    BY <1>1, <1>2, <1>3, <2>1 DEF History, FreshIds
  <2> QED
    BY <1>1, <2>2 DEF History, AckedWereDelivered, FirstDeliveryFIFO
<1>6. CASE Exhausted(m)
  <2>1. deadLetter' = Append(deadLetter, m) /\ pending' = pending /\ delay' = delay
    BY <1>6 DEF QNack
  <2>2. /\ deadLetter' \in Seq(Messages) /\ NoDuplicates(deadLetter')
        /\ ToSet(deadLetter') = ToSet(deadLetter) \cup {m}
    BY <2>1, <1>3, AppendElements DEF MessagesTypeOK, OnePlace
  <2>3. deliveries[m] = MaxRetries
    BY <1>2, <1>6 DEF Exhausted
  <2>4. MessagesTypeOK'
    BY <1>1, <1>4, <2>1, <2>2 DEF MessagesTypeOK
  <2>5. OnePlace'
    <3>1. Held' = Held
      BY <1>1, <2>1, <2>2 DEF Held
    <3> QED
      BY <1>1, <1>3, <2>1, <2>2, <3>1 DEF OnePlace
  <2>6. RetryBudget'
    BY <1>1, <1>2, <1>3, <2>1, <2>2, <2>3 DEF RetryBudget
  <2>7. PromptAreReady' /\ UndeliveredInOrder'
    BY <1>1, <2>1 DEF History, PromptAreReady, UndeliveredInOrder
  <2> QED
    BY <1>5, <2>4, <2>5, <2>6, <2>7 DEF History
<1>7. CASE ~Exhausted(m)
  <2>1. /\ pending' = Append(pending, m) /\ delay' = [delay EXCEPT ![m] = 0]
        /\ deadLetter' = deadLetter
    BY <1>7 DEF QNack
  <2>2. /\ pending' \in Seq(Messages) /\ NoDuplicates(pending')
        /\ ToSet(pending') = ToSet(pending) \cup {m}
    BY <2>1, <1>3, AppendElements DEF MessagesTypeOK, OnePlace
  <2>3. deliveries[m] < MaxRetries /\ deliveries[m] > 0
    BY <1>2, <1>7 DEF Exhausted
  <2>4. MessagesTypeOK'
    <3>1. delay' \in [Messages -> Nat]
      BY <2>1 DEF MessagesTypeOK
    <3> QED
      BY <1>1, <1>4, <2>1, <2>2, <3>1 DEF MessagesTypeOK
  <2>5. OnePlace'
    <3>1. Held' = Held
      BY <1>1, <2>1, <2>2 DEF Held
    <3> QED
      BY <1>1, <1>3, <2>1, <2>2, <3>1 DEF OnePlace
  <2>6. RetryBudget'
    BY <1>1, <1>2, <1>3, <2>1, <2>2, <2>3 DEF RetryBudget
  <2>7. PromptAreReady'
    BY <1>1, <2>1 DEF History, PromptAreReady, MessagesTypeOK
  <2>8. UndeliveredInOrder'
    <3>1. /\ Len(pending') = Len(pending) + 1 /\ Len(pending) \in Nat
          /\ \A i \in 1..Len(pending) : pending'[i] = pending[i]
          /\ pending'[Len(pending) + 1] = m
      BY <2>1, AppendProperties, LenProperties DEF MessagesTypeOK
    <3> QED
      BY <1>1, <2>3, <3>1 DEF History, UndeliveredInOrder
  <2> QED
    BY <1>5, <2>4, <2>5, <2>6, <2>7, <2>8 DEF History
<1> QED
  BY <1>6, <1>7

(***************************************************************************)
(* Deleting or flushing the queue moves everything it held to the dropped  *)
(* messages.                                                               *)
(***************************************************************************)
LEMMA ClearQueuePreserves ==
  ASSUME MInv, ClearQueue
  PROVE  MInv'
<1> USE DEF MInv
<1>1. /\ dropped' = dropped \cup Held
      /\ pending' = <<>> /\ processing' = {} /\ deadLetter' = <<>>
      /\ UNCHANGED <<retries, delay, lease, nextID, acked, deliveries, nacked, prompt>>
  BY DEF ClearQueue
<1>2. ToSet(pending') = {} /\ ToSet(deadLetter') = {}
  BY <1>1 DEF ToSet
<1>3. Held' = {} /\ Held \subseteq Messages
  BY <1>1, <1>2, QueueAssumption DEF Held, OnePlace, Messages, MessagesTypeOK
<1>4. MessagesTypeOK'
  BY <1>1, <1>3 DEF MessagesTypeOK
<1>5. OnePlace'
  <2>1. NoDuplicates(pending') /\ NoDuplicates(deadLetter')
    BY <1>1 DEF NoDuplicates
  <2> QED
    BY <1>1, <1>2, <1>3, <2>1 DEF OnePlace
<1>6. RetryBudget'
  BY <1>1, <1>2 DEF RetryBudget
<1>7. History'
  <2>1. UndeliveredInOrder'
    BY <1>1 DEF UndeliveredInOrder
  <2> QED
    BY <1>1, <2>1 DEF History, FreshIds, AckedWereDelivered, PromptAreReady,
                      FirstDeliveryFIFO
<1> QED
  BY <1>4, <1>5, <1>6, <1>7

(***************************************************************************)
(* The clock moves no message.                                             *)
(***************************************************************************)
LEMMA TickPreserves ==
  ASSUME MInv, Tick
  PROVE  MInv'
<1> USE DEF MInv
<1>1. /\ delay' = [m \in Messages |-> IF delay[m] > 0 THEN delay[m] - 1 ELSE 0]
      /\ lease' = [m \in Messages |-> IF lease[m] > -1 THEN lease[m] - 1 ELSE -1]
      /\ UNCHANGED <<pending, processing, deadLetter, retries, nextID,
                     acked, dropped, deliveries, nacked, prompt>>
  BY DEF Tick, historyVars
<1>2. MessagesTypeOK'
  <2>1. delay' \in [Messages -> Nat]
    BY <1>1 DEF MessagesTypeOK
  <2>2. lease' \in [Messages -> -1..AckTimeout]
    BY <1>1, QueueAssumption DEF MessagesTypeOK
  <2> QED
    BY <1>1, <2>1, <2>2 DEF MessagesTypeOK
<1>3. OnePlace' /\ RetryBudget'
  BY <1>1 DEF OnePlace, Held, RetryBudget
<1>4. History'
  <2>1. PromptAreReady'
    BY <1>1 DEF History, PromptAreReady, MessagesTypeOK
  <2> QED
    BY <1>1, <2>1 DEF History, FreshIds, AckedWereDelivered, UndeliveredInOrder,
                      FirstDeliveryFIFO
<1> QED
  BY <1>2, <1>3, <1>4

-----------------------------------------------------------------------------
(***************************************************************************)
(* The empty queue satisfies the invariant.                                *)
(***************************************************************************)
LEMMA InitInv == Init => Inv
<1> SUFFICES ASSUME Init PROVE Inv
  OBVIOUS
<1> USE QueueAssumption
<1>1. MessagesTypeOK
  BY DEF Init, MessagesTypeOK, Messages
<1>2. WaitersTypeOK
  BY DEF Init, WaitersTypeOK
<1>3. ToSet(pending) = {} /\ ToSet(deadLetter) = {} /\ 1..0 = {}
  BY DEF Init, ToSet
<1>4. OnePlace
  BY <1>3 DEF Init, OnePlace, Held, NoDuplicates
<1>5. RetryBudget
  BY <1>3 DEF Init, RetryBudget
<1>6. History
  BY DEF Init, History, FreshIds, AckedWereDelivered, PromptAreReady,
         UndeliveredInOrder, FirstDeliveryFIFO
<1> QED
  BY <1>1, <1>2, <1>4, <1>5, <1>6 DEF Inv, MInv

(***************************************************************************)
(* The messages keep their invariant in every step: the steps of a blocked *)
(* call that only move its program counter leave them alone.               *)
(***************************************************************************)
LEMMA NextMInv == MInv /\ [Next]_vars => MInv'
<1> SUFFICES ASSUME MInv, [Next]_vars PROVE MInv'
  OBVIOUS
<1>1. ASSUME UNCHANGED <<queueVars, historyVars>> PROVE MInv'
  BY <1>1 DEF queueVars, historyVars, MInv, MessagesTypeOK, OnePlace, Held, RetryBudget,
       History, FreshIds, AckedWereDelivered, PromptAreReady, UndeliveredInOrder,
       FirstDeliveryFIFO
<1>2. CASE \E d \in Delays : Enqueue(d)
  BY <1>2, EnqueuePreserves
<1>3. ASSUME NEW c \in Consumers,
             \/ DequeueTakes(c) \/ DequeueGivesUp(c) \/ DequeueBlocks(c)
             \/ Wake(c) \/ TimeOut(c) \/ Rescan(c)
      PROVE  MInv'
  <2>1. CASE TakeFirst
    BY <2>1, TakeFirstPreserves
  <2>2. CASE TakeNone
    BY <2>2, TakeNonePreserves
  <2>3. CASE UNCHANGED <<queueVars, historyVars>>
    BY <2>3, <1>1
  <2> QED
    BY <1>3, <2>1, <2>2, <2>3
       DEF DequeueTakes, DequeueGivesUp, DequeueBlocks, Wake, TimeOut, Rescan
<1>4. CASE \E m \in Messages : QAck(m) \/ QNack(m)
  BY <1>4, QAckPreserves, QNackPreserves
<1>5. CASE deleteKeyLocked \/ FlushDB
  BY <1>5, ClearQueuePreserves DEF deleteKeyLocked, FlushDB
<1>6. CASE Tick
  BY <1>6, TickPreserves
<1>7. CASE UNCHANGED vars
  BY <1>7, <1>1 DEF vars
<1> QED
  BY <1>2, <1>3, <1>4, <1>5, <1>6, <1>7 DEF Next

(***************************************************************************)
(* No step creates a waiter beyond the bound or names one that was not     *)
(* created.                                                                *)
(***************************************************************************)
LEMMA NextWaiters == WaitersTypeOK /\ [Next]_vars => WaitersTypeOK'
<1> SUFFICES ASSUME WaitersTypeOK, [Next]_vars PROVE WaitersTypeOK'
  OBVIOUS
<1>1. ASSUME UNCHANGED waitVars PROVE WaitersTypeOK'
  BY <1>1 DEF waitVars, WaitersTypeOK
<1>2. ASSUME NEW d \in Delays, Enqueue(d) PROVE WaitersTypeOK'
  <2>1. CASE queueWaits = <<>>
    BY <1>2, <2>1 DEF Enqueue, WaitersTypeOK
  <2>2. CASE queueWaits # <<>>
    <3>1. Head(queueWaits) \in Waiters /\ Tail(queueWaits) \in Seq(Waiters)
      BY <2>2, HeadTailProperties DEF WaitersTypeOK
    <3> QED
      BY <1>2, <2>2, <3>1 DEF Enqueue, WaitersTypeOK
  <2> QED
    BY <2>1, <2>2
<1>3. ASSUME NEW c \in Consumers,
             \/ DequeueTakes(c) \/ DequeueGivesUp(c) \/ DequeueBlocks(c)
             \/ Wake(c) \/ TimeOut(c) \/ Rescan(c)
      PROVE  WaitersTypeOK'
  <2>1. CASE DequeueTakes(c) \/ DequeueGivesUp(c)
    BY <2>1, <1>1 DEF DequeueTakes, DequeueGivesUp
  <2>2. CASE DequeueBlocks(c)
    <3>1. /\ nextWaiter + 1 \in Waiters /\ nextWaiter + 1 \in 0..MaxWaiters
      BY <2>2, QueueAssumption DEF DequeueBlocks, WaitersTypeOK, Waiters
    <3>2. Append(queueWaits, nextWaiter + 1) \in Seq(Waiters)
      BY <3>1, AppendProperties DEF WaitersTypeOK
    <3>3. waiter' \in [Consumers -> 0..MaxWaiters]
      BY <2>2, <3>1 DEF DequeueBlocks, WaitersTypeOK
    <3>4. pc' \in [Consumers -> {"idle", "select", "rescan"}]
      BY <2>2 DEF DequeueBlocks, WaitersTypeOK
    <3> QED
      BY <2>2, <3>1, <3>2, <3>3, <3>4 DEF DequeueBlocks, WaitersTypeOK
  <2>3. CASE Wake(c) \/ TimeOut(c)
    <3>1. pc' \in [Consumers -> {"idle", "select", "rescan"}]
      BY <2>3 DEF Wake, TimeOut, WaitersTypeOK
    <3> QED
      BY <2>3, <3>1 DEF Wake, TimeOut, WaitersTypeOK
  <2>4. CASE Rescan(c)
    <3>1. pc' \in [Consumers -> {"idle", "select", "rescan"}]
      BY <2>4 DEF Rescan, WaitersTypeOK
    <3>2. waiter' \in [Consumers -> 0..MaxWaiters]
      BY <2>4, QueueAssumption DEF Rescan, WaitersTypeOK
    <3> QED
      BY <2>4, <3>1, <3>2 DEF Rescan, WaitersTypeOK
  <2> QED
    BY <1>3, <2>1, <2>2, <2>3, <2>4
<1>4. CASE \E m \in Messages : QAck(m) \/ QNack(m)
  BY <1>4, <1>1 DEF QAck, QNack
<1>5. CASE deleteKeyLocked
  BY <1>5, <1>1 DEF deleteKeyLocked
<1>6. CASE FlushDB
  BY <1>6 DEF FlushDB, WaitersTypeOK
<1>7. CASE Tick
  BY <1>7, <1>1 DEF Tick
<1>8. CASE UNCHANGED vars
  BY <1>8, <1>1 DEF vars
<1> QED
  BY <1>2, <1>3, <1>4, <1>5, <1>6, <1>7, <1>8 DEF Next

(***************************************************************************)
(* The inductive invariant holds in every reachable state.                 *)
(***************************************************************************)
THEOREM QueueInvariant == Spec => []Inv
<1>1. Inv /\ [Next]_vars => Inv'
  BY NextMInv, NextWaiters DEF Inv
<1> QED
  BY InitInv, <1>1, PTL DEF Spec

(***************************************************************************)
(* Type correctness of the queue and of its waiters (queue.go).            *)
(***************************************************************************)
THEOREM QueueTypeCorrect == Spec => []TypeOK
<1>1. Inv => TypeOK
  BY DEF Inv, MInv, TypeOK
<1> QED
  BY QueueInvariant, <1>1, PTL

(***************************************************************************)
(* No critical section of the queue loses or duplicates a message.         *)
(***************************************************************************)
THEOREM NoMessageLost == Spec => []OnePlace
<1>1. Inv => OnePlace
  BY DEF Inv, MInv
<1> QED
  BY QueueInvariant, <1>1, PTL

(***************************************************************************)
(* The retry counter and the dead-letter list agree with the deliveries    *)
(* actually made (QNack, requeueExpiredLocked).                            *)
(***************************************************************************)
THEOREM RetriesAreCounted == Spec => []RetryBudget
<1>1. Inv => RetryBudget
  BY DEF Inv, MInv
<1> QED
  BY QueueInvariant, <1>1, PTL

(***************************************************************************)
(* First deliveries of undelayed messages are in the order of Enqueue.     *)
(***************************************************************************)
THEOREM FirstDeliveriesInOrder == Spec => []FirstDeliveryFIFO
<1>1. Inv => FirstDeliveryFIFO
  BY DEF Inv, MInv, History
<1> QED
  BY QueueInvariant, <1>1, PTL

-----------------------------------------------------------------------------
(***************************************************************************)
(* A message waits for redelivery only after its deadline or a QNACK.      *)
(***************************************************************************)
Released ==
  \A m \in ToSet(pending) : deliveries[m] > 0 => lease[m] < 0 \/ m \in nacked

(***************************************************************************)
(* A message that was handed out is in pending only if it was given back   *)
(* or its deadline has passed.                                             *)
(***************************************************************************)
LEMMA NextReleased == Inv /\ Released /\ [Next]_vars => Released'
<1> SUFFICES ASSUME Inv, Released, [Next]_vars PROVE Released'
  OBVIOUS
<1> USE DEF Inv, MInv
<1>0. ToSet(pending) \subseteq Messages
  BY ElementOfSeq, LenProperties DEF MessagesTypeOK, ToSet
<1>1. ASSUME UNCHANGED <<pending, deliveries, lease, nacked>> PROVE Released'
  BY <1>1 DEF Released
<1>2. CASE TakeFirst
  <2>1. PICK m \in ToSet(pending) \cup ToRetry :
          /\ ToSet(pending') = (ToSet(pending) \cup ToRetry) \ {m}
          /\ lease' = [lease EXCEPT ![m] = AckTimeout]
          /\ deliveries' = [deliveries EXCEPT ![m] = @ + 1]
          /\ nacked' = nacked \ {m}
    BY <1>2, TakeFirstEffect
  <2>2. \A n \in ToRetry : lease[n] < 0 /\ n \in Messages
    BY DEF ToRetry, Expired, MessagesTypeOK
  <2> QED
    BY <2>1, <2>2, <1>0 DEF Released, MessagesTypeOK
<1>3. CASE TakeNone
  BY <1>3, <1>1 DEF TakeNone, historyVars
<1>4. ASSUME NEW d \in Delays, Enqueue(d) PROVE Released'
  <2>1. /\ nextID + 1 \in Messages /\ nextID + 1 > nextID
    BY <1>4, QueueAssumption DEF Enqueue, Messages, MessagesTypeOK
  <2>2. ToSet(pending') = ToSet(pending) \cup {nextID + 1}
    BY <1>4, <2>1, AppendElements DEF Enqueue, MessagesTypeOK
  <2>3. deliveries[nextID + 1] = 0
    BY <2>1 DEF History, FreshIds
  <2> QED
    BY <1>4, <2>2, <2>3 DEF Enqueue, Released
<1>5. ASSUME NEW m \in Messages, QNack(m) PROVE Released'
  <2>1. ToSet(pending') \subseteq ToSet(pending) \cup {m}
    BY <1>5, AppendElements DEF QNack, MessagesTypeOK
  <2> QED
    BY <1>5, <2>1 DEF QNack, Released
<1>6. CASE ClearQueue
  BY <1>6 DEF ClearQueue, Released, ToSet
<1>7. CASE Tick
  BY <1>7, <1>0, QueueAssumption DEF Tick, historyVars, Released, MessagesTypeOK
<1>8. CASE UNCHANGED <<queueVars, historyVars>>
  BY <1>8, <1>1 DEF queueVars, historyVars
<1> QED
  BY <1>1, <1>2, <1>3, <1>4, <1>5, <1>6, <1>7, <1>8
     DEF Next, DequeueTakes, DequeueGivesUp, DequeueBlocks, Wake, TimeOut, Rescan,
         QAck, deleteKeyLocked, FlushDB, vars

(***************************************************************************)
(* Only the pass of Dequeue that finds a message counts a delivery, and it *)
(* finds it released.                                                      *)
(***************************************************************************)
LEMMA NextRedelivery ==
  Inv /\ Released /\ [Next]_vars =>
    [\A m \in Messages : (deliveries'[m] > deliveries[m] /\ deliveries[m] > 0)
                           => (lease[m] < 0 \/ m \in nacked)]_vars
<1> SUFFICES ASSUME Inv, Released, [Next]_vars, NEW m \in Messages,
                    deliveries'[m] > deliveries[m], deliveries[m] > 0
             PROVE  lease[m] < 0 \/ m \in nacked
  OBVIOUS
<1> USE DEF Inv, MInv
<1>1. deliveries' # deliveries
  BY DEF MessagesTypeOK
<1>2. TakeFirst
  BY <1>1 DEF Next, DequeueTakes, DequeueGivesUp, DequeueBlocks, Wake, TimeOut, Rescan,
              TakeNone, QAck, QNack, Enqueue, ClearQueue, deleteKeyLocked, FlushDB, Tick,
              vars, historyVars
<1>3. PICK n \in ToSet(pending) \cup ToRetry :
        deliveries' = [deliveries EXCEPT ![n] = @ + 1]
  BY <1>2, TakeFirstEffect
<1>4. m = n
  BY <1>3 DEF MessagesTypeOK
<1> QED
  BY <1>3, <1>4 DEF Released, ToRetry, Expired

(***************************************************************************)
(* A message is handed out again only after its deadline or a QNACK.       *)
(***************************************************************************)
THEOREM RedeliveryIsDue == Spec => NoHastyRedelivery
<1>1. Init => Released
  BY DEF Init, Released, ToSet
<1> QED
  BY QueueInvariant, <1>1, NextReleased, NextRedelivery, PTL DEF Spec, NoHastyRedelivery

-----------------------------------------------------------------------------
(***************************************************************************)
(* The status of a message is read off the place it is in.                 *)
(***************************************************************************)
StatusByPlace ==
  \A m \in Messages :
    /\ m > nextID => status[m] = "absent"
    /\ m \in ToSet(pending) => status[m] = "pending"
    /\ m \in processing => status[m] = "processing"
    /\ m \in ToSet(deadLetter) => status[m] = "dead"
    /\ m \in acked => status[m] = "acked"
    /\ m \in dropped => status[m] = "dropped"
    /\ \/ m > nextID \/ m \in ToSet(pending) \/ m \in processing
       \/ m \in ToSet(deadLetter) \/ m \in acked \/ m \in dropped

(***************************************************************************)
(* The place a message is in determines its status in the abstract         *)
(* specification.                                                          *)
(***************************************************************************)
LEMMA PlaceGivesStatus == Inv => StatusByPlace
<1> SUFFICES ASSUME Inv, NEW m \in Messages
             PROVE
    /\ m > nextID => status[m] = "absent"
    /\ m \in ToSet(pending) => status[m] = "pending"
    /\ m \in processing => status[m] = "processing"
    /\ m \in ToSet(deadLetter) => status[m] = "dead"
    /\ m \in acked => status[m] = "acked"
    /\ m \in dropped => status[m] = "dropped"
    /\ \/ m > nextID \/ m \in ToSet(pending) \/ m \in processing
       \/ m \in ToSet(deadLetter) \/ m \in acked \/ m \in dropped
  BY DEF StatusByPlace
<1> USE DEF Inv, MInv
<1>1. nextID \in Nat /\ m \in Int /\ m >= 1
  BY QueueAssumption DEF MessagesTypeOK, Messages
<1>2. m > nextID <=> m \notin Held \cup acked \cup dropped
  BY <1>1 DEF OnePlace
<1>3. status[m] = IF m > nextID THEN "absent"
                  ELSE IF m \in processing THEN "processing"
                  ELSE IF m \in acked THEN "acked"
                  ELSE IF m \in dropped THEN "dropped"
                  ELSE IF m \in ToSet(deadLetter) THEN "dead"
                  ELSE "pending"
  BY DEF status
<1> QED
  BY <1>2, <1>3 DEF OnePlace, Held

(***************************************************************************)
(* In every step of the queue each message makes one move of its life.     *)
(***************************************************************************)
LEMMA StepMoves ==
  ASSUME Inv, Inv', StatusByPlace, StatusByPlace', [Next]_vars, NEW m \in Messages
  PROVE  Lifecycle!Move(m)
<1>inv. MInv /\ MessagesTypeOK /\ RetryBudget
  BY DEF Inv, MInv
<1>0. /\ nextID \in Nat /\ m \in Int /\ MaxRetries \in Nat
      /\ retries[m] \in Nat /\ deliveries[m] \in Nat
      /\ deliveries \in [Messages -> 0..MaxRetries]
  <2>1. m \in 1..MaxMsgs /\ nextID \in 0..MaxMsgs /\ MaxMsgs \in Nat /\ MaxRetries \in Nat
    BY <1>inv, QueueAssumption DEF MessagesTypeOK, Messages
  <2>2. /\ deliveries \in [Messages -> 0..MaxRetries]
        /\ retries[m] \in 0..MaxRetries /\ deliveries[m] \in 0..MaxRetries
    BY <1>inv DEF MessagesTypeOK
  <2> QED
    BY <2>1, <2>2
<1>00. /\ m \in processing => retries[m] + 1 = deliveries[m]
       /\ m \in ToSet(pending) => deliveries[m] < MaxRetries
  BY <1>inv DEF RetryBudget
<1>1. ASSUME UNCHANGED <<pending, processing, deadLetter, acked, dropped, nextID,
                         deliveries>>
      PROVE  Lifecycle!Move(m)
  BY <1>1 DEF Lifecycle!Move, Lifecycle!Stay, status
<1>2. CASE TakeFirst
  <2>1. PICK n \in ToSet(pending) \cup ToRetry :
          /\ ToSet(pending') = (ToSet(pending) \cup ToRetry) \ {n}
          /\ ToSet(deadLetter') = ToSet(deadLetter) \cup ToBury
          /\ processing' = (processing \ Expired) \cup {n}
          /\ deliveries' = [deliveries EXCEPT ![n] = @ + 1]
          /\ UNCHANGED <<nextID, acked, dropped>>
    BY <1>2, <1>inv, TakeFirstEffect
  <2>2. /\ ToRetry \cup ToBury = Expired /\ Expired \subseteq processing
    BY DEF ToRetry, ToBury, Expired
  <2>3. /\ m \in ToRetry => deliveries[m] < MaxRetries
        /\ m \in ToBury => deliveries[m] >= MaxRetries
    BY <1>0, <1>00, <2>2 DEF ToRetry, ToBury, Exhausted
  <2>4. CASE m = n
    <3>1. /\ status[m] \in {"pending", "processing"} /\ deliveries[m] < MaxRetries
      BY <2>1, <2>2, <2>3, <2>4, <1>00 DEF StatusByPlace
    <3>2. status'[m] = "processing" /\ deliveries'[m] = deliveries[m] + 1
      BY <2>1, <2>4, <1>0 DEF StatusByPlace
    <3> QED
      BY <3>1, <3>2 DEF Lifecycle!Move, Lifecycle!HandOut
  <2>5. CASE m # n /\ m \in Expired
    <3>1. deliveries'[m] = deliveries[m]
      BY <2>1, <2>5, <1>0
    <3>2. status[m] = "processing"
      BY <2>2, <2>5 DEF StatusByPlace
    <3>3. status'[m] = IF deliveries[m] < MaxRetries THEN "pending" ELSE "dead"
      BY <2>1, <2>2, <2>3, <2>5, <1>0 DEF StatusByPlace
    <3> QED
      BY <3>1, <3>2, <3>3 DEF Lifecycle!Move, Lifecycle!GiveBack
  <2>6. CASE m # n /\ m \notin Expired
    <3>1. deliveries'[m] = deliveries[m]
      BY <2>1, <2>6, <1>0
    <3>2. status'[m] = status[m]
      BY <2>1, <2>2, <2>6 DEF status
    <3> QED
      BY <3>1, <3>2 DEF Lifecycle!Move, Lifecycle!Stay
  <2> QED
    BY <2>4, <2>5, <2>6
<1>3. CASE TakeNone
  <2>1. /\ ToSet(deadLetter') = ToSet(deadLetter) \cup ToBury
        /\ processing' = processing \ ToBury
        /\ UNCHANGED <<pending, nextID, acked, dropped, deliveries>>
    BY <1>3, <1>inv, TakeNoneEffect DEF historyVars
  <2>2. /\ ToBury \subseteq processing
        /\ m \in ToBury => deliveries[m] >= MaxRetries
    BY <1>0, <1>00 DEF ToBury, Expired, Exhausted
  <2>3. CASE m \in ToBury
    <3>1. status[m] = "processing" /\ status'[m] = "dead"
      BY <2>1, <2>2, <2>3 DEF StatusByPlace
    <3> QED
      BY <3>1, <2>1, <2>2, <2>3, <1>0 DEF Lifecycle!Move, Lifecycle!GiveBack
  <2>4. CASE m \notin ToBury
    <3>1. status'[m] = status[m]
      BY <2>1, <2>4 DEF status
    <3> QED
      BY <3>1, <2>1 DEF Lifecycle!Move, Lifecycle!Stay
  <2> QED
    BY <2>3, <2>4
<1>4. ASSUME NEW d \in Delays, Enqueue(d) PROVE Lifecycle!Move(m)
  <2>1. /\ nextID' = nextID + 1 /\ pending' = Append(pending, nextID + 1)
        /\ nextID + 1 \in Messages
        /\ UNCHANGED <<processing, deadLetter, acked, dropped, deliveries>>
    BY <1>4, <1>inv, QueueAssumption DEF Enqueue, Messages, MessagesTypeOK
  <2>2. ToSet(pending') = ToSet(pending) \cup {nextID + 1}
    BY <2>1, <1>inv, AppendElements DEF MessagesTypeOK
  <2>3. CASE m = nextID + 1
    <3>1. status[m] = "absent" /\ status'[m] = "pending"
      BY <1>0, <2>2, <2>3 DEF StatusByPlace
    <3> QED
      BY <3>1, <2>1 DEF Lifecycle!Move, Lifecycle!Enter
  <2>4. CASE m # nextID + 1
    <3>1. status'[m] = status[m]
      BY <1>0, <2>1, <2>4 DEF status
    <3> QED
      BY <3>1, <2>1 DEF Lifecycle!Move, Lifecycle!Stay
  <2> QED
    BY <2>3, <2>4
<1>5. ASSUME NEW n \in Messages, QAck(n) PROVE Lifecycle!Move(m)
  <2>1. CASE m = n
    <3>1. status[m] = "processing" /\ status'[m] = "acked"
      BY <1>5, <2>1 DEF StatusByPlace, QAck
    <3> QED
      BY <3>1, <1>5 DEF Lifecycle!Move, Lifecycle!Finish, QAck
  <2>2. CASE m # n
    <3>1. status'[m] = status[m]
      BY <1>5, <2>2 DEF status, QAck
    <3> QED
      BY <3>1, <1>5 DEF Lifecycle!Move, Lifecycle!Stay, QAck
  <2> QED
    BY <2>1, <2>2
<1>6. ASSUME NEW n \in Messages, QNack(n) PROVE Lifecycle!Move(m)
  <2>1. /\ n \in processing /\ processing' = processing \ {n}
        /\ UNCHANGED <<nextID, acked, dropped, deliveries>>
        /\ ToSet(deadLetter') = IF Exhausted(n) THEN ToSet(deadLetter) \cup {n}
                                ELSE ToSet(deadLetter)
        /\ ToSet(pending') = IF Exhausted(n) THEN ToSet(pending)
                             ELSE ToSet(pending) \cup {n}
    <3>1. /\ ToSet(Append(pending, n)) = ToSet(pending) \cup {n}
          /\ ToSet(Append(deadLetter, n)) = ToSet(deadLetter) \cup {n}
      BY <1>inv, AppendElements DEF MessagesTypeOK
    <3> QED
      BY <1>6, <3>1 DEF QNack
  <2>2. CASE m = n
    <3>1. Exhausted(m) <=> ~(deliveries[m] < MaxRetries)
      BY <2>1, <2>2, <1>0, <1>00 DEF Exhausted
    <3>2. /\ status[m] = "processing"
          /\ status'[m] = IF deliveries[m] < MaxRetries THEN "pending" ELSE "dead"
      BY <2>1, <2>2, <3>1 DEF StatusByPlace
    <3> QED
      BY <3>2, <2>1 DEF Lifecycle!Move, Lifecycle!GiveBack
  <2>3. CASE m # n
    <3>1. status'[m] = status[m]
      BY <2>1, <2>3 DEF status
    <3> QED
      BY <3>1, <2>1 DEF Lifecycle!Move, Lifecycle!Stay
  <2> QED
    BY <2>2, <2>3
<1>7. CASE ClearQueue
  <2>1. dropped' = dropped \cup Held /\ UNCHANGED <<nextID, acked, deliveries>>
    BY <1>7 DEF ClearQueue
  <2>2. CASE m \in Held
    <3>1. status[m] \in {"pending", "processing", "dead"} /\ status'[m] = "dropped"
      BY <2>1, <2>2 DEF StatusByPlace, Held
    <3> QED
      BY <3>1, <2>1 DEF Lifecycle!Move, Lifecycle!Drop
  <2>3. CASE m \notin Held
    <3>1. status'[m] = status[m]
      BY <2>1, <2>3 DEF StatusByPlace, Held
    <3> QED
      BY <3>1, <2>1 DEF Lifecycle!Move, Lifecycle!Stay
  <2> QED
    BY <2>2, <2>3
<1> QED
  BY <1>1, <1>2, <1>3, <1>4, <1>5, <1>6, <1>7
     DEF Next, DequeueTakes, DequeueGivesUp, DequeueBlocks, Wake, TimeOut, Rescan,
         deleteKeyLocked, FlushDB, Tick, vars, queueVars, historyVars

(***************************************************************************)
(* The queue of queue.go implements the life of a message, for any number  *)
(* of messages, consumers, retries and delays.                             *)
(***************************************************************************)
THEOREM QueueImplementsLifecycle == Spec => ImplementsLifecycle
<1>1. Init => Lifecycle!Init
  <2> SUFFICES ASSUME Init PROVE Lifecycle!Init
    OBVIOUS
  <2>1. \A m \in Messages : m > nextID
    BY QueueAssumption DEF Init, Messages
  <2> QED
    BY <2>1 DEF Init, Lifecycle!Init, status
<1>2. Inv /\ Inv' /\ StatusByPlace /\ StatusByPlace' /\ [Next]_vars
        => [Lifecycle!Next]_(Lifecycle!vars)
  <2> SUFFICES ASSUME Inv, Inv', StatusByPlace, StatusByPlace', [Next]_vars
               PROVE  Lifecycle!Next
    OBVIOUS
  <2>1. deliveries' \in [Messages -> Nat]
    <3>1. deliveries' \in [Messages -> 0..MaxRetries]
      BY DEF Inv, MInv, MessagesTypeOK
    <3> QED
      BY <3>1
  <2>2. status' \in [Messages -> Lifecycle!Statuses]
    BY DEF status, Lifecycle!Statuses
  <2> QED
    BY <2>1, <2>2, StepMoves DEF Lifecycle!Next
<1> QED
  BY QueueInvariant, PlaceGivesStatus, <1>1, <1>2, PTL
     DEF Spec, ImplementsLifecycle, Lifecycle!Spec
=============================================================================
