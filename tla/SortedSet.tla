------------------------------ MODULE SortedSet ------------------------------
(***************************************************************************)
(* Sorted sets (internal/store/sortedset.go): a map of scores beside a     *)
(* slice kept in the order of (score, member) and searched by bisection.   *)
(*                                                                         *)
(* Scores are numbers (a NaN, which no comparison places, is left out);    *)
(* members are numbers too, in the order of their names.                   *)
(***************************************************************************)
EXTENDS Integers, Sequences, FiniteSets, SequencesExt

CONSTANTS
  Members,       \* what is put in
  Scores         \* the scores they may have

ASSUME SortedSetAssumption == Members \subseteq Nat /\ Scores \subseteq Int

VARIABLES
  scores,        \* SortedSet.scores
  ordered        \* SortedSet.ordered

zsetVars == <<scores, ordered>>

SortedSetInit == scores = [m \in {} |-> 0] /\ ordered = <<>>

(***************************************************************************)
(* sort.Search: bisection for the first of the n positions, counted from   *)
(* 0, at which the condition holds; hits are the positions where it does.  *)
(***************************************************************************)
Search(n, hits) ==
  LET bisect[r \in (0..n) \X (0..n)] ==
        LET i == r[1]
            j == r[2]
            h == (i + j) \div 2 IN
        IF i >= j THEN i ELSE IF h \in hits THEN bisect[<<i, h>>] ELSE bisect[<<h + 1, j>>]
  IN bisect[<<0, n>>]

findPos(q, x, m) ==
  Search(Len(q), {i \in 0..(Len(q) - 1) :
                    IF q[i + 1].score # x THEN q[i + 1].score > x
                    ELSE q[i + 1].member >= m})

insertOrdered(q, m, x) == InsertAt(q, findPos(q, x, m) + 1, [member |-> m, score |-> x])

removeOrdered(q, m, x) ==
  LET pos == findPos(q, x, m) IN
  IF pos < Len(q) /\ q[pos + 1].member = m THEN RemoveAt(q, pos + 1) ELSE q

Scored(m, x) == [k \in DOMAIN scores \cup {m} |-> IF k = m THEN x ELSE scores[k]]
Unscored(ms) == [k \in DOMAIN scores \ ms |-> scores[k]]

-----------------------------------------------------------------------------
\* Mutant of ZAdd: the old position is looked up with the new score.
ZAddSearchesNew(m, x) ==
  /\ m \in DOMAIN scores => scores[m] # x
  /\ scores' = Scored(m, x)
  /\ ordered' = insertOrdered(IF m \in DOMAIN scores THEN removeOrdered(ordered, m, x)
                              ELSE ordered, m, x)

ZAdd(m, x) ==
  /\ m \in DOMAIN scores => scores[m] # x
  /\ scores' = Scored(m, x)
  /\ ordered' = insertOrdered(IF m \in DOMAIN scores THEN removeOrdered(ordered, m, scores[m])
                              ELSE ordered, m, x)

ZRem(m) ==
  /\ m \in DOMAIN scores
  /\ scores' = Unscored({m})
  /\ ordered' = removeOrdered(ordered, m, scores[m])

Popped(count) == IF count > Len(ordered) THEN Len(ordered) ELSE count
MembersOf(q) == {q[i].member : i \in DOMAIN q}

PopMin(count) ==
  /\ ordered # <<>>
  /\ scores' = Unscored(MembersOf(SubSeq(ordered, 1, Popped(count))))
  /\ ordered' = SubSeq(ordered, Popped(count) + 1, Len(ordered))

PopMax(count) ==
  LET start == Len(ordered) - Popped(count) IN
  /\ ordered # <<>>
  /\ scores' = Unscored(MembersOf(SubSeq(ordered, start + 1, Len(ordered))))
  /\ ordered' = SubSeq(ordered, 1, start)

SortedSetNext ==
  \/ \E m \in Members : ZRem(m) \/ \E x \in Scores : ZAdd(m, x)
  \/ \E count \in 1..(Len(ordered) + 1) : PopMin(count) \/ PopMax(count)

SortedSetSpec == SortedSetInit /\ [][SortedSetNext]_zsetVars

-----------------------------------------------------------------------------
(***************************************************************************)
(* Reads.  LIMIT: skip offset members, then take count of them (0: all).   *)
(***************************************************************************)
Limited(q, offset, count) ==
  SubSeq(q, offset + 1, IF count = 0 \/ offset + count > Len(q) THEN Len(q)
                        ELSE offset + count)

RangeByScore(min, max, offset, count) ==
  LET start == Search(Len(ordered), {i \in 0..(Len(ordered) - 1) : ordered[i + 1].score >= min})
      stop == CHOOSE n \in start..Len(ordered) :
                /\ \A i \in (start + 1)..n : ordered[i].score <= max
                /\ n < Len(ordered) => ordered[n + 1].score > max
  IN Limited(SubSeq(ordered, start + 1, stop), offset, count)

ZRank(m) == findPos(ordered, scores[m], m)

(***************************************************************************)
(* The slice is as long as the map, and holds members with scores.         *)
(***************************************************************************)
SortedSetTypeOK ==
  /\ DOMAIN scores \subseteq Members /\ \A m \in DOMAIN scores : scores[m] \in Scores
  /\ ordered \in Seq([member : Members, score : Scores])
  /\ Len(ordered) = Cardinality(DOMAIN scores)

(***************************************************************************)
(* However members are added, rescored and popped, the slice lists exactly *)
(* the members of the map with their scores, in strictly rising order, and *)
(* the rank found by bisection is the number of members that come before.  *)
(***************************************************************************)
Before(a, b) == scores[a] < scores[b] \/ (scores[a] = scores[b] /\ a < b)

IndexExact ==
  \A m \in DOMAIN scores :
    LET r == Cardinality({k \in DOMAIN scores : Before(k, m)}) IN
    ordered[r + 1] = [member |-> m, score |-> scores[m]] /\ ZRank(m) = r

(***************************************************************************)
(* ZRANGEBYSCORE returns the members whose score lies between the bounds,  *)
(* less the first offset of them, and count of the rest; an offset and a   *)
(* count beyond the length of the set included.                            *)
(***************************************************************************)
ScoreRangeExact ==
  \A min, max \in Scores : \A offset, count \in 0..(Len(ordered) + 1) :
    LET within == {m \in DOMAIN scores : min <= scores[m] /\ scores[m] <= max}
        place(m) == Cardinality({k \in within : Before(k, m)})
        got == RangeByScore(min, max, offset, count) IN
    /\ MembersOf(got) = {m \in within : /\ place(m) >= offset
                                        /\ count = 0 \/ place(m) < offset + count}
    /\ \A i, j \in DOMAIN got : i < j => Before(got[i].member, got[j].member)

(***************************************************************************)
(* Types, an index that is the map in order, and exact ranges.             *)
(***************************************************************************)
SortedSetInv == SortedSetTypeOK /\ IndexExact /\ ScoreRangeExact
=============================================================================
