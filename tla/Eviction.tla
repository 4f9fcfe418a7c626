------------------------------ MODULE Eviction -------------------------------
(***************************************************************************)
(* Eviction (EvictIfNeeded and its helpers, internal/store/store.go).      *)
(*                                                                         *)
(* The memory estimate is kept between calls and renewed now and then, so  *)
(* that EvictIfNeeded may decide on a figure that is out of date.          *)
(* accessTime is what LRU looks at: it also has keys that are gone, since  *)
(* deleteKeyLocked removes a key from it and then touches the key, and     *)
(* since Get touches the key after it has let go of Store.mu.  It is a     *)
(* sequence here, least recently used first.                               *)
(*                                                                         *)
(* EvictIfNeeded looks at maxmemory before it takes Store.mu, so that any  *)
(* command, a new maxmemory of 0 included, may come between ("checked").   *)
(* One step of its loop is a step here: Store.mu is held ("evicting"),     *)
(* only a Get that has already read can come in between.                   *)
(***************************************************************************)
EXTENDS Naturals, Sequences, FiniteSets, SequencesExt

CONSTANTS
  EvictKeys,     \* the keys
  Sizes,         \* the memory a key may take
  Limits,        \* values of maxmemory, 0 is none
  RefreshEvery,  \* estimate calls until it is renewed: 1000 in the code
  SampleSize     \* keys that LRU samples: 5 in the code

Policies == {"noeviction", "allkeys-random", "volatile-random", "allkeys-lru"}

ASSUME EvictionAssumption ==
  /\ IsFiniteSet(EvictKeys) /\ Sizes \subseteq Nat \ {0} /\ 0 \in Limits /\ Limits \subseteq Nat
  /\ RefreshEvery \in Nat \ {0} /\ SampleSize \in Nat \ {0}

VARIABLES
  size,          \* memory of each key, 0 if it is not there
  volatile,      \* keys with an expiry time
  accessTime,    \* Store.accessTime, least recently used first
  memEstimate,   \* Store.memEstimate, 0 is unknown
  ops,           \* Store.opsSinceEstimate
  maxMemory,     \* Store.maxMemory
  policy,        \* Store.evictPolicy
  checked,       \* a call of EvictIfNeeded has seen a limit and waits for Store.mu
  evicting,      \* EvictIfNeeded is in its loop
  reading,       \* <<>>, or <<the key that a Get has read and not yet touched>>
  evicted,       \* history: the call has evicted
  wasted         \* history: keys deleted by it although memory was within the limit

configVars == <<maxMemory, policy>>
evictVars == <<size, volatile, accessTime, memEstimate, ops, configVars, checked, evicting, reading,
               evicted, wasted>>

Present == {k \in EvictKeys : size[k] > 0}

\* The sum of the sizes, counted unit by unit.
Memory == Cardinality(UNION {{k} \X (1..size[k]) : k \in EvictKeys})

EvictionInit ==
  /\ size = [k \in EvictKeys |-> 0] /\ volatile = {} /\ accessTime = <<>>
  /\ memEstimate = 0 /\ ops = 0
  /\ maxMemory = 0 /\ policy = "noeviction"
  /\ checked = FALSE /\ evicting = FALSE /\ reading = <<>>
  /\ evicted = FALSE /\ wasted = 0

-----------------------------------------------------------------------------
(***************************************************************************)
(* touchKeyLocked and deleteKeyLocked, as far as accessTime goes.          *)
(***************************************************************************)
Untouched(k) ==
  IF k \notin Range(accessTime) THEN accessTime
  ELSE RemoveAt(accessTime, CHOOSE i \in DOMAIN accessTime : accessTime[i] = k)

Touched(k) == IF maxMemory > 0 THEN Append(Untouched(k), k) ELSE accessTime

\* A deleted key is taken out, and then touched.
Forgotten(k) == IF maxMemory > 0 THEN Touched(k) ELSE Untouched(k)

deleteKeyLocked(k) ==
  /\ size' = [size EXCEPT ![k] = 0]
  /\ volatile' = volatile \ {k}

(***************************************************************************)
(* The commands of clients, one critical section each, and a Get in two.   *)
(* A Get enters the time at which it began: keys touched meanwhile are     *)
(* younger, so that it may come anywhere in the order.                     *)
(***************************************************************************)
Write(k, n, expires) ==
  /\ ~evicting
  /\ size' = [size EXCEPT ![k] = n]
  /\ volatile' = IF expires THEN volatile \cup {k} ELSE volatile \ {k}
  /\ accessTime' = Touched(k)
  /\ UNCHANGED <<memEstimate, ops, configVars, checked, evicting, reading, evicted, wasted>>

Delete(k) ==
  /\ ~evicting /\ k \in Present
  /\ deleteKeyLocked(k)
  /\ accessTime' = Forgotten(k)
  /\ UNCHANGED <<memEstimate, ops, configVars, checked, evicting, reading, evicted, wasted>>

GetReads(k) ==
  /\ ~evicting /\ k \in Present /\ reading = <<>> /\ maxMemory > 0
  /\ reading' = <<k>>
  /\ UNCHANGED <<size, volatile, accessTime, memEstimate, ops, configVars, checked, evicting, evicted, wasted>>

GetTouches ==
  /\ reading # <<>>
  /\ LET k == Head(reading) IN
     \E i \in 1..(Len(Untouched(k)) + 1) : accessTime' = InsertAt(Untouched(k), i, k)
  /\ reading' = <<>>
  /\ UNCHANGED <<size, volatile, memEstimate, ops, configVars, checked, evicting, evicted, wasted>>

SetMaxMemory(m) ==
  /\ ~evicting
  /\ maxMemory' = m /\ memEstimate' = 0 /\ ops' = 0
  /\ UNCHANGED <<size, volatile, accessTime, policy, checked, evicting, reading, evicted, wasted>>

SetEvictPolicy(p) ==
  /\ ~evicting
  /\ policy' = p
  /\ UNCHANGED <<size, volatile, accessTime, memEstimate, ops, maxMemory, checked, evicting, reading,
                 evicted, wasted>>

-----------------------------------------------------------------------------
(***************************************************************************)
(* estimateMemoryLocked: the figure, and the count of calls.               *)
(***************************************************************************)
Renews == ops + 1 >= RefreshEvery \/ memEstimate = 0
Estimate == IF Renews THEN Memory ELSE memEstimate
CountCall == ops' = IF Renews THEN 0 ELSE ops + 1

EvictIfNeeded ==
  /\ ~checked /\ maxMemory > 0
  /\ checked' = TRUE
  /\ UNCHANGED <<size, volatile, accessTime, memEstimate, ops, configVars, evicting, reading,
                 evicted, wasted>>

TakesLock ==
  /\ checked /\ ~evicting
  /\ checked' = FALSE /\ evicting' = TRUE
  /\ UNCHANGED <<size, volatile, accessTime, memEstimate, ops, configVars, reading, evicted, wasted>>

(***************************************************************************)
(* evictLRUKeyLocked takes the oldest of a sample: the keys at the end of  *)
(* accessTime, too few to fill a sample, are never the oldest of one.      *)
(***************************************************************************)
OldestOfSample ==
  {accessTime[i] : i \in {j \in DOMAIN accessTime : j = 1 \/ Len(accessTime) - j + 1 >= SampleSize}}

Victims ==
  CASE policy = "noeviction" -> {}
    [] policy = "allkeys-random" -> Present
    [] policy = "volatile-random" -> volatile
    [] policy = "allkeys-lru" -> IF accessTime = <<>> THEN Present ELSE OldestOfSample

\* Mutant of AccessAfter: LRU leaves it to deleteKeyLocked to forget the key.
AccessTouched(k) == Forgotten(k)

AccessAfter(k) ==
  IF policy = "allkeys-lru" /\ accessTime # <<>> THEN Untouched(k) ELSE Forgotten(k)

(***************************************************************************)
(* The loop: within the limit, nothing to evict (which is an error for     *)
(* some policies), or one key less.                                        *)
(***************************************************************************)
Returns ==
  /\ evicting
  /\ Estimate <= maxMemory \/ Victims = {}
  /\ memEstimate' = Estimate /\ CountCall
  /\ evicting' = FALSE /\ evicted' = FALSE /\ wasted' = 0
  /\ UNCHANGED <<size, volatile, accessTime, configVars, checked, reading>>

Spoils(k) == IF k \in Present /\ Memory <= maxMemory THEN 1 ELSE 0

\* Mutant of EvictOne: the estimate is not reset.
EvictOneStale(k) ==
  /\ evicting /\ Estimate > maxMemory /\ k \in Victims
  /\ deleteKeyLocked(k) /\ accessTime' = AccessAfter(k)
  /\ memEstimate' = Estimate /\ CountCall
  /\ evicted' = TRUE /\ wasted' = wasted + Spoils(k)
  /\ UNCHANGED <<configVars, checked, evicting, reading>>

\* Mutant of EvictOne: one key has to do.
EvictOnce(k) ==
  /\ evicting /\ Estimate > maxMemory /\ k \in Victims
  /\ deleteKeyLocked(k) /\ accessTime' = AccessAfter(k)
  /\ memEstimate' = 0 /\ CountCall
  /\ evicted' = FALSE /\ wasted' = 0
  /\ evicting' = FALSE
  /\ UNCHANGED <<configVars, checked, reading>>

EvictOne(k) ==
  /\ evicting /\ Estimate > maxMemory /\ k \in Victims
  /\ deleteKeyLocked(k) /\ accessTime' = AccessAfter(k)
  /\ memEstimate' = 0 /\ CountCall
  /\ evicted' = TRUE /\ wasted' = wasted + Spoils(k)
  /\ UNCHANGED <<configVars, checked, evicting, reading>>

EvictionNext ==
  \/ \E k \in EvictKeys :
       \/ \E n \in Sizes, expires \in BOOLEAN : Write(k, n, expires)
       \/ Delete(k) \/ GetReads(k) \/ EvictOne(k)
  \/ \E m \in Limits : SetMaxMemory(m)
  \/ \E p \in Policies : SetEvictPolicy(p)
  \/ GetTouches \/ EvictIfNeeded \/ TakesLock \/ Returns

(***************************************************************************)
(* The loop, once begun, runs on.                                          *)
(***************************************************************************)
LoopStepOfEviction == Returns \/ \E k \in EvictKeys : EvictOne(k)

EvictionSpec == EvictionInit /\ [][EvictionNext]_evictVars /\ WF_evictVars(LoopStepOfEviction)

-----------------------------------------------------------------------------
(***************************************************************************)
(* Types, and one access time per key.                                     *)
(***************************************************************************)
EvictionTypeOK ==
  /\ size \in [EvictKeys -> Sizes \cup {0}] /\ volatile \subseteq Present
  /\ accessTime \in Seq(EvictKeys) /\ IsInjective(accessTime)
  /\ memEstimate \in Nat /\ ops \in 0..(RefreshEvery - 1)
  /\ maxMemory \in Limits /\ policy \in Policies /\ checked \in BOOLEAN /\ evicting \in BOOLEAN

(***************************************************************************)
(* EvictIfNeeded, which holds Store.mu, comes to an end, although LRU also *)
(* picks keys that are gone and deleting a key gives it an access time.    *)
(***************************************************************************)
EvictionEnds == []<>~evicting

(***************************************************************************)
(* A call that has begun to evict does not stop before memory, as it       *)
(* really is, is within the limit or there is nothing left to evict.       *)
(***************************************************************************)
EvictedEnough ==
  [][evicting /\ ~evicting' /\ (evicted \/ Present' # Present)
       => Memory' <= maxMemory \/ Victims = {}]_evictVars

(***************************************************************************)
(* An estimate that is out of date costs at most one key per call.         *)
(***************************************************************************)
OneWasted == wasted <= 1

(***************************************************************************)
(* Types, one access time per key, and at most one key lost to an old      *)
(* estimate.                                                               *)
(***************************************************************************)
EvictionInv == EvictionTypeOK /\ OneWasted
=============================================================================
