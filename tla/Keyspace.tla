------------------------------ MODULE Keyspace ------------------------------
(***************************************************************************)
(* The keys of a Store (internal/store/store.go): which of its typed maps  *)
(* hold a key, expiry, delayed visibility and versions, and the WATCH,     *)
(* MULTI and EXEC of a connection (internal/server/server.go) that rely on *)
(* the versions.                                                           *)
(*                                                                         *)
(* A command is one critical section of Store.mu, an operator from the     *)
(* store it finds to the store it leaves; a refused one leaves at most an  *)
(* expired key deleted.  Of the contents only so much is kept that one can *)
(* see them change and become empty: data[k][kind] is 0 when the map of    *)
(* that kind has no entry for k; a string, a document, a series or a       *)
(* HyperLogLog is one of two values, and the other kinds count elements up *)
(* to MaxSize.  Streams, queues, tags and rate limiters, which live in     *)
(* maps of their own, are left out.                                        *)
(***************************************************************************)
EXTENDS Integers, FiniteSets

CONSTANTS Keys,        \* key names
          Clients,     \* connections that use WATCH and MULTI
          MaxVersion   \* bound: no commands once Store.version has reached it

ASSUME KeyspaceAssumption == IsFiniteSet(Keys) /\ MaxVersion \in Nat

Core == {"string", "hash", "list", "set", "zset"}
Movable == Core \cup {"hll"}
Kinds == Movable \cup {"json", "timeseries"}
MaxSize == 2

Times == {"none", "future", "past"}

VARIABLES
  db,        \* the store: data, expires, notBefore[k] (it lies ahead), version,
             \* keyVersion; and, as history, plain[k]: since k was last deleted
             \* only commands on Core kinds touched it and it was never delayed
  tx,        \* each connection: "none", "multi", or "exec" while EXEC runs
  watched,   \* tx.watched: versions by key, -1 for a key that is not watched
  stray,     \* history: keys that are gone but for an expiry time SORT left
  altered    \* history: watched keys whose contents have changed since WATCH,
             \* but for the changes that have no version (SilentCommand, Restart)

vars == <<db, tx, watched, stray, altered>>

Nothing == [j \in Kinds |-> 0]
Stores == [data : [Keys -> [Kinds -> 0..MaxSize]], expires : [Keys -> Times],
           notBefore : [Keys -> BOOLEAN], version : Nat, keyVersion : [Keys -> Nat],
           plain : [Keys -> BOOLEAN]]

(***************************************************************************)
(* Types; a key's version never exceeds the store's, and a connection      *)
(* watches versions that have been given out.                              *)
(***************************************************************************)
TypeOK ==
  /\ db \in Stores
  /\ tx \in [Clients -> {"none", "multi", "exec"}]
  /\ watched \in [Clients -> [Keys -> -1..db.version]]
  /\ stray \subseteq Keys
  /\ altered \in [Clients -> SUBSET Keys]
  /\ \A k \in Keys : db.keyVersion[k] <= db.version

Empty == [data |-> [k \in Keys |-> Nothing],
          expires |-> [k \in Keys |-> "none"],
          notBefore |-> [k \in Keys |-> FALSE],
          version |-> 0, keyVersion |-> [k \in Keys |-> 0],
          plain |-> [k \in Keys |-> TRUE]]

NoneWatched == [k \in Keys |-> -1]

Init ==
  /\ db = Empty
  /\ tx = [c \in Clients |-> "none"]
  /\ watched = [c \in Clients |-> NoneWatched]
  /\ stray = {}
  /\ altered = [c \in Clients |-> {}]

-----------------------------------------------------------------------------
(***************************************************************************)
(* The building blocks, as in the code: every modification gives its keys  *)
(* a new version, deletion takes a key out of every map, and most commands *)
(* first delete their key if it has expired.                               *)
(***************************************************************************)
touchKeyLocked(s, ks) ==
  [s EXCEPT !.version = @ + 1,
            !.keyVersion = [k \in Keys |-> IF k \in ks THEN s.version + 1 ELSE @[k]]]

deleteKeyLocked(s, k) ==
  touchKeyLocked([s EXCEPT !.data[k] = Nothing, !.expires[k] = "none",
                           !.notBefore[k] = FALSE, !.plain[k] = TRUE], {k})

expiredKeyLocked(s, k) == IF s.expires[k] = "past" THEN deleteKeyLocked(s, k) ELSE s

Holds(s, k) == {j \in Kinds : s.data[k][j] > 0}

(***************************************************************************)
(* existsLocked, for a key that has not expired: hidden keys do not exist. *)
(***************************************************************************)
existsLocked(s, k) == ~s.notBefore[k] /\ Holds(s, k) # {}

(***************************************************************************)
(* The key holds no other kind than the given ones: the type check.        *)
(***************************************************************************)
Only(s, k, kinds) == Holds(s, k) \subseteq kinds

(***************************************************************************)
(* A different value of a kind that is not counted.                        *)
(***************************************************************************)
Changed(s, k, kind) ==
  [s EXCEPT !.data[k][kind] = IF @ = 1 THEN 2 ELSE 1, !.plain[k] = @ /\ kind \in Core]

-----------------------------------------------------------------------------
(***************************************************************************)
(* Strings.  SET clears the older maps; it leaves JSON documents, time     *)
(* series and a delay alone.                                               *)
(***************************************************************************)
\* Mutant of Assign: sets are not cleared.
AssignKeepsSets(s, k, e) ==
  touchKeyLocked([Changed(s, k, "string") EXCEPT
                    !.data[k] = [j \in Kinds |-> IF j \in Movable \ {"string", "set"} THEN 0
                                                 ELSE @[j]],
                    !.expires[k] = e], {k})

Assign(s, k, e) ==
  touchKeyLocked([Changed(s, k, "string") EXCEPT
                    !.data[k] = [j \in Kinds |-> IF j \in Movable \ {"string"} THEN 0 ELSE @[j]],
                    !.expires[k] = e], {k})

Set(s, k, e) == Assign(s, k, e)
SetAbsolute(s, k, e) == Assign(s, k, e)

SetNX(s, k, e) ==
  LET p == expiredKeyLocked(s, k) IN
  IF existsLocked(p, k) THEN p
  ELSE touchKeyLocked([Changed(p, k, "string") EXCEPT
                         !.expires[k] = IF e = "none" THEN @ ELSE e], {k})

SetXX(s, k, e) ==
  LET p == expiredKeyLocked(s, k) IN
  IF existsLocked(p, k) THEN Assign(p, k, e) ELSE p

(***************************************************************************)
(* INCR, INCRBYFLOAT, APPEND, SETRANGE and SETBIT edit the string in place *)
(* and keep its expiry; GETSET does not.                                   *)
(***************************************************************************)
Edit(s, k) ==
  LET p == expiredKeyLocked(s, k) IN
  IF Only(p, k, {"string"}) THEN touchKeyLocked(Changed(p, k, "string"), {k}) ELSE p

IncrBy(s, k) == Edit(s, k)
IncrByFloat(s, k) == Edit(s, k)
Append(s, k) == Edit(s, k)
SetRange(s, k) == Edit(s, k)
SetBit(s, k) == Edit(s, k)

GetSet(s, k) ==
  LET p == expiredKeyLocked(s, k) IN
  IF Only(p, k, {"string"})
  THEN touchKeyLocked([Changed(p, k, "string") EXCEPT !.expires[k] = "none"], {k}) ELSE p

GetEx(s, k, e) ==
  LET p == expiredKeyLocked(s, k) IN
  IF p.data[k]["string"] > 0 THEN touchKeyLocked([p EXCEPT !.expires[k] = e], {k}) ELSE p

GetDel(s, k) ==
  LET p == expiredKeyLocked(s, k) IN
  IF p.data[k]["string"] > 0 THEN deleteKeyLocked(p, k) ELSE p

(***************************************************************************)
(* MSETNX of two keys, checked in order.                                   *)
(***************************************************************************)
MSetNX(s, k, l) ==
  LET p == expiredKeyLocked(s, k)
      q == expiredKeyLocked(p, l)
      put(t, n) == touchKeyLocked([Changed(t, n, "string") EXCEPT !.expires[n] = "none"], {n})
  IN  IF existsLocked(p, k) THEN p
      ELSE IF existsLocked(q, l) THEN q
      ELSE put(put(q, k), l)

SetDelayed(s, k, e) ==
  touchKeyLocked([Changed(s, k, "string") EXCEPT
                    !.data[k] = [j \in Kinds |-> IF j \in {"string", "timeseries"}
                                                 THEN @[j] ELSE 0],
                    !.notBefore[k] = TRUE, !.expires[k] = e, !.plain[k] = FALSE], {k})

BitOp(s, k, dst) ==
  LET p == expiredKeyLocked(s, k) IN
  IF Only(p, k, {"string"})
  THEN touchKeyLocked(Changed(deleteKeyLocked(p, dst), dst, "string"), {dst}) ELSE p

-----------------------------------------------------------------------------
(***************************************************************************)
(* Keys and their expiry.                                                  *)
(***************************************************************************)
Del(s, k) ==
  LET p == expiredKeyLocked(s, k) IN
  IF existsLocked(p, k) THEN deleteKeyLocked(p, k) ELSE p

Expire(s, k, e) ==
  LET p == expiredKeyLocked(s, k) IN
  IF existsLocked(p, k) THEN touchKeyLocked([p EXCEPT !.expires[k] = e], {k}) ELSE p

ExpireAt(s, k, e) == Expire(s, k, e)

Persist(s, k) ==
  LET p == expiredKeyLocked(s, k) IN
  IF existsLocked(p, k) /\ p.expires[k] # "none"
  THEN touchKeyLocked([p EXCEPT !.expires[k] = "none"], {k}) ELSE p

(***************************************************************************)
(* RENAME deletes the new name, then moves the older kinds and the expiry. *)
(* Renamed to itself a key is gone.                                        *)
(***************************************************************************)
Rename(s, k, n) ==
  LET p == expiredKeyLocked(s, k)
      q == deleteKeyLocked(p, n)
      part(d, moved) == [j \in Kinds |-> IF (j \in Movable) = moved THEN d[j] ELSE 0]
      r == [q EXCEPT !.data[n] = part(q.data[k], TRUE), !.data[k] = part(@, FALSE),
                     !.expires[n] = q.expires[k], !.expires[k] = "none",
                     !.plain[n] = q.plain[k]]
  IN  IF ~existsLocked(p, k) THEN p
      ELSE touchKeyLocked(IF k = n THEN q ELSE r, {k, n})

Copy(s, k, n, replace) ==
  LET p == expiredKeyLocked(s, k)
      o == expiredKeyLocked(p, n)
      q == IF existsLocked(o, n) THEN deleteKeyLocked(o, n) ELSE o
      copied == {j \in Movable : q.data[k][j] > 0}
  IN  IF ~existsLocked(p, k) THEN p
      ELSE IF existsLocked(o, n) /\ ~replace THEN o
      ELSE touchKeyLocked([q EXCEPT
             !.data[n] = [j \in Kinds |-> IF j \in copied THEN q.data[k][j] ELSE @[j]],
             !.expires[n] = IF q.expires[k] = "none" THEN @ ELSE q.expires[k],
             !.plain[n] = @ /\ q.plain[k]], {n})

-----------------------------------------------------------------------------
(***************************************************************************)
(* Collections.  A command that adds refuses a key of another kind; one    *)
(* that takes the last element away removes the entry and the expiry.      *)
(***************************************************************************)
More(s, k, kind) == [s EXCEPT !.data[k][kind] = IF @ = MaxSize THEN @ ELSE @ + 1]

\* Mutant of Fewer: the expiry outlives the last element.
FewerKeepsExpiry(s, k, kind, n) == [s EXCEPT !.data[k][kind] = @ - n]

Fewer(s, k, kind, n) ==
  [s EXCEPT !.data[k][kind] = @ - n,
            !.expires[k] = IF s.data[k][kind] = n THEN "none" ELSE @]

AddTo(s, k, kind) ==
  LET p == expiredKeyLocked(s, k) IN
  IF Only(p, k, {kind}) THEN touchKeyLocked(More(p, k, kind), {k}) ELSE p

TakeFrom(s, k, kind, n) ==
  LET p == expiredKeyLocked(s, k) IN
  IF Only(p, k, {kind}) /\ p.data[k][kind] >= n
  THEN touchKeyLocked(Fewer(p, k, kind, n), {k}) ELSE p

HSet(s, k) == AddTo(s, k, "hash")
HIncrBy(s, k) == AddTo(s, k, "hash")
HSetNX(s, k) == AddTo(s, k, "hash")
HDel(s, k, n) == TakeFrom(s, k, "hash", n)
SAdd(s, k) == AddTo(s, k, "set")
SPop(s, k, n) == TakeFrom(s, k, "set", n)
ZAdd(s, k) == AddTo(s, k, "zset")
ZIncrBy(s, k) == AddTo(s, k, "zset")
ZRem(s, k, n) == TakeFrom(s, k, "zset", n)
ZPopMin(s, k, n) == TakeFrom(s, k, "zset", n)
popList(s, k) == TakeFrom(s, k, "list", 1)
LRem(s, k, n) == TakeFrom(s, k, "list", n)
LInsert(s, k) ==
  LET p == expiredKeyLocked(s, k) IN
  IF p.data[k]["list"] > 0 THEN AddTo(p, k, "list") ELSE p

LSet(s, k) ==
  LET p == expiredKeyLocked(s, k) IN
  IF Only(p, k, {"list"}) /\ p.data[k]["list"] > 0 THEN touchKeyLocked(p, {k}) ELSE p

(***************************************************************************)
(* A push or a move wakes the sleepers of the list, who take what they can *)
(* in the same critical section (module BlockingList); here, one element.  *)
(***************************************************************************)
wakeListWaitersLocked(s, k, sleeper) == IF sleeper THEN Fewer(s, k, "list", 1) ELSE s

pushList(s, k, sleeper) ==
  LET p == expiredKeyLocked(s, k) IN
  IF Only(p, k, {"list"})
  THEN wakeListWaitersLocked(touchKeyLocked(More(p, k, "list"), {k}), k, sleeper) ELSE p

(***************************************************************************)
(* BLPOP looks at no other map.                                            *)
(***************************************************************************)
BPop(s, k) ==
  LET p == expiredKeyLocked(s, k) IN
  IF p.data[k]["list"] > 0 THEN touchKeyLocked(Fewer(p, k, "list", 1), {k}) ELSE p

(***************************************************************************)
(* SREM is the one that gives the key no new version.                      *)
(***************************************************************************)
SRem(s, k, n) ==
  LET p == expiredKeyLocked(s, k) IN
  IF Only(p, k, {"set"}) /\ p.data[k]["set"] >= n THEN Fewer(p, k, "set", n) ELSE p

(***************************************************************************)
(* LMOVE looks for neither JSON documents nor time series.                 *)
(***************************************************************************)
LMove(s, k, n, sleeper) ==
  LET p == expiredKeyLocked(s, k)
      o == IF k = n THEN p ELSE expiredKeyLocked(p, n)
      allowed == {"list", "json", "timeseries"}
  IN  IF ~Only(p, k, allowed) \/ p.data[k]["list"] = 0 THEN p
      ELSE IF ~Only(o, n, allowed) THEN o
      ELSE wakeListWaitersLocked(
             touchKeyLocked(More(Fewer(o, k, "list", 1), n, "list"), {k, n}), n, sleeper)

SMove(s, k, n) ==
  LET p == expiredKeyLocked(expiredKeyLocked(s, k), n) IN
  IF Only(p, k, {"set"}) /\ Only(p, n, {"set"}) /\ p.data[k]["set"] > 0
  THEN touchKeyLocked(touchKeyLocked(More(Fewer(p, k, "set", 1), n, "set"), {k}), {n})
  ELSE p

(***************************************************************************)
(* SORT ... STORE, of which LIMIT may leave nothing: n elements are kept.  *)
(* For an expired source only a list at the destination is deleted, and    *)
(* its expiry stays behind.                                                *)
(***************************************************************************)
Sort(s, k, dst, n) ==
  LET p == expiredKeyLocked(s, k)
      sortable == Holds(s, k) \cap {"list", "set", "zset"} # {}
  IN  IF s.expires[k] = "past"
      THEN touchKeyLocked([p EXCEPT !.data[dst]["list"] = 0], {dst})
      ELSE IF ~sortable /\ s.data[k]["string"] > 0 THEN s
      ELSE touchKeyLocked([deleteKeyLocked(s, dst) EXCEPT
                             !.data[dst]["list"] = IF sortable THEN n ELSE 0], {dst})

-----------------------------------------------------------------------------
(***************************************************************************)
(* The younger kinds, whose type checks look at fewer maps.                *)
(***************************************************************************)
Update(s, k, kind, allowed) ==
  LET p == expiredKeyLocked(s, k) IN
  IF Only(p, k, allowed) THEN touchKeyLocked(Changed(p, k, kind), {k}) ELSE p

PFAdd(s, k) == Update(s, k, "hll", Kinds \ Core)
JSONSet(s, k) == Update(s, k, "json", {"json", "timeseries"})
TSAdd(s, k) == Update(s, k, "timeseries", {"timeseries"})

PFMerge(s, k, src) ==
  touchKeyLocked(expiredKeyLocked(Changed(expiredKeyLocked(s, k), k, "hll"), src), {k})

(***************************************************************************)
(* Edits below the root; JSON.DEL of the root leaves the expiry.           *)
(***************************************************************************)
JSONNumIncrBy(s, k) ==
  LET p == expiredKeyLocked(s, k) IN
  IF p.data[k]["json"] > 0 THEN touchKeyLocked(Changed(p, k, "json"), {k}) ELSE p

JSONArrAppend(s, k) == JSONNumIncrBy(s, k)

JSONDel(s, k) ==
  LET p == expiredKeyLocked(s, k) IN
  IF p.data[k]["json"] > 0
  THEN touchKeyLocked([p EXCEPT !.data[k]["json"] = 0], {k}) ELSE p

TSDownsample(s, k, dst) ==
  LET p == expiredKeyLocked(s, k) IN
  IF p.data[k]["timeseries"] > 0
  THEN touchKeyLocked(Changed(deleteKeyLocked(p, dst), dst, "timeseries"), {dst}) ELSE p

-----------------------------------------------------------------------------
(***************************************************************************)
(* The whole store.  Deletion of several keys in one critical section; the *)
(* order, that of a Go map, is left open: all get the last version.        *)
(***************************************************************************)
DeleteAll(s, ks) ==
  [data |-> [k \in Keys |-> IF k \in ks THEN Nothing ELSE s.data[k]],
   expires |-> [k \in Keys |-> IF k \in ks THEN "none" ELSE s.expires[k]],
   notBefore |-> [k \in Keys |-> k \notin ks /\ s.notBefore[k]],
   version |-> s.version + Cardinality(ks),
   keyVersion |-> [k \in Keys |-> IF k \in ks THEN s.version + Cardinality(ks)
                                  ELSE s.keyVersion[k]],
   plain |-> [k \in Keys |-> k \in ks \/ s.plain[k]]]

Lapsed(s) == {k \in Keys : s.expires[k] = "past"}

sampleExpired(s, ks) == DeleteAll(s, ks)
purgeExpiredLocked(s) == DeleteAll(s, Lapsed(s))

(***************************************************************************)
(* What one of the policies may pick: a key of an older kind, one that may *)
(* expire, or one with an access time.                                     *)
(***************************************************************************)
Evictable(s) == {k \in Keys : \/ Holds(s, k) \cap Movable # {}
                              \/ s.expires[k] # "none"
                              \/ s.keyVersion[k] > 0}

EvictIfNeeded(s, ks) == DeleteAll(s, ks)

(***************************************************************************)
(* FLUSHDB and the loading of a snapshot forget the keys' versions, not    *)
(* the store's.                                                            *)
(***************************************************************************)
\* Mutant of FlushDB: the version counter starts over.
FlushDBStartsOver(s) == [Empty EXCEPT !.version = 0]

FlushDB(s) == [Empty EXCEPT !.version = s.version + 1]

Load(s, k, kind, e) ==
  purgeExpiredLocked([Empty EXCEPT !.data[k][kind] = 1, !.expires[k] = e,
                                   !.plain[k] = kind \in Core, !.version = s.version + 1])

-----------------------------------------------------------------------------
(***************************************************************************)
(* A command of any connection leaves the store t.  EXEC takes no lock     *)
(* over its commands, so a queued command is a step like any other.        *)
(* Commands that change nothing are stuttering steps.  Of the keys in      *)
(* orphans the ones that are gone but for their expiry time become stray.  *)
(***************************************************************************)
Becomes(t, orphans) ==
  /\ t # db
  /\ db' = t
  /\ stray' = {k \in stray \cup orphans : t.expires[k] # "none" /\ Holds(t, k) = {}}
  /\ UNCHANGED <<tx, watched>>

Differing(t) == {k \in Keys : db.data[k] # t.data[k]}

Noted(t) ==
  altered' = [c \in Clients |-> altered[c] \cup {k \in Differing(t) : watched[c][k] >= 0}]

Command(t) == Becomes(t, {}) /\ Noted(t)

(***************************************************************************)
(* SORT ... STORE of an expired source leaves the expiry of the            *)
(* destination.                                                            *)
(***************************************************************************)
SortCommand(k, dst, n) ==
  LET t == Sort(db, k, dst, n) IN
  Becomes(t, IF db.expires[k] = "past" THEN {dst} ELSE {}) /\ Noted(t)

(***************************************************************************)
(* SREM of members: no version tells a watcher of the change.              *)
(***************************************************************************)
SilentCommand(t) == Becomes(t, {}) /\ UNCHANGED altered

SRemCommand(k, n) ==
  LET t == SRem(db, k, n) IN
  IF db.expires[k] = "past" THEN Command(t) ELSE SilentCommand(t)

(***************************************************************************)
(* The store starts over without versions.  To the watcher of a key that   *)
(* had none when it was watched, the key looks as it did then.             *)
(***************************************************************************)
Restart(t) ==
  /\ Becomes(t, {})
  /\ altered' = [c \in Clients |-> {k \in altered[c] \cup Differing(t) : watched[c][k] > 0}]

(***************************************************************************)
(* Expiry times are given in the future; the absolute ones, which clients  *)
(* and the log may send late, also in the past.                            *)
(***************************************************************************)
StringCommand(k) ==
  \/ \E e \in {"none", "future"} :
       \E t \in {Set(db, k, e), SetNX(db, k, e), SetXX(db, k, e), GetEx(db, k, e),
                 SetDelayed(db, k, e)} : Command(t)
  \/ \E e \in Times : Command(SetAbsolute(db, k, e))
  \/ \E t \in {IncrBy(db, k), IncrByFloat(db, k), Append(db, k), SetRange(db, k),
               SetBit(db, k), GetSet(db, k), GetDel(db, k)} : Command(t)
  \/ \E l \in Keys : \E t \in {MSetNX(db, k, l), BitOp(db, k, l)} : Command(t)

KeyCommand(k) ==
  \/ \E t \in {Del(db, k), Expire(db, k, "future"), Persist(db, k)} : Command(t)
  \/ \E e \in Times : Command(ExpireAt(db, k, e))
  \/ \E n \in Keys : \E t \in {Rename(db, k, n), Copy(db, k, n, TRUE), Copy(db, k, n, FALSE)} :
       Command(t)

CollectionCommand(k) ==
  \/ \E t \in {HSet(db, k), HIncrBy(db, k), HSetNX(db, k), SAdd(db, k), ZAdd(db, k),
               ZIncrBy(db, k)} : Command(t)
  \/ \E t \in {popList(db, k), BPop(db, k), LInsert(db, k), LSet(db, k)} : Command(t)
  \/ \E n \in 1..MaxSize :
       \E t \in {HDel(db, k, n), LRem(db, k, n), SPop(db, k, n), ZRem(db, k, n),
                 ZPopMin(db, k, n)} : Command(t)
  \/ \E n \in 1..MaxSize : SRemCommand(k, n)
  \/ \E sleeper \in BOOLEAN :
       \/ Command(pushList(db, k, sleeper))
       \/ \E n \in Keys : Command(LMove(db, k, n, sleeper))
  \/ \E dst \in Keys : Command(SMove(db, k, dst)) \/ \E n \in 0..1 : SortCommand(k, dst, n)

YoungCommand(k) ==
  \/ \E t \in {PFAdd(db, k), TSAdd(db, k), JSONSet(db, k), JSONNumIncrBy(db, k),
               JSONArrAppend(db, k), JSONDel(db, k)} : Command(t)
  \/ \E l \in Keys : \E t \in {PFMerge(db, k, l), TSDownsample(db, k, l)} : Command(t)

WholeStore ==
  \/ \E ks \in SUBSET Lapsed(db) \ {{}} : Command(sampleExpired(db, ks))
  \/ \E ks \in SUBSET Evictable(db) \ {{}} : Command(EvictIfNeeded(db, ks))
  \/ Restart(FlushDB(db))
  \/ \E k \in Keys, kind \in {"string", "set"}, e \in Times : Restart(Load(db, k, kind, e))

(***************************************************************************)
(* Time passes: an expiry time is reached, or a delay is over.             *)
(***************************************************************************)
Lapse(k) ==
  /\ db.expires[k] = "future"
  /\ db' = [db EXCEPT !.expires[k] = "past"]
  /\ UNCHANGED <<tx, watched, stray, altered>>

Appear(k) ==
  /\ db.notBefore[k]
  /\ db' = [db EXCEPT !.notBefore[k] = FALSE]
  /\ UNCHANGED <<tx, watched, stray, altered>>

-----------------------------------------------------------------------------
(***************************************************************************)
(* A connection's transaction.  Inside MULTI, WATCH is refused and UNWATCH *)
(* obeyed.                                                                 *)
(***************************************************************************)
Watch(c, ks) ==
  /\ tx[c] = "none"
  /\ watched' = [watched EXCEPT ![c] = [k \in Keys |-> IF k \in ks THEN db.keyVersion[k]
                                                       ELSE @[k]]]
  /\ altered' = [altered EXCEPT ![c] = @ \ ks]
  /\ UNCHANGED <<db, tx, stray>>

Forget(c) ==
  /\ watched' = [watched EXCEPT ![c] = NoneWatched]
  /\ altered' = [altered EXCEPT ![c] = {}]
  /\ UNCHANGED <<db, stray>>

Unwatch(c) ==
  /\ tx[c] # "exec"
  /\ Forget(c)
  /\ UNCHANGED tx

Multi(c) ==
  /\ tx[c] = "none"
  /\ tx' = [tx EXCEPT ![c] = "multi"]
  /\ UNCHANGED <<db, watched, stray, altered>>

Discard(c) ==
  /\ tx[c] = "multi"
  /\ tx' = [tx EXCEPT ![c] = "none"]
  /\ Forget(c)

KeysModifiedSince(versions) ==
  \E k \in Keys : versions[k] >= 0 /\ db.keyVersion[k] # versions[k]

(***************************************************************************)
(* EXEC gives up, or goes on to its commands and is done after the last.   *)
(***************************************************************************)
ExecAbort(c) ==
  /\ tx[c] = "multi"
  /\ KeysModifiedSince(watched[c])
  /\ tx' = [tx EXCEPT ![c] = "none"]
  /\ Forget(c)

Exec(c) ==
  /\ tx[c] = "multi"
  /\ ~KeysModifiedSince(watched[c])
  /\ tx' = [tx EXCEPT ![c] = "exec"]
  /\ UNCHANGED <<db, watched, stray, altered>>

ExecDone(c) ==
  /\ tx[c] = "exec"
  /\ tx' = [tx EXCEPT ![c] = "none"]
  /\ Forget(c)

Transaction(c) ==
  \/ \E ks \in SUBSET Keys \ {{}} : Watch(c, ks)
  \/ Unwatch(c)
  \/ Multi(c)
  \/ Discard(c)
  \/ Exec(c)
  \/ ExecAbort(c)
  \/ ExecDone(c)

Next ==
  \/ /\ db.version < MaxVersion
     /\ \/ \E k \in Keys : \/ StringCommand(k)
                           \/ KeyCommand(k)
                           \/ CollectionCommand(k)
                           \/ YoungCommand(k)
        \/ WholeStore
  \/ \E k \in Keys : Lapse(k) \/ Appear(k)
  \/ \E c \in Clients : Transaction(c)

Spec == Init /\ [][Next]_vars

-----------------------------------------------------------------------------
(***************************************************************************)
(* A key lives in one typed map.  No command of the store looks at all of  *)
(* them alike: SET clears some, the others each check their own list, and  *)
(* RENAME and COPY carry over what they know.  Claimed for keys on which   *)
(* only the core kinds were used and that were never delayed; for others   *)
(* the code does not keep it.                                              *)
(***************************************************************************)
OneKind == \A k \in Keys : db.plain[k] => Cardinality(Holds(db, k)) <= 1

(***************************************************************************)
(* No expiry time without a key, on keys of the core kinds.  Commands that *)
(* create a key (SETNX, HSET, LPUSH...) do not reset s.expires: a time     *)
(* left behind by an earlier key would make the new one vanish.  The one   *)
(* command that leaves such a time is SORT ... STORE of an expired source: *)
(* a stray time stands until the key is written, deleted or expires.       *)
(***************************************************************************)
ExpiryHasKey ==
  \A k \in Keys : db.plain[k] /\ db.expires[k] # "none" => Holds(db, k) # {} \/ k \in stray

(***************************************************************************)
(* When EXEC goes ahead, no watched key was written, expired, renamed      *)
(* over, moved away, flushed or evicted since WATCH, also none that did    *)
(* not exist then.  Two changes escape it: members removed by SREM, and    *)
(* FLUSHDB or the loading of a snapshot for a key that had no version when *)
(* it was watched.                                                         *)
(***************************************************************************)
WatchNoticed ==
  [][\A c \in Clients : (tx[c] = "multi" /\ tx'[c] = "exec") => altered[c] = {}]_vars

(***************************************************************************)
(* "OnChange registers a callback that fires whenever a key is modified or *)
(* deleted": every step that changes what a key holds goes through         *)
(* touchKeyLocked or gives the whole store a new version.                  *)
(***************************************************************************)
EveryChangeIsTold == [][db'.data # db.data => db'.version > db.version]_vars

(***************************************************************************)
(* Types, versions that have been given out, and one kind per key.         *)
(***************************************************************************)
Inv == TypeOK /\ OneKind
=============================================================================
