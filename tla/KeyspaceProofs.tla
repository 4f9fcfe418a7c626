--------------------------- MODULE KeyspaceProofs ---------------------------
(***************************************************************************)
(* Proofs about Keyspace for every set of keys and of connections and any  *)
(* number of commands.                                                     *)
(***************************************************************************)
EXTENDS Keyspace, FiniteSetTheorems, TLAPS

-----------------------------------------------------------------------------
(***************************************************************************)
(* The contents of a plain key: nothing but one of the core kinds, and it  *)
(* is not hidden.                                                          *)
(***************************************************************************)
PlainContents(s, k) ==
  /\ \A j \in Kinds : s.data[k][j] > 0 => j \in Core
  /\ \A i, j \in Kinds : (s.data[k][i] > 0 /\ s.data[k][j] > 0) => i = j
  /\ ~s.notBefore[k]

(***************************************************************************)
(* A key in order: if it is plain, it has the contents of a plain key, and *)
(* an expiry time only if it is there or the time is a stray one.          *)
(***************************************************************************)
GoodKey(s, k) ==
  s.plain[k] =>
    /\ \A j \in Kinds : s.data[k][j] > 0 => j \in Core
    /\ \A i, j \in Kinds : (s.data[k][i] > 0 /\ s.data[k][j] > 0) => i = j
    /\ ~s.notBefore[k]
    /\ s.expires[k] # "none" => k \in stray \/ \E j \in Kinds : s.data[k][j] > 0

(***************************************************************************)
(* A store in order: every key is, and no key has a version of the future. *)
(***************************************************************************)
GoodStore(s) ==
  /\ s \in Stores
  /\ \A k \in Keys : s.keyVersion[k] <= s.version
  /\ \A k \in Keys : GoodKey(s, k)

(***************************************************************************)
(* What a watcher can rely on from one store to a later one: a key whose   *)
(* version is not a new one has the contents it had.                       *)
(***************************************************************************)
Traced(s, t) ==
  /\ s.version <= t.version
  /\ \A k \in Keys :
       \/ t.keyVersion[k] > s.version
       \/ t.keyVersion[k] = s.keyVersion[k] /\ t.data[k] = s.data[k]

(***************************************************************************)
(* A command does what it should: it leaves a store in order, and traces.  *)
(***************************************************************************)
Sound(s, t) == GoodStore(t) /\ Traced(s, t)

(***************************************************************************)
(* The inductive invariant: the store is in order, and a watched key that  *)
(* was altered has a version that differs from the one watched, for good.  *)
(***************************************************************************)
WatchInv ==
  \A c \in Clients : \A k \in altered[c] :
    /\ watched[c][k] >= 0
    /\ \/ db.keyVersion[k] > watched[c][k]
       \/ db.keyVersion[k] = 0 /\ watched[c][k] > 0

(***************************************************************************)
(* The inductive invariant of the store and its watchers.                  *)
(***************************************************************************)
IndInv == TypeOK /\ GoodStore(db) /\ WatchInv

-----------------------------------------------------------------------------
(***************************************************************************)
(* The fields of a store.                                                  *)
(***************************************************************************)
LEMMA Fields ==
  ASSUME NEW s \in Stores
  PROVE  /\ s.data \in [Keys -> [Kinds -> 0..MaxSize]]
         /\ s.expires \in [Keys -> Times]
         /\ s.notBefore \in [Keys -> BOOLEAN]
         /\ s.version \in Nat
         /\ s.keyVersion \in [Keys -> Nat]
         /\ s.plain \in [Keys -> BOOLEAN]
BY DEF Stores

(***************************************************************************)
(* Soundness is preserved from one command to the next: commands are put   *)
(* together from steps that are sound each.                                *)
(***************************************************************************)
LEMMA SoundTransitive ==
  ASSUME NEW s \in Stores, NEW p, NEW t, Sound(s, p), Sound(p, t)
  PROVE  Sound(s, t)
<1>1. s.version \in Nat /\ p.version \in Nat /\ t.version \in Nat
  BY Fields DEF Sound, GoodStore
<1>2. s.version <= t.version
  BY <1>1 DEF Sound, Traced
<1>3. ASSUME NEW k \in Keys
      PROVE  \/ t.keyVersion[k] > s.version
             \/ t.keyVersion[k] = s.keyVersion[k] /\ t.data[k] = s.data[k]
  <2>1. t.keyVersion[k] \in Nat /\ p.keyVersion[k] \in Nat
    BY Fields DEF Sound, GoodStore
  <2> QED
    BY <1>1, <2>1 DEF Sound, Traced
<1> QED
  BY <1>2, <1>3 DEF Sound, Traced

(***************************************************************************)
(* A command that does nothing is sound.                                   *)
(***************************************************************************)
LEMMA SoundStays ==
  ASSUME NEW s, GoodStore(s)
  PROVE  Sound(s, s)
<1>1. s.version \in Nat
  BY Fields DEF GoodStore
<1> QED
  BY <1>1 DEF Sound, Traced

(***************************************************************************)
(* A change to one key that leaves the versions to touchKeyLocked.         *)
(***************************************************************************)
Edited(s, t, k) ==
  /\ t \in Stores
  /\ t.version = s.version /\ t.keyVersion = s.keyVersion
  /\ \A l \in Keys \ {k} : /\ t.data[l] = s.data[l] /\ t.expires[l] = s.expires[l]
                           /\ t.notBefore[l] = s.notBefore[l] /\ t.plain[l] = s.plain[l]

(***************************************************************************)
(* touchKeyLocked raises the version and gives it to the keys named, and   *)
(* changes nothing else.                                                   *)
(***************************************************************************)
LEMMA TouchFields ==
  ASSUME NEW s \in Stores, NEW ks
  PROVE  LET t == touchKeyLocked(s, ks) IN
         /\ t \in Stores
         /\ t.data = s.data /\ t.expires = s.expires /\ t.notBefore = s.notBefore
         /\ t.plain = s.plain /\ t.version = s.version + 1
         /\ \A k \in Keys : t.keyVersion[k] = IF k \in ks THEN s.version + 1 ELSE s.keyVersion[k]
<1> DEFINE kv == [k \in Keys |-> IF k \in ks THEN s.version + 1 ELSE s.keyVersion[k]]
           t == touchKeyLocked(s, ks)
<1>1. kv \in [Keys -> Nat] /\ s.version + 1 \in Nat
  BY Fields
<1>2. t = [s EXCEPT !.version = s.version + 1, !.keyVersion = kv]
  BY DEF touchKeyLocked
<1>3. /\ t.data = s.data /\ t.expires = s.expires /\ t.notBefore = s.notBefore
      /\ t.plain = s.plain /\ t.version = s.version + 1 /\ t.keyVersion = kv
  BY <1>2 DEF Stores
<1>4. t \in Stores
  BY <1>1, <1>2 DEF Stores
<1> QED
  BY <1>3, <1>4

(***************************************************************************)
(* touchKeyLocked after changes to some keys that leave them in order.     *)
(***************************************************************************)
LEMMA TouchSound ==
  ASSUME NEW s, GoodStore(s), NEW t \in Stores, NEW ks,
         t.version = s.version, t.keyVersion = s.keyVersion,
         \A k \in Keys \ ks : t.data[k] = s.data[k],
         \A k \in Keys : GoodKey(t, k)
  PROVE  Sound(s, touchKeyLocked(t, ks))
<1> DEFINE u == touchKeyLocked(t, ks)
<1>1. /\ u \in Stores
      /\ u.data = t.data /\ u.expires = t.expires /\ u.notBefore = t.notBefore
      /\ u.plain = t.plain /\ u.version = s.version + 1
      /\ \A k \in Keys : u.keyVersion[k] = IF k \in ks THEN s.version + 1 ELSE s.keyVersion[k]
  BY TouchFields
<1>2. s.version \in Nat /\ \A k \in Keys : s.keyVersion[k] \in Nat /\ s.keyVersion[k] <= s.version
  BY Fields DEF GoodStore
<1> HIDE DEF u
<1>3. GoodStore(u)
  BY <1>1, <1>2 DEF GoodStore, GoodKey
<1>5. Traced(s, u)
  <2>1. s.version <= u.version
    BY <1>1, <1>2
  <2>2. ASSUME NEW k \in Keys
        PROVE  \/ u.keyVersion[k] > s.version
               \/ u.keyVersion[k] = s.keyVersion[k] /\ u.data[k] = s.data[k]
    <3>1. CASE k \in ks
      BY <1>1, <1>2, <3>1
    <3>2. CASE k \notin ks
      BY <1>1, <3>2
    <3> QED
      BY <3>1, <3>2
  <2> QED
    BY <2>1, <2>2 DEF Traced
<1> QED
  BY <1>3, <1>5 DEF Sound, u

(***************************************************************************)
(* A change to one key that leaves it in order, and touches it, is sound.  *)
(***************************************************************************)
LEMMA EditSound ==
  ASSUME NEW s, GoodStore(s), NEW k \in Keys, NEW t, Edited(s, t, k), GoodKey(t, k)
  PROVE  Sound(s, touchKeyLocked(t, {k}))
<1>1. \A l \in Keys \ {k} : GoodKey(t, l)
  BY DEF Edited, GoodStore, GoodKey
<1> QED
  BY <1>1, TouchSound DEF Edited

(***************************************************************************)
(* Deletion takes a key out of every map; commands begin with it when the  *)
(* key has expired.                                                        *)
(***************************************************************************)
LEMMA NothingType == Nothing \in [Kinds -> 0..MaxSize] /\ \A j \in Kinds : Nothing[j] = 0
BY DEF Nothing, MaxSize

(***************************************************************************)
(* deleteKeyLocked is sound; it leaves nothing of the key and everything   *)
(* of the others.                                                          *)
(***************************************************************************)
LEMMA DeleteSound ==
  ASSUME NEW s, GoodStore(s), NEW k \in Keys
  PROVE  LET t == deleteKeyLocked(s, k) IN
         /\ Sound(s, t)
         /\ t.data[k] = Nothing /\ t.expires[k] = "none" /\ ~t.notBefore[k] /\ t.plain[k]
         /\ \A l \in Keys \ {k} :
              /\ t.data[l] = s.data[l] /\ t.expires[l] = s.expires[l]
              /\ t.notBefore[l] = s.notBefore[l] /\ t.plain[l] = s.plain[l]
<1> DEFINE u == [s EXCEPT !.data[k] = Nothing, !.expires[k] = "none",
                          !.notBefore[k] = FALSE, !.plain[k] = TRUE]
<1>1. s \in Stores
  BY DEF GoodStore
<1>2. /\ u.data = [s.data EXCEPT ![k] = Nothing] /\ u.expires = [s.expires EXCEPT ![k] = "none"]
      /\ u.notBefore = [s.notBefore EXCEPT ![k] = FALSE]
      /\ u.plain = [s.plain EXCEPT ![k] = TRUE]
      /\ u.version = s.version /\ u.keyVersion = s.keyVersion
  BY <1>1 DEF Stores
<1>3. u \in Stores
  BY <1>1, NothingType DEF Stores, Times
<1>4. /\ u.data[k] = Nothing /\ u.expires[k] = "none" /\ ~u.notBefore[k] /\ u.plain[k]
      /\ \A l \in Keys \ {k} :
           /\ u.data[l] = s.data[l] /\ u.expires[l] = s.expires[l]
           /\ u.notBefore[l] = s.notBefore[l] /\ u.plain[l] = s.plain[l]
  BY <1>1, <1>2, Fields
<1> HIDE DEF u
<1>5. GoodKey(u, k)
  BY <1>4, NothingType DEF GoodKey
<1>6. Sound(s, touchKeyLocked(u, {k}))
  BY <1>2, <1>3, <1>4, <1>5, EditSound DEF Edited
<1>7. LET t == touchKeyLocked(u, {k}) IN
      t.data = u.data /\ t.expires = u.expires /\ t.notBefore = u.notBefore /\ t.plain = u.plain
  BY <1>3, TouchFields
<1>8. deleteKeyLocked(s, k) = touchKeyLocked(u, {k})
  BY DEF deleteKeyLocked, u
<1> QED
  BY <1>4, <1>6, <1>7, <1>8

(***************************************************************************)
(* expiredKeyLocked is sound.                                              *)
(***************************************************************************)
LEMMA ExpiredSound ==
  ASSUME NEW s, GoodStore(s), NEW k \in Keys
  PROVE  Sound(s, expiredKeyLocked(s, k))
BY DeleteSound, SoundStays DEF expiredKeyLocked

(***************************************************************************)
(* A command that first drops an expired key is sound if the rest of it    *)
(* is.                                                                     *)
(***************************************************************************)
LEMMA AfterExpiry ==
  ASSUME NEW s, GoodStore(s), NEW k \in Keys, NEW t,
         GoodStore(expiredKeyLocked(s, k)) => Sound(expiredKeyLocked(s, k), t)
  PROVE  Sound(s, t)
<1>1. s \in Stores
  BY DEF GoodStore
<1>2. Sound(s, expiredKeyLocked(s, k))
  BY ExpiredSound
<1>3. GoodStore(expiredKeyLocked(s, k))
  BY <1>2 DEF Sound
<1> QED
  BY <1>1, <1>2, <1>3, SoundTransitive

(***************************************************************************)
(* A new value of a kind that is not counted.                              *)
(***************************************************************************)
LEMMA ChangedFields ==
  ASSUME NEW s \in Stores, NEW k \in Keys, NEW kind \in Kinds
  PROVE  LET t == Changed(s, k, kind) IN
         /\ Edited(s, t, k)
         /\ t.data[k][kind] \in {1, 2}
         /\ \A j \in Kinds \ {kind} : t.data[k][j] = s.data[k][j]
         /\ t.expires = s.expires /\ t.notBefore = s.notBefore
         /\ t.plain[k] = (s.plain[k] /\ kind \in Core)
<1> DEFINE v == IF s.data[k][kind] = 1 THEN 2 ELSE 1
           t == Changed(s, k, kind)
<1>1. /\ t.data = [s.data EXCEPT ![k] = [s.data[k] EXCEPT ![kind] = v]]
      /\ t.plain = [s.plain EXCEPT ![k] = s.plain[k] /\ kind \in Core]
      /\ t.expires = s.expires /\ t.notBefore = s.notBefore
      /\ t.version = s.version /\ t.keyVersion = s.keyVersion
  BY DEF Changed, Stores
<1>2. v \in 0..MaxSize /\ v \in {1, 2}
  BY DEF MaxSize
<1>3. /\ t.data \in [Keys -> [Kinds -> 0..MaxSize]]
      /\ t.plain \in [Keys -> BOOLEAN]
  <2> HIDE DEF v, t
  <2> QED
    BY <1>1, <1>2, Fields
<1>4. t \in Stores
  BY <1>1, <1>3 DEF Changed, Stores
<1> HIDE DEF v, t
<1>5. /\ t.data[k][kind] = v /\ \A j \in Kinds \ {kind} : t.data[k][j] = s.data[k][j]
      /\ t.plain[k] = (s.plain[k] /\ kind \in Core)
      /\ \A l \in Keys \ {k} : t.data[l] = s.data[l] /\ t.plain[l] = s.plain[l]
  BY <1>1, Fields
<1> QED
  BY <1>1, <1>2, <1>4, <1>5 DEF Edited, t

(***************************************************************************)
(* Three fields of a store replaced by others of their types.              *)
(***************************************************************************)
WithFields(s, d, e, b) == [s EXCEPT !.data = d, !.expires = e, !.plain = b]

(***************************************************************************)
(* A store with its contents, expiry times and hiding replaced is a store. *)
(***************************************************************************)
LEMMA StoreOfFields ==
  ASSUME NEW s \in Stores, NEW d \in [Keys -> [Kinds -> 0..MaxSize]], NEW e \in [Keys -> Times],
         NEW b \in [Keys -> BOOLEAN]
  PROVE  WithFields(s, d, e, b) \in Stores
BY DEF Stores, WithFields

(***************************************************************************)
(* Two changes to one key are one change to it.                            *)
(***************************************************************************)
LEMMA EditedTransitive ==
  ASSUME NEW s, NEW t, NEW u, NEW k, Edited(s, t, k), Edited(t, u, k)
  PROVE  Edited(s, u, k)
BY DEF Edited

(***************************************************************************)
(* The updates that set several fields of a key at once.                   *)
(***************************************************************************)
LEMMA ExpiresFields ==
  ASSUME NEW s \in Stores, NEW k \in Keys, NEW e \in Times
  PROVE  LET t == [s EXCEPT !.expires[k] = e] IN
         /\ Edited(s, t, k)
         /\ t.data = s.data /\ t.expires[k] = e /\ t.notBefore = s.notBefore
         /\ t.plain = s.plain
<1> DEFINE t == [s EXCEPT !.expires[k] = e]
<1>1. /\ t.data = s.data /\ t.expires = [s.expires EXCEPT ![k] = e] /\ t.notBefore = s.notBefore
      /\ t.plain = s.plain /\ t.version = s.version /\ t.keyVersion = s.keyVersion
  BY DEF Stores
<1>2. t \in Stores
  BY DEF Stores
<1> HIDE DEF t
<1>3. t.expires[k] = e /\ \A l \in Keys \ {k} : t.expires[l] = s.expires[l]
  BY <1>1, Fields
<1> QED
  BY <1>1, <1>2, <1>3 DEF Edited, t

(***************************************************************************)
(* A key with new contents and a new expiry time.                          *)
(***************************************************************************)
Overwritten(s, k, d, e) == [s EXCEPT !.data[k] = d, !.expires[k] = e]

(***************************************************************************)
(* Overwriting changes that key's contents and expiry time only.           *)
(***************************************************************************)
LEMMA OverwriteFields ==
  ASSUME NEW s \in Stores, NEW k \in Keys, NEW d \in [Kinds -> 0..MaxSize], NEW e \in Times
  PROVE  LET t == Overwritten(s, k, d, e) IN
         /\ Edited(s, t, k)
         /\ t.data[k] = d /\ t.expires[k] = e /\ t.notBefore = s.notBefore
         /\ t.plain = s.plain
<1> DEFINE t == Overwritten(s, k, d, e)
<1>1. /\ t.data = [s.data EXCEPT ![k] = d] /\ t.expires = [s.expires EXCEPT ![k] = e]
      /\ t.notBefore = s.notBefore
      /\ t.plain = s.plain /\ t.version = s.version /\ t.keyVersion = s.keyVersion
  BY DEF Stores, Overwritten
<1>2. t \in Stores
  BY DEF Stores, Overwritten
<1> HIDE DEF t
<1>3. /\ t.data[k] = d /\ t.expires[k] = e
      /\ \A l \in Keys \ {k} : t.expires[l] = s.expires[l] /\ t.data[l] = s.data[l]
  BY <1>1, Fields
<1> QED
  BY <1>1, <1>2, <1>3 DEF Edited, t

(***************************************************************************)
(* The eight maps.                                                         *)
(***************************************************************************)
LEMMA KindsAre ==
  Kinds = {"string", "hash", "list", "set", "zset", "hll", "json", "timeseries"}
BY DEF Kinds, Movable, Core

-----------------------------------------------------------------------------
(***************************************************************************)
(* Strings.                                                                *)
(***************************************************************************)
LEMMA AssignSound ==
  ASSUME NEW s, GoodStore(s), NEW k \in Keys, NEW e \in Times
  PROVE  Sound(s, Assign(s, k, e))
<1> DEFINE c == Changed(s, k, "string")
           d == [j \in Kinds |-> IF j \in Movable \ {"string"} THEN 0 ELSE c.data[k][j]]
           u == Overwritten(c, k, d, e)
<1>1. s \in Stores /\ GoodKey(s, k)
  BY DEF GoodStore
<1>2. /\ Edited(s, c, k) /\ c.data[k]["string"] \in {1, 2}
      /\ \A j \in Kinds \ {"string"} : c.data[k][j] = s.data[k][j]
      /\ c.notBefore = s.notBefore /\ c.plain[k] = s.plain[k]
  <2>1. s.plain[k] \in BOOLEAN
    BY <1>1, Fields
  <2> QED
    BY <1>1, <2>1, ChangedFields, KindsAre DEF Core
<1>3. c \in Stores
  BY <1>2 DEF Edited
<1> HIDE DEF c
<1>4. c.data[k] \in [Kinds -> 0..MaxSize]
  BY <1>3, Fields
<1>5. d \in [Kinds -> 0..MaxSize]
  BY <1>4 DEF MaxSize
<1>6. /\ d["string"] \in {1, 2}
      /\ \A j \in Movable \ {"string"} : d[j] = 0
      /\ \A j \in Kinds \ Movable : d[j] = s.data[k][j]
  BY <1>2, KindsAre DEF Movable, Core
<1> HIDE DEF d
<1>7. /\ Edited(c, u, k) /\ u.data[k] = d /\ u.expires[k] = e
      /\ u.notBefore = c.notBefore /\ u.plain = c.plain
  BY <1>3, <1>5, OverwriteFields
<1> HIDE DEF u
<1>8. GoodKey(u, k)
  BY <1>1, <1>2, <1>6, <1>7, KindsAre DEF GoodKey, Movable, Core
<1>9. Sound(s, touchKeyLocked(u, {k}))
  BY <1>2, <1>7, <1>8, EditedTransitive, EditSound
<1>10. Assign(s, k, e) = touchKeyLocked(u, {k})
  BY DEF Assign, Overwritten, u, d, c
<1> QED
  BY <1>9, <1>10

(***************************************************************************)
(* A string written to a key that holds no other kind, or is not there.    *)
(***************************************************************************)
LEMMA WriteSound ==
  ASSUME NEW s, GoodStore(s), NEW k \in Keys, NEW kind \in Kinds,
         s.plain[k] /\ kind \in Core => Only(s, k, {kind})
  PROVE  /\ Sound(s, touchKeyLocked(Changed(s, k, kind), {k}))
         /\ \A e \in Times :
              Sound(s, touchKeyLocked([Changed(s, k, kind) EXCEPT !.expires[k] = e], {k}))
<1> DEFINE c == Changed(s, k, kind)
<1>1. s \in Stores /\ GoodKey(s, k)
  BY DEF GoodStore
<1>2. /\ Edited(s, c, k) /\ c.data[k][kind] \in {1, 2}
      /\ \A j \in Kinds \ {kind} : c.data[k][j] = s.data[k][j]
      /\ c.notBefore = s.notBefore /\ c.plain[k] = (s.plain[k] /\ kind \in Core)
  BY <1>1, ChangedFields
<1>3. c \in Stores
  BY <1>2 DEF Edited
<1> HIDE DEF c
<1>4. ASSUME c.plain[k]
      PROVE  /\ kind \in Core /\ ~c.notBefore[k] /\ c.data[k][kind] > 0
             /\ \A j \in Kinds : c.data[k][j] > 0 => j = kind
  <2>1. s.plain[k] /\ kind \in Core
    BY <1>2, <1>4, Zenon
  <2>2. Only(s, k, {kind})
    BY <2>1
  <2> QED
    BY <1>1, <1>2, <2>1, <2>2 DEF Only, Holds, GoodKey
<1>5. GoodKey(c, k)
  BY <1>4 DEF GoodKey
<1>6. ASSUME NEW e \in Times
      PROVE  Sound(s, touchKeyLocked([c EXCEPT !.expires[k] = e], {k}))
  <2> DEFINE u == [c EXCEPT !.expires[k] = e]
  <2>1. /\ Edited(c, u, k) /\ u.data = c.data /\ u.notBefore = c.notBefore /\ u.plain = c.plain
    BY <1>3, ExpiresFields
  <2> HIDE DEF u
  <2>2. GoodKey(u, k)
    BY <1>4, <2>1 DEF GoodKey
  <2>3. Sound(s, touchKeyLocked(u, {k}))
    BY <1>2, <2>1, <2>2, EditedTransitive, EditSound
  <2> QED
    BY <2>3 DEF u
<1>7. Sound(s, touchKeyLocked(c, {k}))
  BY <1>2, <1>5, EditSound
<1> QED
  BY <1>6, <1>7 DEF c

(***************************************************************************)
(* A plain key that does not exist is empty.                               *)
(***************************************************************************)
LEMMA AbsentIsEmpty ==
  ASSUME NEW s, GoodStore(s), NEW k \in Keys, ~existsLocked(s, k), s.plain[k]
  PROVE  \A kind \in Kinds : Only(s, k, {kind})
BY DEF GoodStore, GoodKey, existsLocked, Only, Holds

(***************************************************************************)
(* SET NX is sound.                                                        *)
(***************************************************************************)
LEMMA SetNXSound ==
  ASSUME NEW s, GoodStore(s), NEW k \in Keys, NEW e \in Times
  PROVE  Sound(s, SetNX(s, k, e))
<1> DEFINE p == expiredKeyLocked(s, k)
           f == IF e = "none" THEN Changed(p, k, "string").expires[k] ELSE e
<1> SUFFICES ASSUME GoodStore(p) PROVE Sound(p, SetNX(s, k, e))
  BY AfterExpiry
<1> HIDE DEF p
<1>1. CASE existsLocked(p, k)
  BY <1>1, SoundStays DEF SetNX, p
<1>2. CASE ~existsLocked(p, k)
  <2>1. "string" \in Kinds
    BY KindsAre
  <2>2. f \in Times
    <3>1. p \in Stores
      BY DEF GoodStore
    <3>2. Changed(p, k, "string") \in Stores
      BY <2>1, <3>1, ChangedFields DEF Edited
    <3> QED
      BY <3>2, Fields
  <2>3. Sound(p, touchKeyLocked([Changed(p, k, "string") EXCEPT !.expires[k] = f], {k}))
    <3> HIDE DEF f
    <3> QED
      BY <1>2, <2>1, <2>2, AbsentIsEmpty, WriteSound
  <2> QED
    BY <1>2, <2>3 DEF SetNX, p
<1> QED
  BY <1>1, <1>2

(***************************************************************************)
(* SET XX is sound.                                                        *)
(***************************************************************************)
LEMMA SetXXSound ==
  ASSUME NEW s, GoodStore(s), NEW k \in Keys, NEW e \in Times
  PROVE  Sound(s, SetXX(s, k, e))
<1> DEFINE p == expiredKeyLocked(s, k)
<1> SUFFICES ASSUME GoodStore(p) PROVE Sound(p, SetXX(s, k, e))
  BY AfterExpiry
<1> HIDE DEF p
<1>1. SetXX(s, k, e) \in {p, Assign(p, k, e)}
  BY DEF SetXX, p
<1> QED
  BY <1>1, AssignSound, SoundStays

(***************************************************************************)
(* The commands that edit a string in place, and GETSET, are sound.        *)
(***************************************************************************)
LEMMA EditCommandsSound ==
  ASSUME NEW s, GoodStore(s), NEW k \in Keys
  PROVE  Sound(s, Edit(s, k)) /\ Sound(s, GetSet(s, k))
<1> DEFINE p == expiredKeyLocked(s, k)
<1> SUFFICES ASSUME GoodStore(p) PROVE Sound(p, Edit(s, k)) /\ Sound(p, GetSet(s, k))
  BY AfterExpiry
<1> HIDE DEF p
<1>1. "string" \in Kinds /\ "none" \in Times
  BY KindsAre DEF Times
<1>2. Sound(p, Edit(s, k))
  <2>1. CASE Only(p, k, {"string"})
    BY <1>1, <2>1, WriteSound DEF Edit, p
  <2>2. CASE ~Only(p, k, {"string"})
    BY <2>2, SoundStays DEF Edit, p
  <2> QED
    BY <2>1, <2>2
<1>3. Sound(p, GetSet(s, k))
  <2>1. CASE Only(p, k, {"string"})
    BY <1>1, <2>1, WriteSound DEF GetSet, p
  <2>2. CASE ~Only(p, k, {"string"})
    BY <2>2, SoundStays DEF GetSet, p
  <2> QED
    BY <2>1, <2>2
<1> QED
  BY <1>2, <1>3

(***************************************************************************)
(* A new expiry time for a key that is there; "none" for any key.          *)
(***************************************************************************)
LEMMA ExpirySound ==
  ASSUME NEW s, GoodStore(s), NEW k \in Keys, NEW e \in Times,
         e = "none" \/ \E j \in Kinds : s.data[k][j] > 0
  PROVE  Sound(s, touchKeyLocked([s EXCEPT !.expires[k] = e], {k}))
<1> DEFINE u == [s EXCEPT !.expires[k] = e]
<1>1. s \in Stores /\ GoodKey(s, k)
  BY DEF GoodStore
<1>2. /\ Edited(s, u, k) /\ u.data = s.data /\ u.notBefore = s.notBefore
      /\ u.plain = s.plain /\ u.expires[k] = e
  BY <1>1, ExpiresFields
<1> HIDE DEF u
<1>3. GoodKey(u, k)
  BY <1>1, <1>2 DEF GoodKey
<1>4. Sound(s, touchKeyLocked(u, {k}))
  BY <1>2, <1>3, EditSound
<1> QED
  BY <1>4 DEF u

(***************************************************************************)
(* GETEX and GETDEL are sound.                                             *)
(***************************************************************************)
LEMMA GetCommandsSound ==
  ASSUME NEW s, GoodStore(s), NEW k \in Keys, NEW e \in Times
  PROVE  Sound(s, GetEx(s, k, e)) /\ Sound(s, GetDel(s, k))
<1> DEFINE p == expiredKeyLocked(s, k)
<1> SUFFICES ASSUME GoodStore(p) PROVE Sound(p, GetEx(s, k, e)) /\ Sound(p, GetDel(s, k))
  BY AfterExpiry
<1> HIDE DEF p
<1>1. "string" \in Kinds
  BY KindsAre
<1>2. Sound(p, GetEx(s, k, e))
  <2>1. CASE p.data[k]["string"] > 0
    BY <1>1, <2>1, ExpirySound DEF GetEx, p
  <2>2. CASE ~(p.data[k]["string"] > 0)
    BY <2>2, SoundStays DEF GetEx, p
  <2> QED
    BY <2>1, <2>2
<1>3. GetDel(s, k) \in {p, deleteKeyLocked(p, k)}
  BY DEF GetDel, p
<1> QED
  BY <1>2, <1>3, DeleteSound, SoundStays

(***************************************************************************)
(* EXPIRE, PERSIST and DEL are sound.                                      *)
(***************************************************************************)
LEMMA ExpiryCommandsSound ==
  ASSUME NEW s, GoodStore(s), NEW k \in Keys, NEW e \in Times
  PROVE  Sound(s, Expire(s, k, e)) /\ Sound(s, Persist(s, k)) /\ Sound(s, Del(s, k))
<1> DEFINE p == expiredKeyLocked(s, k)
<1> SUFFICES ASSUME GoodStore(p)
             PROVE  Sound(p, Expire(s, k, e)) /\ Sound(p, Persist(s, k)) /\ Sound(p, Del(s, k))
  BY AfterExpiry
<1> HIDE DEF p
<1>1. Sound(p, Expire(s, k, e))
  <2>1. CASE existsLocked(p, k)
    <3>1. \E j \in Kinds : p.data[k][j] > 0
      BY <2>1 DEF existsLocked, Holds
    <3> QED
      BY <2>1, <3>1, ExpirySound DEF Expire, p
  <2>2. CASE ~existsLocked(p, k)
    BY <2>2, SoundStays DEF Expire, p
  <2> QED
    BY <2>1, <2>2
<1>2. Sound(p, Persist(s, k))
  <2>1. "none" \in Times
    BY DEF Times
  <2>2. Persist(s, k) \in {p, touchKeyLocked([p EXCEPT !.expires[k] = "none"], {k})}
    BY DEF Persist, p
  <2> QED
    BY <2>1, <2>2, ExpirySound, SoundStays
<1>3. Del(s, k) \in {p, deleteKeyLocked(p, k)}
  BY DEF Del, p
<1> QED
  BY <1>1, <1>2, <1>3, DeleteSound, SoundStays

(***************************************************************************)
(* A key in a new hiding place is not a plain one.                         *)
(***************************************************************************)
Hidden(s, k, d, e) ==
  [s EXCEPT !.data[k] = d, !.notBefore[k] = TRUE, !.expires[k] = e, !.plain[k] = FALSE]

(***************************************************************************)
(* SET with a delay, which hides the key until then, is sound.             *)
(***************************************************************************)
LEMMA SetDelayedSound ==
  ASSUME NEW s, GoodStore(s), NEW k \in Keys, NEW e \in Times
  PROVE  Sound(s, SetDelayed(s, k, e))
<1> DEFINE c == Changed(s, k, "string")
           d == [j \in Kinds |-> IF j \in {"string", "timeseries"} THEN c.data[k][j] ELSE 0]
           u == Hidden(c, k, d, e)
<1>1. s \in Stores
  BY DEF GoodStore
<1>2. Edited(s, c, k)
  BY <1>1, ChangedFields, KindsAre
<1>3. c \in Stores
  BY <1>2 DEF Edited
<1> HIDE DEF c
<1>4. d \in [Kinds -> 0..MaxSize]
  BY <1>3, Fields DEF MaxSize
<1> HIDE DEF d
<1>5. /\ u.data = [c.data EXCEPT ![k] = d] /\ u.expires = [c.expires EXCEPT ![k] = e]
      /\ u.notBefore = [c.notBefore EXCEPT ![k] = TRUE]
      /\ u.plain = [c.plain EXCEPT ![k] = FALSE]
      /\ u.version = c.version /\ u.keyVersion = c.keyVersion
  BY <1>3 DEF Stores, Hidden
<1>6. u \in Stores
  BY <1>3, <1>4 DEF Stores, Hidden
<1> HIDE DEF u
<1>7. ~u.plain[k] /\ Edited(c, u, k)
  BY <1>3, <1>5, <1>6, Fields DEF Edited
<1>8. Sound(s, touchKeyLocked(u, {k}))
  BY <1>2, <1>7, EditedTransitive, EditSound DEF GoodKey
<1>9. SetDelayed(s, k, e) = touchKeyLocked(u, {k})
  BY DEF SetDelayed, Hidden, u, d, c
<1> QED
  BY <1>8, <1>9

(***************************************************************************)
(* A value written to a key that has just been deleted.                    *)
(***************************************************************************)
LEMMA ReplaceSound ==
  ASSUME NEW s, GoodStore(s), NEW k \in Keys, NEW kind \in Kinds
  PROVE  Sound(s, touchKeyLocked(Changed(deleteKeyLocked(s, k), k, kind), {k}))
<1> DEFINE q == deleteKeyLocked(s, k)
<1>1. Sound(s, q) /\ q.data[k] = Nothing
  BY DeleteSound
<1> HIDE DEF q
<1>2. GoodStore(q) /\ Only(q, k, {kind}) /\ s \in Stores
  BY <1>1, NothingType DEF Sound, GoodStore, Only, Holds
<1>3. Sound(q, touchKeyLocked(Changed(q, k, kind), {k}))
  BY <1>2, WriteSound
<1>4. Sound(s, touchKeyLocked(Changed(q, k, kind), {k}))
  BY <1>1, <1>2, <1>3, SoundTransitive
<1> QED
  BY <1>4 DEF q

(***************************************************************************)
(* BITOP and the downsampling of a series, which write another key, are    *)
(* sound.                                                                  *)
(***************************************************************************)
LEMMA BitOpSound ==
  ASSUME NEW s, GoodStore(s), NEW k \in Keys, NEW dst \in Keys
  PROVE  Sound(s, BitOp(s, k, dst)) /\ Sound(s, TSDownsample(s, k, dst))
<1> DEFINE p == expiredKeyLocked(s, k)
<1> SUFFICES ASSUME GoodStore(p)
             PROVE  Sound(p, BitOp(s, k, dst)) /\ Sound(p, TSDownsample(s, k, dst))
  BY AfterExpiry
<1> HIDE DEF p
<1>1. "string" \in Kinds /\ "timeseries" \in Kinds
  BY KindsAre
<1>2. /\ BitOp(s, k, dst) \in
           {p, touchKeyLocked(Changed(deleteKeyLocked(p, dst), dst, "string"), {dst})}
      /\ TSDownsample(s, k, dst) \in
           {p, touchKeyLocked(Changed(deleteKeyLocked(p, dst), dst, "timeseries"), {dst})}
  BY DEF BitOp, TSDownsample, p
<1> QED
  BY <1>1, <1>2, ReplaceSound, SoundStays

(***************************************************************************)
(* MSETNX: the second write finds its key empty, or written by the first.  *)
(***************************************************************************)
Put(s, k) == touchKeyLocked([Changed(s, k, "string") EXCEPT !.expires[k] = "none"], {k})

(***************************************************************************)
(* Put writes a string to its key and leaves the others alone.             *)
(***************************************************************************)
LEMMA PutFields ==
  ASSUME NEW s \in Stores, NEW k \in Keys
  PROVE  LET t == Put(s, k) IN
         /\ t.data[k]["string"] > 0
         /\ \A l \in Keys \ {k} : t.data[l] = s.data[l] /\ t.plain[l] = s.plain[l]
<1> DEFINE c == Changed(s, k, "string")
           u == [c EXCEPT !.expires[k] = "none"]
<1>1. Edited(s, c, k) /\ c.data[k]["string"] \in {1, 2}
  BY ChangedFields, KindsAre
<1>2. c \in Stores /\ "none" \in Times
  BY <1>1 DEF Edited, Times
<1> HIDE DEF c
<1>3. Edited(c, u, k) /\ u.data = c.data /\ u.plain = c.plain
  BY <1>2, ExpiresFields
<1>4. u \in Stores
  BY <1>3 DEF Edited
<1> HIDE DEF u
<1>5. Put(s, k) = touchKeyLocked(u, {k})
  BY DEF Put, u, c
<1>6. LET t == touchKeyLocked(u, {k}) IN t.data = u.data /\ t.plain = u.plain
  BY <1>4, TouchFields
<1>7. /\ u.data[k]["string"] > 0
      /\ \A l \in Keys \ {k} : u.data[l] = s.data[l] /\ u.plain[l] = s.plain[l]
  BY <1>1, <1>3 DEF Edited
<1> QED
  BY <1>5, <1>6, <1>7

(***************************************************************************)
(* Put of a key that holds at most a string is sound.                      *)
(***************************************************************************)
LEMMA PutSound ==
  ASSUME NEW s, GoodStore(s), NEW k \in Keys, s.plain[k] => Only(s, k, {"string"})
  PROVE  Sound(s, Put(s, k))
BY WriteSound, KindsAre DEF Put, Times

(***************************************************************************)
(* MSETNX of two keys is sound: all of it or none.                         *)
(***************************************************************************)
LEMMA MSetNXSound ==
  ASSUME NEW s, GoodStore(s), NEW k \in Keys, NEW l \in Keys
  PROVE  Sound(s, MSetNX(s, k, l))
<1> DEFINE p == expiredKeyLocked(s, k)
           q == expiredKeyLocked(p, l)
           r == Put(q, k)
<1> SUFFICES ASSUME GoodStore(p) PROVE Sound(p, MSetNX(s, k, l))
  BY AfterExpiry
<1>1. Sound(p, q)
  BY ExpiredSound
<1>2. q \in {p, deleteKeyLocked(p, l)}
  BY DEF expiredKeyLocked
<1>3. MSetNX(s, k, l) = IF existsLocked(p, k) THEN p ELSE IF existsLocked(q, l) THEN q
                        ELSE Put(r, l)
  BY DEF MSetNX, Put
<1> HIDE DEF p, q
<1>4. GoodStore(q) /\ p \in Stores /\ q \in Stores
  BY <1>1 DEF Sound, GoodStore
<1>5. CASE existsLocked(p, k) \/ existsLocked(q, l)
  BY <1>1, <1>3, <1>5, SoundStays
<1>6. CASE ~existsLocked(p, k) /\ ~existsLocked(q, l)
  <2>1. q.plain[k] => Only(q, k, {"string"})
    <3>1. CASE q = p
      BY <1>6, <3>1, AbsentIsEmpty, KindsAre
    <3>2. CASE q = deleteKeyLocked(p, l)
      <4>1. CASE k = l
        BY <3>2, <4>1, DeleteSound, NothingType DEF Only, Holds
      <4>2. CASE k # l
        <5>1. q.data[k] = p.data[k] /\ q.plain[k] = p.plain[k]
          BY <3>2, <4>2, DeleteSound
        <5>2. p.plain[k] => Only(p, k, {"string"})
          BY <1>6, AbsentIsEmpty, KindsAre
        <5> QED
          BY <5>1, <5>2 DEF Only, Holds
      <4> QED
        BY <4>1, <4>2
    <3> QED
      BY <1>2, <3>1, <3>2
  <2>2. Sound(q, r) /\ r.data[k]["string"] > 0
    BY <1>4, <2>1, PutSound, PutFields
  <2>3. k # l => r.data[l] = q.data[l] /\ r.plain[l] = q.plain[l]
    BY <1>4, PutFields
  <2> HIDE DEF r
  <2>4. GoodStore(r)
    BY <2>2 DEF Sound
  <2>5. r.plain[l] => Only(r, l, {"string"})
    <3>1. CASE k = l
      BY <2>2, <2>4, <3>1, KindsAre DEF GoodStore, GoodKey, Only, Holds
    <3>2. CASE k # l
      BY <1>4, <1>6, <2>3, <3>2, AbsentIsEmpty, KindsAre DEF Only, Holds
    <3> QED
      BY <3>1, <3>2
  <2>6. Sound(r, Put(r, l))
    BY <2>4, <2>5, PutSound
  <2>7. Sound(q, Put(r, l))
    BY <1>4, <2>2, <2>6, SoundTransitive
  <2>8. Sound(p, Put(r, l))
    BY <1>1, <1>4, <2>7, SoundTransitive
  <2> QED
    BY <1>3, <1>6, <2>8
<1> QED
  BY <1>5, <1>6

-----------------------------------------------------------------------------
(***************************************************************************)
(* RENAME and COPY.                                                        *)
(***************************************************************************)
Part(d, moved) == [j \in Kinds |-> IF (j \in Movable) = moved THEN d[j] ELSE 0]

(***************************************************************************)
(* The store with the movable parts of k under the name n.                 *)
(***************************************************************************)
Renamed(q, k, n) ==
  [q EXCEPT !.data[n] = Part(q.data[k], TRUE), !.data[k] = Part(@, FALSE),
            !.expires[n] = q.expires[k], !.expires[k] = "none", !.plain[n] = q.plain[k]]

(***************************************************************************)
(* Renaming leaves both keys in order and the others as they were.         *)
(***************************************************************************)
LEMMA RenamedGood ==
  ASSUME NEW q, GoodStore(q), NEW k \in Keys, NEW n \in Keys, k # n, ~q.notBefore[n],
         \E j \in Kinds : q.data[k][j] > 0
  PROVE  LET r == Renamed(q, k, n) IN
         /\ r \in Stores /\ r.version = q.version /\ r.keyVersion = q.keyVersion
         /\ \A l \in Keys \ {k, n} : r.data[l] = q.data[l]
         /\ \A l \in Keys : GoodKey(r, l)
<1> DEFINE d == Part(q.data[k], TRUE)
           f == Part(q.data[k], FALSE)
           r == Renamed(q, k, n)
<1>1. q \in Stores /\ q.data[k] \in [Kinds -> 0..MaxSize] /\ q.expires[k] \in Times
  BY Fields DEF GoodStore
<1>2. /\ d \in [Kinds -> 0..MaxSize] /\ f \in [Kinds -> 0..MaxSize]
      /\ \A j \in Kinds : d[j] = (IF j \in Movable THEN q.data[k][j] ELSE 0)
      /\ \A j \in Kinds : f[j] = (IF j \in Movable THEN 0 ELSE q.data[k][j])
  BY <1>1 DEF Part, MaxSize
<1>3. /\ r.data = [q.data EXCEPT ![n] = d, ![k] = f]
      /\ r.expires = [q.expires EXCEPT ![n] = q.expires[k], ![k] = "none"]
      /\ r.plain = [q.plain EXCEPT ![n] = q.plain[k]] /\ r.notBefore = q.notBefore
      /\ r.version = q.version /\ r.keyVersion = q.keyVersion
  <2>1. [q.data EXCEPT ![n] = d][k] = q.data[k]
    BY <1>1, Fields
  <2> HIDE DEF d, f
  <2>2. r = [q EXCEPT !.data[n] = d, !.data[k] = f, !.expires[n] = q.expires[k],
                      !.expires[k] = "none", !.plain[n] = q.plain[k]]
    BY <1>1, <2>1 DEF Renamed, Stores, d, f
  <2> QED
    BY <1>1, <2>2 DEF Stores
<1> HIDE DEF d, f
<1>4. r \in Stores
  <2>1. /\ [q.data EXCEPT ![n] = d, ![k] = f] \in [Keys -> [Kinds -> 0..MaxSize]]
        /\ [q.expires EXCEPT ![n] = q.expires[k], ![k] = "none"] \in [Keys -> Times]
        /\ [q.plain EXCEPT ![n] = q.plain[k]] \in [Keys -> BOOLEAN]
    BY <1>1, <1>2, Fields DEF Times
  <2>2. r = WithFields(q, r.data, r.expires, r.plain)
    BY <1>1 DEF Stores, Renamed, WithFields
  <2> HIDE DEF r
  <2>3. /\ r.data \in [Keys -> [Kinds -> 0..MaxSize]] /\ r.expires \in [Keys -> Times]
        /\ r.plain \in [Keys -> BOOLEAN]
    BY <1>3, <2>1
  <2>4. WithFields(q, r.data, r.expires, r.plain) \in Stores
    BY <1>1, <2>3, StoreOfFields
  <2> QED
    BY <2>2, <2>4
<1> HIDE DEF r
<1>5. /\ r.data[n] = d /\ r.data[k] = f /\ \A l \in Keys \ {k, n} : r.data[l] = q.data[l]
      /\ r.expires[n] = q.expires[k] /\ r.expires[k] = "none"
      /\ \A l \in Keys \ {k, n} : r.expires[l] = q.expires[l]
      /\ r.plain[n] = q.plain[k] /\ \A l \in Keys \ {n} : r.plain[l] = q.plain[l]
  BY <1>1, <1>3, Fields
<1>6. GoodKey(q, k) /\ \A l \in Keys : GoodKey(q, l)
  BY DEF GoodStore
<1>7. ASSUME r.plain[n] PROVE GoodKey(r, n)
  <2>1. \A j \in Kinds : q.data[k][j] > 0 => j \in Movable
    BY <1>5, <1>6, <1>7 DEF GoodKey, Movable
  <2>2. \A j \in Kinds : d[j] > 0 <=> q.data[k][j] > 0
    BY <1>2, <2>1
  <2>3. \E j \in Kinds : d[j] > 0
    BY <2>2
  <2> QED
    BY <1>3, <1>5, <1>6, <1>7, <2>2, <2>3 DEF GoodKey
<1>8. GoodKey(r, k)
  BY <1>2, <1>3, <1>5, <1>6 DEF GoodKey, Movable
<1>9. ASSUME NEW l \in Keys \ {k, n} PROVE GoodKey(r, l)
  BY <1>3, <1>5, <1>6 DEF GoodKey
<1> QED
  <2>1. GoodKey(r, n)
    BY <1>7 DEF GoodKey
  <2> QED
    BY <1>3, <1>4, <1>5, <1>8, <1>9, <2>1 DEF r

(***************************************************************************)
(* RENAME is sound.                                                        *)
(***************************************************************************)
LEMMA RenameSound ==
  ASSUME NEW s, GoodStore(s), NEW k \in Keys, NEW n \in Keys
  PROVE  Sound(s, Rename(s, k, n))
<1> DEFINE p == expiredKeyLocked(s, k)
           q == deleteKeyLocked(p, n)
<1> SUFFICES ASSUME GoodStore(p) PROVE Sound(p, Rename(s, k, n))
  BY AfterExpiry
<1>1. Sound(p, q) /\ ~q.notBefore[n]
  BY DeleteSound
<1>2. Rename(s, k, n) \in {p, touchKeyLocked(IF k = n THEN q ELSE Renamed(q, k, n), {k, n})}
  BY DEF Rename, Renamed, Part
<1>3. ~existsLocked(p, k) => Rename(s, k, n) = p
  BY DEF Rename
<1>4. \A l \in Keys \ {n} : q.data[l] = p.data[l]
  BY DeleteSound
<1> HIDE DEF p, q
<1>5. GoodStore(q) /\ p \in Stores /\ q \in Stores
  BY <1>1 DEF Sound, GoodStore
<1>6. ASSUME existsLocked(p, k)
      PROVE  Sound(q, touchKeyLocked(IF k = n THEN q ELSE Renamed(q, k, n), {k, n}))
  <2>1. CASE k = n
    BY <1>5, <2>1, TouchSound DEF GoodStore
  <2>2. CASE k # n
    <3> DEFINE r == Renamed(q, k, n)
    <3>1. /\ r \in Stores /\ r.version = q.version /\ r.keyVersion = q.keyVersion
          /\ \A l \in Keys \ {k, n} : r.data[l] = q.data[l]
          /\ \A l \in Keys : GoodKey(r, l)
      <4>1. \E j \in Kinds : q.data[k][j] > 0
        BY <1>6, <1>4, <2>2 DEF existsLocked, Holds
      <4> QED
        BY <1>1, <1>5, <2>2, <4>1, RenamedGood
    <3> HIDE DEF r
    <3>2. Sound(q, touchKeyLocked(r, {k, n}))
      BY <1>5, <3>1, TouchSound
    <3> QED
      BY <2>2, <3>2 DEF r
  <2> QED
    BY <2>1, <2>2
<1> QED
  BY <1>1, <1>2, <1>5, <1>6, <1>3, SoundTransitive, SoundStays

(***************************************************************************)
(* The store with the movable parts of k copied to n.                      *)
(***************************************************************************)
Copied(q, k, n) ==
  LET copied == {j \in Movable : q.data[k][j] > 0} IN
  [q EXCEPT !.data[n] = [j \in Kinds |-> IF j \in copied THEN q.data[k][j] ELSE @[j]],
            !.expires[n] = IF q.expires[k] = "none" THEN @ ELSE q.expires[k],
            !.plain[n] = @ /\ q.plain[k]]

(***************************************************************************)
(* Copying onto a key that holds nothing, and touching it, is sound.       *)
(***************************************************************************)
LEMMA CopiedSound ==
  ASSUME NEW q, GoodStore(q), NEW k \in Keys, NEW n \in Keys,
         q.plain[n] => \A kind \in Kinds : Only(q, n, {kind}),
         (\E j \in Kinds : q.data[k][j] > 0) \/ (k = n /\ q.expires[n] = "none")
  PROVE  Sound(q, touchKeyLocked(Copied(q, k, n), {n}))
<1> DEFINE d == [j \in Kinds |-> IF j \in Movable /\ q.data[k][j] > 0 THEN q.data[k][j]
                                 ELSE q.data[n][j]]
           e == IF q.expires[k] = "none" THEN q.expires[n] ELSE q.expires[k]
           b == q.plain[n] /\ q.plain[k]
           r == Copied(q, k, n)
<1>1. /\ q \in Stores /\ q.data[k] \in [Kinds -> 0..MaxSize] /\ q.data[n] \in [Kinds -> 0..MaxSize]
      /\ q.expires[k] \in Times /\ q.expires[n] \in Times
  BY Fields DEF GoodStore
<1>2. d \in [Kinds -> 0..MaxSize] /\ e \in Times /\ b \in BOOLEAN
  BY <1>1
<1>3. r = [q EXCEPT !.data[n] = d, !.expires[n] = e, !.plain[n] = b]
  <2>1. d = [j \in Kinds |-> IF j \in {i \in Movable : q.data[k][i] > 0} THEN q.data[k][j]
                             ELSE q.data[n][j]]
    OBVIOUS
  <2> HIDE DEF d
  <2> QED
    BY <1>1, <2>1 DEF Copied
<1> HIDE DEF d, e, b
<1>4. /\ r.data = [q.data EXCEPT ![n] = d] /\ r.expires = [q.expires EXCEPT ![n] = e]
      /\ r.plain = [q.plain EXCEPT ![n] = b] /\ r.notBefore = q.notBefore
      /\ r.version = q.version /\ r.keyVersion = q.keyVersion
  BY <1>1, <1>3 DEF Stores
<1>5. r \in Stores
  <2>1. /\ [q.data EXCEPT ![n] = d] \in [Keys -> [Kinds -> 0..MaxSize]]
        /\ [q.expires EXCEPT ![n] = e] \in [Keys -> Times]
        /\ [q.plain EXCEPT ![n] = b] \in [Keys -> BOOLEAN]
    BY <1>1, <1>2, Fields
  <2>2. r = WithFields(q, r.data, r.expires, r.plain)
    BY <1>1, <1>3 DEF Stores, WithFields
  <2> HIDE DEF r
  <2>3. /\ r.data \in [Keys -> [Kinds -> 0..MaxSize]] /\ r.expires \in [Keys -> Times]
        /\ r.plain \in [Keys -> BOOLEAN]
    BY <1>4, <2>1
  <2>4. WithFields(q, r.data, r.expires, r.plain) \in Stores
    BY <1>1, <2>3, StoreOfFields
  <2> QED
    BY <2>2, <2>4
<1> HIDE DEF r
<1>6. Edited(q, r, n) /\ r.data[n] = d /\ r.expires[n] = e /\ r.plain[n] = b
  BY <1>1, <1>4, <1>5, Fields DEF Edited
<1>7. GoodKey(q, k) /\ GoodKey(q, n)
  BY DEF GoodStore
<1>8. ASSUME r.plain[n] PROVE GoodKey(r, n)
  <2>1. q.plain[n] /\ q.plain[k]
    BY <1>6, <1>8 DEF b
  <2>2. \A j \in Kinds : ~(q.data[n][j] > 0)
    <3>1. Only(q, n, {"string"}) /\ Only(q, n, {"hash"})
      BY <2>1, KindsAre
    <3> QED
      BY <3>1 DEF Only, Holds
  <2>3. \A j \in Kinds : q.data[n][j] = 0 /\ q.data[k][j] \in Nat
    BY <1>1, <2>2 DEF MaxSize
  <2>4. \A j \in Kinds : d[j] = q.data[k][j]
    <3>1. \A j \in Kinds : q.data[k][j] > 0 => j \in Movable
      BY <1>7, <2>1 DEF GoodKey, Movable
    <3> QED
      BY <2>3, <3>1 DEF d
  <2>5. CASE \E j \in Kinds : q.data[k][j] > 0
    <3>1. \E j \in Kinds : r.data[n][j] > 0
      BY <1>6, <2>4, <2>5
    <3> QED
      BY <1>4, <1>6, <1>7, <2>1, <2>4, <3>1 DEF GoodKey
  <2>6. CASE k = n /\ q.expires[n] = "none"
    BY <1>4, <1>6, <1>7, <2>1, <2>4, <2>6 DEF GoodKey, e
  <2> QED
    BY <2>5, <2>6
<1>9. GoodKey(r, n)
  BY <1>8 DEF GoodKey
<1>10. Sound(q, touchKeyLocked(r, {n}))
  BY <1>6, <1>9, EditSound
<1> QED
  BY <1>10 DEF r

(***************************************************************************)
(* Dropping an expired key a second time drops nothing.                    *)
(***************************************************************************)
LEMMA ExpiredTwice ==
  ASSUME NEW s, GoodStore(s), NEW k \in Keys
  PROVE  expiredKeyLocked(expiredKeyLocked(s, k), k) = expiredKeyLocked(s, k)
<1>1. deleteKeyLocked(s, k).expires[k] = "none"
  BY DeleteSound
<1> QED
  BY <1>1 DEF expiredKeyLocked

(***************************************************************************)
(* COPY is sound, with REPLACE and without.                                *)
(***************************************************************************)
LEMMA CopySound ==
  ASSUME NEW s, GoodStore(s), NEW k \in Keys, NEW n \in Keys, NEW replace \in BOOLEAN
  PROVE  Sound(s, Copy(s, k, n, replace))
<1> DEFINE p == expiredKeyLocked(s, k)
           o == expiredKeyLocked(p, n)
           q == IF existsLocked(o, n) THEN deleteKeyLocked(o, n) ELSE o
<1> SUFFICES ASSUME GoodStore(p) PROVE Sound(p, Copy(s, k, n, replace))
  BY AfterExpiry
<1>1. Sound(p, o)
  BY ExpiredSound
<1>2. Copy(s, k, n, replace) \in {p, o, touchKeyLocked(Copied(q, k, n), {n})}
  BY DEF Copy, Copied
<1>3. ~existsLocked(p, k) => Copy(s, k, n, replace) = p
  BY DEF Copy
<1>4. k = n => o = p
  <2>1. expiredKeyLocked(p, k) = p
    BY ExpiredTwice
  <2> QED
    BY <2>1
<1>5. k # n => o.data[k] = p.data[k]
  BY DeleteSound DEF expiredKeyLocked
<1> HIDE DEF p, o
<1>6. GoodStore(o) /\ p \in Stores /\ o \in Stores
  BY <1>1 DEF Sound, GoodStore
<1>7. Sound(o, q) /\ (q.plain[n] => \A kind \in Kinds : Only(q, n, {kind}))
  <2>1. CASE existsLocked(o, n)
    <3>1. Sound(o, deleteKeyLocked(o, n)) /\ deleteKeyLocked(o, n).data[n] = Nothing
      BY <1>6, DeleteSound
    <3> QED
      BY <2>1, <3>1, NothingType DEF Only, Holds
  <2>2. CASE ~existsLocked(o, n)
    BY <1>6, <2>2, AbsentIsEmpty, SoundStays
  <2> QED
    BY <2>1, <2>2
<1>8. ASSUME existsLocked(p, k)
       PROVE  (\E j \in Kinds : q.data[k][j] > 0) \/ (k = n /\ q.expires[n] = "none")
  <2>1. CASE k = n
    BY <1>6, <1>4, <1>8, <2>1, DeleteSound
  <2>2. CASE k # n
    <3>1. \E j \in Kinds : o.data[k][j] > 0
      BY <1>5, <1>8, <2>2 DEF existsLocked, Holds
    <3>2. existsLocked(o, n) => deleteKeyLocked(o, n).data[k] = o.data[k]
      BY <1>6, <2>2, DeleteSound
    <3> QED
      BY <3>1, <3>2
  <2> QED
    BY <2>1, <2>2
<1> HIDE DEF q
<1>9. GoodStore(q)
  BY <1>7 DEF Sound
<1>10. ASSUME existsLocked(p, k) PROVE Sound(p, touchKeyLocked(Copied(q, k, n), {n}))
  <2>1. Sound(q, touchKeyLocked(Copied(q, k, n), {n}))
    BY <1>7, <1>9, <1>10, <1>8, CopiedSound
  <2>2. Sound(o, touchKeyLocked(Copied(q, k, n), {n}))
    BY <1>6, <1>7, <2>1, SoundTransitive
  <2> QED
    BY <1>1, <1>6, <2>2, SoundTransitive
<1> QED
  BY <1>1, <1>2, <1>10, <1>3, SoundStays

-----------------------------------------------------------------------------
(***************************************************************************)
(* Collections.  A store in order whose changed keys all have new versions *)
(* is a sound successor.                                                   *)
(***************************************************************************)
LEMMA NewVersionsSound ==
  ASSUME NEW s, GoodStore(s), NEW t, GoodStore(t), NEW ks,
         s.version <= t.version,
         \A k \in Keys \cap ks : t.keyVersion[k] > s.version,
         \A k \in Keys \ ks : t.keyVersion[k] = s.keyVersion[k] /\ t.data[k] = s.data[k]
  PROVE  Sound(s, t)
BY DEF Sound, Traced

(***************************************************************************)
(* An element more changes one collection of one key only.                 *)
(***************************************************************************)
LEMMA MoreFields ==
  ASSUME NEW s \in Stores, NEW k \in Keys, NEW kind \in Kinds
  PROVE  LET t == More(s, k, kind) IN
         /\ Edited(s, t, k)
         /\ t.data[k][kind] > 0
         /\ \A j \in Kinds \ {kind} : t.data[k][j] = s.data[k][j]
         /\ t.expires = s.expires /\ t.notBefore = s.notBefore /\ t.plain = s.plain
<1> DEFINE n == s.data[k][kind]
           v == IF n = MaxSize THEN n ELSE n + 1
           t == More(s, k, kind)
<1>1. n \in 0..MaxSize
  BY Fields
<1>2. v \in 0..MaxSize /\ v > 0
  BY <1>1 DEF MaxSize
<1>3. /\ t.data = [s.data EXCEPT ![k] = [s.data[k] EXCEPT ![kind] = v]]
      /\ t.plain = s.plain /\ t.expires = s.expires /\ t.notBefore = s.notBefore
      /\ t.version = s.version /\ t.keyVersion = s.keyVersion
  BY DEF More, Stores
<1>4. t.data \in [Keys -> [Kinds -> 0..MaxSize]]
  <2> HIDE DEF v, t
  <2> QED
    BY <1>2, <1>3, Fields
<1>5. t \in Stores
  BY <1>4 DEF More, Stores
<1> HIDE DEF v, t
<1>6. /\ t.data[k][kind] = v /\ \A j \in Kinds \ {kind} : t.data[k][j] = s.data[k][j]
      /\ \A l \in Keys \ {k} : t.data[l] = s.data[l]
  BY <1>3, Fields
<1> QED
  BY <1>2, <1>3, <1>5, <1>6 DEF Edited, t

(***************************************************************************)
(* Elements fewer change one collection of one key only, and the last one  *)
(* takes the expiry time with it.                                          *)
(***************************************************************************)
LEMMA FewerFields ==
  ASSUME NEW s \in Stores, NEW k \in Keys, NEW kind \in Kinds, NEW n \in Nat,
         s.data[k][kind] >= n
  PROVE  LET t == Fewer(s, k, kind, n) IN
         /\ Edited(s, t, k)
         /\ t.data[k][kind] = s.data[k][kind] - n
         /\ \A j \in Kinds \ {kind} : t.data[k][j] = s.data[k][j]
         /\ t.expires[k] = (IF s.data[k][kind] = n THEN "none" ELSE s.expires[k])
         /\ t.notBefore = s.notBefore /\ t.plain = s.plain
<1> DEFINE v == s.data[k][kind] - n
           e == IF s.data[k][kind] = n THEN "none" ELSE s.expires[k]
           t == Fewer(s, k, kind, n)
<1>1. v \in 0..MaxSize
  <2>1. s.data[k][kind] \in 0..MaxSize
    BY Fields
  <2> QED
    BY <2>1 DEF MaxSize
<1>2. e \in Times
  BY Fields DEF Times
<1>3. /\ t.data = [s.data EXCEPT ![k] = [s.data[k] EXCEPT ![kind] = v]]
      /\ t.expires = [s.expires EXCEPT ![k] = e]
      /\ t.plain = s.plain /\ t.notBefore = s.notBefore
      /\ t.version = s.version /\ t.keyVersion = s.keyVersion
  BY DEF Fewer, Stores
<1>4. t.data \in [Keys -> [Kinds -> 0..MaxSize]] /\ t.expires \in [Keys -> Times]
  <2> HIDE DEF v, e, t
  <2> QED
    BY <1>1, <1>2, <1>3, Fields
<1>5. t \in Stores
  BY <1>4 DEF Fewer, Stores
<1> HIDE DEF v, e, t
<1>6. /\ t.data[k][kind] = v /\ \A j \in Kinds \ {kind} : t.data[k][j] = s.data[k][j]
      /\ \A l \in Keys \ {k} : t.data[l] = s.data[l] /\ t.expires[l] = s.expires[l]
      /\ t.expires[k] = e
  BY <1>3, Fields
<1> QED
  BY <1>3, <1>5, <1>6 DEF Edited, t, v, e

(***************************************************************************)
(* One more element of a kind that the key may hold, and n fewer: the key  *)
(* stays in order, since an entry that becomes empty takes its expiry time *)
(* with it.                                                                *)
(***************************************************************************)
LEMMA MoreGood ==
  ASSUME NEW s, s \in Stores, NEW k \in Keys, GoodKey(s, k) \/ Holds(s, k) = {},
         ~s.notBefore[k] \/ ~s.plain[k],
         NEW kind \in Core, s.plain[k] => Only(s, k, {kind})
  PROVE  GoodKey(More(s, k, kind), k)
<1> DEFINE t == More(s, k, kind)
<1>1. kind \in Kinds
  BY DEF Kinds, Movable
<1>2. /\ t.data[k][kind] > 0
      /\ \A j \in Kinds \ {kind} : t.data[k][j] = s.data[k][j]
      /\ t.expires = s.expires /\ t.notBefore = s.notBefore /\ t.plain = s.plain
  BY <1>1, MoreFields
<1> HIDE DEF t
<1>3. ASSUME t.plain[k] PROVE \A j \in Kinds : t.data[k][j] > 0 => j = kind
  BY <1>2, <1>3 DEF Only, Holds
<1>4. GoodKey(t, k)
  BY <1>1, <1>2, <1>3 DEF GoodKey
<1> QED
  BY <1>4 DEF t

(***************************************************************************)
(* A key in order is so with fewer elements.                               *)
(***************************************************************************)
LEMMA FewerGood ==
  ASSUME NEW s, s \in Stores, NEW k \in Keys, GoodKey(s, k),
         NEW kind \in Kinds, NEW n \in Nat \ {0}, s.data[k][kind] >= n
  PROVE  GoodKey(Fewer(s, k, kind, n), k)
<1> DEFINE t == Fewer(s, k, kind, n)
<1>1. /\ t.data[k][kind] = s.data[k][kind] - n
      /\ \A j \in Kinds \ {kind} : t.data[k][j] = s.data[k][j]
      /\ t.expires[k] = (IF s.data[k][kind] = n THEN "none" ELSE s.expires[k])
      /\ t.notBefore = s.notBefore /\ t.plain = s.plain
  BY FewerFields
<1> HIDE DEF t
<1>2. s.data[k][kind] \in Nat /\ s.data[k][kind] > 0
  BY Fields DEF MaxSize
<1>3. ASSUME t.plain[k]
      PROVE  /\ kind \in Core /\ ~t.notBefore[k]
             /\ \A j \in Kinds : t.data[k][j] > 0 => j = kind
             /\ t.expires[k] # "none" => t.data[k][kind] > 0
  BY <1>1, <1>2, <1>3 DEF GoodKey
<1>4. GoodKey(t, k)
  BY <1>3 DEF GoodKey
<1> QED
  BY <1>4 DEF t

(***************************************************************************)
(* Adding to a key that holds nothing else, and touching it, is sound.     *)
(***************************************************************************)
LEMMA AddSound ==
  ASSUME NEW s, GoodStore(s), NEW k \in Keys, NEW kind \in Core, Only(s, k, {kind})
  PROVE  Sound(s, touchKeyLocked(More(s, k, kind), {k}))
<1>1. s \in Stores /\ GoodKey(s, k) /\ kind \in Kinds
  BY DEF GoodStore, Kinds, Movable
<1>2. ~s.notBefore[k] \/ ~s.plain[k]
  BY <1>1 DEF GoodKey
<1>3. GoodKey(More(s, k, kind), k)
  BY <1>1, <1>2, MoreGood
<1>4. Edited(s, More(s, k, kind), k)
  BY <1>1, MoreFields
<1> QED
  BY <1>3, <1>4, EditSound

(***************************************************************************)
(* Taking elements away, and touching the key, is sound.                   *)
(***************************************************************************)
LEMMA TakeSound ==
  ASSUME NEW s, GoodStore(s), NEW k \in Keys, NEW kind \in Kinds, NEW n \in Nat \ {0},
         s.data[k][kind] >= n
  PROVE  Sound(s, touchKeyLocked(Fewer(s, k, kind, n), {k}))
<1>1. s \in Stores /\ GoodKey(s, k)
  BY DEF GoodStore
<1>2. GoodKey(Fewer(s, k, kind, n), k)
  BY <1>1, FewerGood
<1>3. Edited(s, Fewer(s, k, kind, n), k)
  BY <1>1, FewerFields
<1> QED
  BY <1>2, <1>3, EditSound

(***************************************************************************)
(* The commands that add to a list, set, hash or sorted set are sound.     *)
(***************************************************************************)
LEMMA AddToSound ==
  ASSUME NEW s, GoodStore(s), NEW k \in Keys, NEW kind \in Core
  PROVE  Sound(s, AddTo(s, k, kind))
<1> DEFINE p == expiredKeyLocked(s, k)
<1> SUFFICES ASSUME GoodStore(p) PROVE Sound(p, AddTo(s, k, kind))
  BY AfterExpiry
<1> HIDE DEF p
<1>1. CASE Only(p, k, {kind})
  BY <1>1, AddSound DEF AddTo, p
<1>2. CASE ~Only(p, k, {kind})
  BY <1>2, SoundStays DEF AddTo, p
<1> QED
  BY <1>1, <1>2

(***************************************************************************)
(* The commands that take from one are sound.                              *)
(***************************************************************************)
LEMMA TakeFromSound ==
  ASSUME NEW s, GoodStore(s), NEW k \in Keys, NEW kind \in Kinds, NEW n \in Nat \ {0}
  PROVE  Sound(s, TakeFrom(s, k, kind, n))
<1> DEFINE p == expiredKeyLocked(s, k)
<1> SUFFICES ASSUME GoodStore(p) PROVE Sound(p, TakeFrom(s, k, kind, n))
  BY AfterExpiry
<1> HIDE DEF p
<1>1. CASE Only(p, k, {kind}) /\ p.data[k][kind] >= n
  BY <1>1, TakeSound DEF TakeFrom, p
<1>2. CASE ~(Only(p, k, {kind}) /\ p.data[k][kind] >= n)
  BY <1>2, SoundStays DEF TakeFrom, p
<1> QED
  BY <1>1, <1>2

(***************************************************************************)
(* LINSERT, LSET and the pop of a blocking client are sound.               *)
(***************************************************************************)
LEMMA ListEditsSound ==
  ASSUME NEW s, GoodStore(s), NEW k \in Keys
  PROVE  Sound(s, LInsert(s, k)) /\ Sound(s, LSet(s, k)) /\ Sound(s, BPop(s, k))
<1> DEFINE p == expiredKeyLocked(s, k)
<1> SUFFICES ASSUME GoodStore(p)
             PROVE  Sound(p, LInsert(s, k)) /\ Sound(p, LSet(s, k)) /\ Sound(p, BPop(s, k))
  BY AfterExpiry
<1> HIDE DEF p
<1>1. p \in Stores /\ "list" \in Core /\ "list" \in Kinds /\ p.data[k]["list"] \in Nat
  BY KindsAre, Fields DEF GoodStore, Core, MaxSize
<1>2. Sound(p, LInsert(s, k))
  <2>1. LInsert(s, k) \in {p, AddTo(p, k, "list")}
    BY DEF LInsert, p
  <2> QED
    BY <1>1, <2>1, AddToSound, SoundStays
<1>3. Sound(p, LSet(s, k))
  <2>1. LSet(s, k) \in {p, touchKeyLocked(p, {k})}
    BY DEF LSet, p
  <2>2. Sound(p, touchKeyLocked(p, {k}))
    BY TouchSound DEF GoodStore
  <2> QED
    BY <2>1, <2>2, SoundStays
<1>4. Sound(p, BPop(s, k))
  <2>1. CASE p.data[k]["list"] > 0
    <3>1. p.data[k]["list"] >= 1 /\ 1 \in Nat \ {0}
      BY <1>1, <2>1
    <3> QED
      BY <1>1, <2>1, <3>1, TakeSound DEF BPop, p
  <2>2. CASE ~(p.data[k]["list"] > 0)
    BY <2>2, SoundStays DEF BPop, p
  <2> QED
    BY <2>1, <2>2
<1> QED
  BY <1>2, <1>3, <1>4

(***************************************************************************)
(* Changes that do not touch the key's version: the store stays in order.  *)
(***************************************************************************)
LEMMA EditedGood ==
  ASSUME NEW s, GoodStore(s), NEW k \in Keys, NEW t, Edited(s, t, k), GoodKey(t, k)
  PROVE  GoodStore(t)
<1>1. \A l \in Keys \ {k} : GoodKey(t, l)
  BY DEF Edited, GoodStore, GoodKey
<1> QED
  BY <1>1 DEF Edited, GoodStore

(***************************************************************************)
(* A new version alone leaves the store in order.                          *)
(***************************************************************************)
LEMMA TouchGood ==
  ASSUME NEW s, GoodStore(s), NEW ks
  PROVE  GoodStore(touchKeyLocked(s, ks))
BY TouchSound DEF GoodStore, Sound

(***************************************************************************)
(* SREM gives no new version to a set it takes members from: it leaves a   *)
(* store in order with the versions it found.                              *)
(***************************************************************************)
LEMMA SRemGood ==
  ASSUME NEW s, GoodStore(s), NEW k \in Keys, NEW n \in Nat \ {0}, s.expires[k] # "past"
  PROVE  LET t == SRem(s, k, n) IN
         GoodStore(t) /\ t.version = s.version /\ t.keyVersion = s.keyVersion
<1> DEFINE t == Fewer(s, k, "set", n)
<1>1. expiredKeyLocked(s, k) = s
  BY DEF expiredKeyLocked
<1>2. CASE ~(Only(s, k, {"set"}) /\ s.data[k]["set"] >= n)
  BY <1>1, <1>2 DEF SRem
<1>3. CASE Only(s, k, {"set"}) /\ s.data[k]["set"] >= n
  <2>1. s \in Stores /\ GoodKey(s, k) /\ "set" \in Kinds
    BY KindsAre DEF GoodStore
  <2>2. Edited(s, t, k)
    BY <1>3, <2>1, FewerFields
  <2>3. GoodKey(t, k)
    BY <1>3, <2>1, FewerGood
  <2> HIDE DEF t
  <2>4. GoodStore(t)
    BY <2>2, <2>3, EditedGood
  <2>5. SRem(s, k, n) = t
    BY <1>1, <1>3 DEF SRem, t
  <2> QED
    BY <2>2, <2>4, <2>5 DEF Edited
<1> QED
  BY <1>2, <1>3

(***************************************************************************)
(* On an expired key all that SREM does is to delete it.                   *)
(***************************************************************************)
LEMMA SRemExpired ==
  ASSUME NEW s, GoodStore(s), NEW k \in Keys, NEW n \in Nat \ {0}, s.expires[k] = "past"
  PROVE  Sound(s, SRem(s, k, n))
<1>1. PICK p : p = expiredKeyLocked(s, k)
  OBVIOUS
<1>2. p = deleteKeyLocked(s, k)
  BY <1>1 DEF expiredKeyLocked
<1>3. Sound(s, p) /\ p.data[k] = Nothing
  BY <1>2, DeleteSound
<1>4. p.data[k]["set"] = 0
  BY <1>3, NothingType, KindsAre
<1>5. SRem(s, k, n) = p
  BY <1>1, <1>4 DEF SRem
<1> QED
  BY <1>3, <1>5

(***************************************************************************)
(* What a sleeper takes right after a push or a move is covered by the new *)
(* version that the push gave.                                             *)
(***************************************************************************)
LEMMA WakeSound ==
  ASSUME NEW s, GoodStore(s), NEW t, Sound(s, t), NEW k \in Keys, NEW sleeper \in BOOLEAN,
         t.keyVersion[k] > s.version, t.data[k]["list"] > 0
  PROVE  Sound(s, wakeListWaitersLocked(t, k, sleeper))
<1> DEFINE u == Fewer(t, k, "list", 1)
<1>1. t \in Stores /\ GoodStore(t) /\ GoodKey(t, k) /\ "list" \in Kinds
  BY KindsAre DEF Sound, GoodStore
<1>2. t.data[k]["list"] >= 1 /\ 1 \in Nat /\ 1 \in Nat \ {0}
  <2>1. t.data[k]["list"] \in Nat
    BY <1>1, Fields DEF MaxSize
  <2> QED
    BY <2>1
<1>3. Edited(t, u, k)
  BY <1>1, <1>2, FewerFields
<1>4. GoodKey(u, k)
  BY <1>1, <1>2, FewerGood
<1> HIDE DEF u
<1>5. GoodStore(u)
  BY <1>1, <1>3, <1>4, EditedGood
<1>6. Traced(s, u)
  <2>1. ASSUME NEW l \in Keys
        PROVE  \/ u.keyVersion[l] > s.version
               \/ u.keyVersion[l] = s.keyVersion[l] /\ u.data[l] = s.data[l]
    <3>1. CASE l = k
      BY <1>3, <3>1 DEF Edited
    <3>2. CASE l # k
      BY <1>3, <3>2 DEF Edited, Sound, Traced
    <3> QED
      BY <3>1, <3>2
  <2> QED
    BY <1>3, <2>1 DEF Edited, Sound, Traced
<1>7. wakeListWaitersLocked(t, k, sleeper) \in {t, u}
  BY DEF wakeListWaitersLocked, u
<1> QED
  BY <1>5, <1>6, <1>7 DEF Sound

(***************************************************************************)
(* LPUSH and RPUSH, with or without a sleeper.                             *)
(***************************************************************************)
LEMMA PushSound ==
  ASSUME NEW s, GoodStore(s), NEW k \in Keys, NEW sleeper \in BOOLEAN
  PROVE  Sound(s, pushList(s, k, sleeper))
<1> DEFINE p == expiredKeyLocked(s, k)
           m == More(p, k, "list")
           t == touchKeyLocked(m, {k})
<1> SUFFICES ASSUME GoodStore(p) PROVE Sound(p, pushList(s, k, sleeper))
  BY AfterExpiry
<1> HIDE DEF p
<1>1. CASE ~Only(p, k, {"list"})
  BY <1>1, SoundStays DEF pushList, p
<1>2. CASE Only(p, k, {"list"})
  <2>1. p \in Stores /\ "list" \in Kinds /\ "list" \in Core /\ p.version \in Nat
    BY KindsAre, Fields DEF GoodStore, Core
  <2>2. Sound(p, t)
    BY <1>2, <2>1, AddSound
  <2>3. Edited(p, m, k) /\ m.data[k]["list"] > 0
    BY <2>1, MoreFields
  <2> HIDE DEF m
  <2>4. m \in Stores /\ m.version = p.version
    BY <2>3 DEF Edited
  <2>5. t.data = m.data /\ t.keyVersion[k] = p.version + 1
    BY <2>4, TouchFields
  <2> HIDE DEF t
  <2>6. t.keyVersion[k] > p.version /\ t.data[k]["list"] > 0
    BY <2>1, <2>3, <2>5
  <2>7. Sound(p, wakeListWaitersLocked(t, k, sleeper))
    BY <2>2, <2>6, WakeSound
  <2> QED
    BY <1>2, <2>7 DEF pushList, p, t, m
<1> QED
  BY <1>1, <1>2

(***************************************************************************)
(* An element that moves from one key to another, or stays.                *)
(***************************************************************************)
LEMMA MovedGood ==
  ASSUME NEW s, GoodStore(s), NEW k \in Keys, NEW n \in Keys, NEW kind \in Core,
         s.data[k][kind] > 0, s.plain[n] => Only(s, n, {kind})
  PROVE  LET m == More(Fewer(s, k, kind, 1), n, kind) IN
         /\ GoodStore(m) /\ m.version = s.version /\ m.keyVersion = s.keyVersion
         /\ m.data[n][kind] > 0
         /\ \A l \in Keys \ {k, n} : m.data[l] = s.data[l]
<1> DEFINE f == Fewer(s, k, kind, 1)
           m == More(f, n, kind)
<1>1. s \in Stores /\ GoodKey(s, k) /\ kind \in Kinds
  BY DEF GoodStore, Kinds, Movable
<1>2. s.data[k][kind] >= 1 /\ 1 \in Nat /\ 1 \in Nat \ {0}
  <2>1. s.data[k][kind] \in Nat
    BY <1>1, Fields DEF MaxSize
  <2> QED
    BY <2>1
<1>3. /\ Edited(s, f, k) /\ f.plain = s.plain
      /\ \A j \in Kinds \ {kind} : f.data[k][j] = s.data[k][j]
  BY <1>1, <1>2, FewerFields
<1>4. GoodKey(f, k)
  BY <1>1, <1>2, FewerGood
<1> HIDE DEF f
<1>5. GoodStore(f) /\ f \in Stores
  BY <1>3, <1>4, EditedGood DEF Edited
<1>6. f.plain[n] => Only(f, n, {kind})
  <2>1. CASE n = k
    BY <1>3, <2>1 DEF Only, Holds
  <2>2. CASE n # k
    BY <1>3, <2>2 DEF Edited, Only, Holds
  <2> QED
    BY <2>1, <2>2
<1>7. GoodKey(f, n) /\ (~f.notBefore[n] \/ ~f.plain[n])
  BY <1>5 DEF GoodStore, GoodKey
<1>8. GoodKey(m, n)
  BY <1>5, <1>6, <1>7, MoreGood
<1>9. Edited(f, m, n) /\ m.data[n][kind] > 0
  BY <1>1, <1>5, MoreFields
<1> HIDE DEF m
<1>10. GoodStore(m)
  BY <1>5, <1>8, <1>9, EditedGood
<1>11. /\ m.version = s.version /\ m.keyVersion = s.keyVersion
       /\ \A l \in Keys \ {k, n} : m.data[l] = s.data[l]
  BY <1>3, <1>9 DEF Edited
<1> QED
  BY <1>9, <1>10, <1>11 DEF m, f

(***************************************************************************)
(* LMOVE: the destination may hold a document or a series besides, but a   *)
(* plain one does not.                                                     *)
(***************************************************************************)
LEMMA LMoveSound ==
  ASSUME NEW s, GoodStore(s), NEW k \in Keys, NEW n \in Keys, NEW sleeper \in BOOLEAN
  PROVE  Sound(s, LMove(s, k, n, sleeper))
<1> DEFINE p == expiredKeyLocked(s, k)
           o == IF k = n THEN p ELSE expiredKeyLocked(p, n)
           allowed == {"list", "json", "timeseries"}
           m == More(Fewer(o, k, "list", 1), n, "list")
           t == touchKeyLocked(m, {k, n})
           w == wakeListWaitersLocked(t, n, sleeper)
<1> SUFFICES ASSUME GoodStore(p) PROVE Sound(p, LMove(s, k, n, sleeper))
  BY AfterExpiry
<1>1. Sound(p, o)
  BY ExpiredSound, SoundStays
<1>2. o.data[k] = p.data[k]
  BY DeleteSound DEF expiredKeyLocked
<1>3. LMove(s, k, n, sleeper) = IF ~Only(p, k, allowed) \/ p.data[k]["list"] = 0 THEN p
                                ELSE IF ~Only(o, n, allowed) THEN o ELSE w
  BY DEF LMove
<1> HIDE DEF p, o
<1>4. GoodStore(o) /\ p \in Stores /\ o \in Stores /\ "list" \in Kinds /\ "list" \in Core
  BY <1>1, KindsAre DEF Sound, GoodStore, Core
<1>5. CASE ~Only(p, k, allowed) \/ p.data[k]["list"] = 0 \/ ~Only(o, n, allowed)
  BY <1>1, <1>3, <1>5, SoundStays
<1>6. CASE p.data[k]["list"] # 0 /\ Only(p, k, allowed) /\ Only(o, n, allowed)
  <2>1. o.data[k]["list"] > 0
    <3>1. p.data[k] \in [Kinds -> 0..MaxSize]
      BY <1>4, Fields
    <3>2. p.data[k]["list"] \in Nat
      BY <1>4, <3>1 DEF MaxSize
    <3> QED
      BY <1>2, <1>6, <3>2
  <2>2. o.plain[n] => Only(o, n, {"list"})
    <3>1. GoodKey(o, n)
      BY <1>4 DEF GoodStore
    <3> QED
      BY <1>6, <3>1 DEF GoodKey, Only, Holds, Core
  <2>3. /\ GoodStore(m) /\ m.version = o.version /\ m.keyVersion = o.keyVersion
        /\ m.data[n]["list"] > 0
        /\ \A l \in Keys \ {k, n} : m.data[l] = o.data[l]
    BY <1>4, <2>1, <2>2, MovedGood
  <2> HIDE DEF m
  <2>4. m \in Stores /\ \A l \in Keys : GoodKey(m, l)
    BY <2>3 DEF GoodStore
  <2>5. Sound(o, t)
    BY <1>4, <2>3, <2>4, TouchSound
  <2>6. t.data = m.data /\ t.keyVersion[n] = m.version + 1
    BY <2>4, TouchFields
  <2> HIDE DEF t
  <2>7. t.keyVersion[n] > o.version /\ t.data[n]["list"] > 0
    <3>1. o.version \in Nat
      BY <1>4, Fields
    <3> QED
      BY <2>3, <2>6, <3>1
  <2>8. Sound(o, w)
    BY <1>4, <2>5, <2>7, WakeSound
  <2>9. Sound(p, w)
    BY <1>1, <1>4, <2>8, SoundTransitive
  <2> QED
    BY <1>3, <1>6, <2>9
<1> QED
  BY <1>5, <1>6

(***************************************************************************)
(* SMOVE touches its two keys one after the other.                         *)
(***************************************************************************)
LEMMA SMoveSound ==
  ASSUME NEW s, GoodStore(s), NEW k \in Keys, NEW n \in Keys
  PROVE  Sound(s, SMove(s, k, n))
<1> DEFINE p == expiredKeyLocked(s, k)
           o == expiredKeyLocked(p, n)
           m == More(Fewer(o, k, "set", 1), n, "set")
           t == touchKeyLocked(m, {k})
           u == touchKeyLocked(t, {n})
           both == {k, n}
<1> SUFFICES ASSUME GoodStore(p) PROVE Sound(p, SMove(s, k, n))
  BY AfterExpiry
<1>1. Sound(p, o)
  BY ExpiredSound
<1>2. SMove(s, k, n) = IF Only(o, k, {"set"}) /\ Only(o, n, {"set"}) /\ o.data[k]["set"] > 0
                       THEN u ELSE o
  BY DEF SMove
<1> HIDE DEF p, o
<1>3. GoodStore(o) /\ p \in Stores /\ o \in Stores /\ o.version \in Nat /\ "set" \in Core
  BY <1>1, Fields DEF Sound, GoodStore, Core
<1>4. CASE Only(o, n, {"set"}) /\ o.data[k]["set"] > 0
  <2>1. /\ GoodStore(m) /\ m.version = o.version /\ m.keyVersion = o.keyVersion
        /\ \A l \in Keys \ {k, n} : m.data[l] = o.data[l]
    BY <1>3, <1>4, MovedGood
  <2> HIDE DEF m
  <2>2. m \in Stores
    BY <2>1 DEF GoodStore
  <2>3. /\ t \in Stores /\ t.data = m.data /\ t.version = m.version + 1
        /\ \A l \in Keys : t.keyVersion[l] = IF l \in {k} THEN m.version + 1 ELSE m.keyVersion[l]
    BY <2>2, TouchFields
  <2>4. GoodStore(t)
    BY <2>1, TouchGood
  <2> HIDE DEF t
  <2>5. /\ u.data = t.data /\ u.version = t.version + 1
        /\ \A l \in Keys : u.keyVersion[l] = IF l \in {n} THEN t.version + 1 ELSE t.keyVersion[l]
    BY <2>3, TouchFields
  <2>6. GoodStore(u)
    BY <2>4, TouchGood
  <2> HIDE DEF u
  <2>7. /\ o.version <= u.version
        /\ \A l \in Keys \cap both : u.keyVersion[l] > o.version
        /\ \A l \in Keys \ both : u.keyVersion[l] = o.keyVersion[l] /\ u.data[l] = o.data[l]
    BY <1>3, <2>1, <2>3, <2>5
  <2> HIDE DEF both
  <2>8. Sound(o, u)
    BY <1>3, <2>6, <2>7, NewVersionsSound
  <2>9. Sound(p, u)
    BY <1>1, <1>3, <2>8, SoundTransitive
  <2> QED
    BY <1>1, <1>2, <2>9
<1>5. CASE ~(Only(o, n, {"set"}) /\ o.data[k]["set"] > 0)
  BY <1>1, <1>2, <1>5
<1> QED
  BY <1>4, <1>5

(***************************************************************************)
(* A key's count of one kind set to v, and plain or no longer.             *)
(***************************************************************************)
Counted(s, k, kind, v, b) == [s EXCEPT !.data[k][kind] = v, !.plain[k] = b]

(***************************************************************************)
(* Setting the size of one collection changes that one only, and whether   *)
(* the key is plain.                                                       *)
(***************************************************************************)
LEMMA CountedFields ==
  ASSUME NEW s \in Stores, NEW k \in Keys, NEW kind \in Kinds, NEW v \in 0..MaxSize,
         NEW b \in BOOLEAN
  PROVE  LET t == Counted(s, k, kind, v, b) IN
         /\ Edited(s, t, k)
         /\ t.data[k][kind] = v
         /\ \A j \in Kinds \ {kind} : t.data[k][j] = s.data[k][j]
         /\ t.expires = s.expires /\ t.notBefore = s.notBefore /\ t.plain[k] = b
<1> DEFINE t == Counted(s, k, kind, v, b)
<1>1. /\ t.data = [s.data EXCEPT ![k] = [s.data[k] EXCEPT ![kind] = v]]
      /\ t.plain = [s.plain EXCEPT ![k] = b]
      /\ t.expires = s.expires /\ t.notBefore = s.notBefore
      /\ t.version = s.version /\ t.keyVersion = s.keyVersion
  BY DEF Counted, Stores
<1>2. t.data \in [Keys -> [Kinds -> 0..MaxSize]] /\ t.plain \in [Keys -> BOOLEAN]
  <2> HIDE DEF t
  <2> QED
    BY <1>1, Fields
<1>3. t \in Stores
  BY <1>1, <1>2 DEF Counted, Stores
<1> HIDE DEF t
<1>4. /\ t.data[k][kind] = v /\ \A j \in Kinds \ {kind} : t.data[k][j] = s.data[k][j]
      /\ t.plain[k] = b
      /\ \A l \in Keys \ {k} : t.data[l] = s.data[l] /\ t.plain[l] = s.plain[l]
  BY <1>1, Fields
<1> QED
  BY <1>1, <1>3, <1>4 DEF Edited, t

(***************************************************************************)
(* SORT ... STORE of an expired source empties the list of the destination *)
(* and leaves its expiry time: all is in order but perhaps that.           *)
(***************************************************************************)
LEMMA SortExpired ==
  ASSUME NEW s, GoodStore(s), NEW k \in Keys, NEW dst \in Keys, NEW n, s.expires[k] = "past"
  PROVE  LET t == Sort(s, k, dst, n) IN
         /\ t \in Stores /\ Traced(s, t)
         /\ \A l \in Keys : t.keyVersion[l] <= t.version
         /\ \A l \in Keys \ {dst} : GoodKey(t, l)
         /\ t.plain[dst] => PlainContents(t, dst)
<1> DEFINE p == expiredKeyLocked(s, k)
           c == Counted(p, dst, "list", 0, p.plain[dst])
           u == touchKeyLocked(c, {dst})
<1>1. s \in Stores /\ "list" \in Kinds /\ 0 \in 0..MaxSize
  BY KindsAre DEF GoodStore, MaxSize
<1>2. Sound(s, p)
  BY ExpiredSound
<1>3. c = [p EXCEPT !.data[dst]["list"] = 0]
  <2>1. p \in Stores
    BY <1>2 DEF Sound, GoodStore
  <2> HIDE DEF p
  <2>2. [p.plain EXCEPT ![dst] = p.plain[dst]] = p.plain
    BY <2>1, Fields
  <2> QED
    BY <2>1, <2>2 DEF Counted, Stores
<1>4. Sort(s, k, dst, n) = u
  <2> HIDE DEF c
  <2> QED
    BY <1>3 DEF Sort
<1> HIDE DEF p
<1>5. GoodStore(p) /\ p \in Stores /\ GoodKey(p, dst) /\ p.plain[dst] \in BOOLEAN /\ p.version \in Nat
  BY <1>2, Fields DEF Sound, GoodStore
<1>6. /\ Edited(p, c, dst) /\ c.data[dst]["list"] = 0
      /\ \A j \in Kinds \ {"list"} : c.data[dst][j] = p.data[dst][j]
      /\ c.expires = p.expires /\ c.notBefore = p.notBefore /\ c.plain[dst] = p.plain[dst]
  BY <1>1, <1>5, CountedFields
<1> HIDE DEF c
<1>7. /\ u \in Stores
      /\ u.data = c.data /\ u.expires = c.expires /\ u.notBefore = c.notBefore
      /\ u.plain = c.plain /\ u.version = c.version + 1
      /\ \A l \in Keys : u.keyVersion[l] = IF l \in {dst} THEN c.version + 1 ELSE c.keyVersion[l]
  BY <1>6, TouchFields DEF Edited
<1> HIDE DEF u
<1>8. ASSUME NEW l \in Keys \ {dst} PROVE GoodKey(u, l)
  BY <1>5, <1>6, <1>7 DEF Edited, GoodStore, GoodKey
<1>9. ASSUME u.plain[dst] PROVE PlainContents(u, dst)
  <2>1. \A j \in Kinds : u.data[dst][j] > 0 => p.data[dst][j] > 0
    BY <1>6, <1>7
  <2>2. p.plain[dst] /\ ~u.notBefore[dst]
    BY <1>5, <1>6, <1>7, <1>9 DEF GoodKey
  <2> QED
    BY <1>5, <2>1, <2>2 DEF GoodKey, PlainContents
<1>10. /\ c.version = p.version /\ c.keyVersion = p.keyVersion
       /\ \A l \in Keys : p.keyVersion[l] \in Nat /\ p.keyVersion[l] <= p.version
  BY <1>5, <1>6, Fields DEF Edited, GoodStore
<1>11. \A l \in Keys : u.keyVersion[l] <= u.version
  BY <1>5, <1>7, <1>10
<1>12. s.version \in Nat /\ s.version <= p.version /\ s.version <= u.version
  BY <1>1, <1>2, <1>5, <1>7, <1>10, Fields DEF Sound, Traced
<1>13. ASSUME NEW l \in Keys
       PROVE  \/ u.keyVersion[l] > s.version
              \/ u.keyVersion[l] = s.keyVersion[l] /\ u.data[l] = s.data[l]
  <2>1. CASE l = dst
    BY <1>5, <1>7, <1>10, <1>12, <2>1
  <2>2. CASE l # dst
    <3>1. u.keyVersion[l] = p.keyVersion[l] /\ u.data[l] = p.data[l]
      BY <1>6, <1>7, <1>10, <2>2 DEF Edited
    <3> QED
      BY <1>2, <3>1 DEF Sound, Traced
  <2> QED
    BY <2>1, <2>2
<1>14. Traced(s, u)
  BY <1>12, <1>13 DEF Traced
<1> QED
  BY <1>4, <1>7, <1>8, <1>9, <1>11, <1>14

(***************************************************************************)
(* SORT ... STORE of any other source is sound.                            *)
(***************************************************************************)
LEMMA SortSound ==
  ASSUME NEW s, GoodStore(s), NEW k \in Keys, NEW dst \in Keys, NEW n \in {0, 1},
         s.expires[k] # "past"
  PROVE  Sound(s, Sort(s, k, dst, n))
<1> DEFINE sortable == Holds(s, k) \cap {"list", "set", "zset"} # {}
           v == IF sortable THEN n ELSE 0
           q == deleteKeyLocked(s, dst)
           u == Counted(q, dst, "list", v, q.plain[dst])
<1>1. s \in Stores /\ "list" \in Kinds /\ "list" \in Core /\ v \in 0..MaxSize
  BY KindsAre DEF GoodStore, Core, MaxSize
<1>3. Sound(s, touchKeyLocked(u, {dst}))
  <2>1. Sound(s, q) /\ q.data[dst] = Nothing /\ q.expires[dst] = "none" /\ ~q.notBefore[dst]
    BY DeleteSound
  <2> HIDE DEF q, v
  <2>2. GoodStore(q) /\ q \in Stores /\ q.plain[dst] \in BOOLEAN
    BY <2>1, Fields DEF Sound, GoodStore
  <2>3. /\ Edited(q, u, dst)
        /\ \A j \in Kinds \ {"list"} : u.data[dst][j] = q.data[dst][j]
        /\ u.expires = q.expires /\ u.notBefore = q.notBefore
    BY <1>1, <2>2, CountedFields
  <2> HIDE DEF u
  <2>4. GoodKey(u, dst)
    BY <1>1, <2>1, <2>3, NothingType DEF GoodKey
  <2>5. Sound(q, touchKeyLocked(u, {dst}))
    BY <2>2, <2>3, <2>4, EditSound
  <2> QED
    BY <1>1, <2>1, <2>5, SoundTransitive
<1>4. Sort(s, k, dst, n) \in {s, touchKeyLocked(u, {dst})}
  <2>1. u = [q EXCEPT !.data[dst]["list"] = v]
    <3>1. GoodStore(q)
      BY DeleteSound DEF Sound
    <3> HIDE DEF q, v
    <3>2. q \in Stores /\ q.plain \in [Keys -> BOOLEAN]
      BY <3>1, Fields DEF GoodStore
    <3>3. [q.plain EXCEPT ![dst] = q.plain[dst]] = q.plain
      BY <3>2
    <3> QED
      BY <3>2, <3>3 DEF Counted, Stores
  <2> HIDE DEF u
  <2> QED
    BY <2>1 DEF Sort
<1> QED
  BY <1>3, <1>4, SoundStays

-----------------------------------------------------------------------------
(***************************************************************************)
(* The younger kinds: a key that holds one is not plain.                   *)
(***************************************************************************)
LEMMA UpdateSound ==
  ASSUME NEW s, GoodStore(s), NEW k \in Keys, NEW kind \in Kinds \ Core, NEW allowed
  PROVE  Sound(s, Update(s, k, kind, allowed))
<1> DEFINE p == expiredKeyLocked(s, k)
<1> SUFFICES ASSUME GoodStore(p) PROVE Sound(p, Update(s, k, kind, allowed))
  BY AfterExpiry
<1>1. Update(s, k, kind, allowed) \in {p, touchKeyLocked(Changed(p, k, kind), {k})}
  BY DEF Update
<1> HIDE DEF p
<1>2. Sound(p, touchKeyLocked(Changed(p, k, kind), {k}))
  BY WriteSound
<1> QED
  BY <1>1, <1>2, SoundStays

(***************************************************************************)
(* JSON.NUMINCRBY, JSON.ARRAPPEND and JSON.DEL.                            *)
(***************************************************************************)
LEMMA JSONSound ==
  ASSUME NEW s, GoodStore(s), NEW k \in Keys
  PROVE  Sound(s, JSONNumIncrBy(s, k)) /\ Sound(s, JSONDel(s, k))
<1> DEFINE p == expiredKeyLocked(s, k)
           u == Counted(p, k, "json", 0, p.plain[k])
<1> SUFFICES ASSUME GoodStore(p) PROVE Sound(p, JSONNumIncrBy(s, k)) /\ Sound(p, JSONDel(s, k))
  BY AfterExpiry
<1> HIDE DEF p
<1>1. /\ p \in Stores /\ GoodKey(p, k) /\ p.plain[k] \in BOOLEAN
      /\ "json" \in Kinds /\ "json" \notin Core /\ 0 \in 0..MaxSize
  BY KindsAre, Fields DEF GoodStore, Core, MaxSize
<1>2. Sound(p, JSONNumIncrBy(s, k))
  <2>1. JSONNumIncrBy(s, k) \in {p, touchKeyLocked(Changed(p, k, "json"), {k})}
    BY DEF JSONNumIncrBy, p
  <2>2. Sound(p, touchKeyLocked(Changed(p, k, "json"), {k}))
    BY <1>1, WriteSound
  <2> QED
    BY <2>1, <2>2, SoundStays
<1>3. CASE p.data[k]["json"] > 0
  <2>1. Edited(p, u, k) /\ u.plain[k] = p.plain[k]
    BY <1>1, CountedFields
  <2>2. u = [p EXCEPT !.data[k]["json"] = 0]
    <3>1. p.plain \in [Keys -> BOOLEAN]
      BY <1>1, Fields
    <3>2. [p.plain EXCEPT ![k] = p.plain[k]] = p.plain
      BY <3>1
    <3> QED
      BY <1>1, <3>2 DEF Counted, Stores
  <2> HIDE DEF u
  <2>3. GoodKey(u, k)
    BY <1>1, <1>3, <2>1 DEF GoodKey
  <2>4. Sound(p, touchKeyLocked(u, {k}))
    BY <2>1, <2>3, EditSound
  <2> QED
    BY <1>2, <1>3, <2>2, <2>4 DEF JSONDel, p
<1>4. CASE ~(p.data[k]["json"] > 0)
  BY <1>2, <1>4, SoundStays DEF JSONDel, p
<1> QED
  BY <1>3, <1>4

(***************************************************************************)
(* PFMERGE looks at its source, which may expire, before it touches the    *)
(* destination it has written.                                             *)
(***************************************************************************)
LEMMA PFMergeSound ==
  ASSUME NEW s, GoodStore(s), NEW k \in Keys, NEW src \in Keys
  PROVE  Sound(s, PFMerge(s, k, src))
<1> DEFINE p == expiredKeyLocked(s, k)
           c == Changed(p, k, "hll")
           d == expiredKeyLocked(c, src)
           t == touchKeyLocked(d, {k})
<1> SUFFICES ASSUME GoodStore(p) PROVE Sound(p, PFMerge(s, k, src))
  BY AfterExpiry
<1>1. PFMerge(s, k, src) = t
  BY DEF PFMerge
<1> HIDE DEF p
<1>2. p \in Stores /\ p.version \in Nat /\ "hll" \in Kinds /\ "hll" \notin Core
  BY KindsAre, Fields DEF GoodStore, Core
<1>3. Edited(p, c, k) /\ c.plain[k] = (p.plain[k] /\ "hll" \in Core)
  BY <1>2, ChangedFields
<1> HIDE DEF c
<1>4. GoodStore(c)
  <2>1. ~c.plain[k]
    BY <1>2, <1>3, Zenon
  <2>2. GoodKey(c, k)
    BY <2>1 DEF GoodKey
  <2> QED
    BY <1>3, <2>2, EditedGood
<1>5. Sound(c, d)
  BY <1>4, ExpiredSound
<1> HIDE DEF d
<1>6. GoodStore(d) /\ d \in Stores /\ d.version \in Nat
  BY <1>5, Fields DEF Sound, GoodStore
<1>7. GoodStore(t)
  BY <1>6, TouchGood
<1>8. /\ t.data = d.data /\ t.version = d.version + 1
      /\ \A l \in Keys : t.keyVersion[l] = IF l \in {k} THEN d.version + 1 ELSE d.keyVersion[l]
  BY <1>6, TouchFields
<1> HIDE DEF t
<1>9. p.version <= d.version
  BY <1>3, <1>5 DEF Edited, Sound, Traced
<1>10. ASSUME NEW l \in Keys
       PROVE  \/ t.keyVersion[l] > p.version
              \/ t.keyVersion[l] = p.keyVersion[l] /\ t.data[l] = p.data[l]
  <2>1. CASE l = k
    BY <1>2, <1>6, <1>8, <1>9, <2>1
  <2>2. CASE l # k
    <3>1. c.data[l] = p.data[l] /\ c.version = p.version /\ c.keyVersion = p.keyVersion
      BY <1>3, <2>2 DEF Edited
    <3>2. t.data[l] = d.data[l] /\ t.keyVersion[l] = d.keyVersion[l]
      BY <1>8, <2>2
    <3> QED
      BY <1>5, <3>1, <3>2 DEF Sound, Traced
  <2> QED
    BY <2>1, <2>2
<1>11. Traced(p, t)
  <2>1. p.version <= t.version
    BY <1>2, <1>6, <1>8, <1>9
  <2> QED
    BY <1>10, <2>1 DEF Traced
<1> QED
  BY <1>1, <1>7, <1>11 DEF Sound

-----------------------------------------------------------------------------
(***************************************************************************)
(* The whole store: expired keys and evicted ones get a version each.      *)
(***************************************************************************)
LEMMA DeleteAllSound ==
  ASSUME NEW s, GoodStore(s), NEW ks, ks \subseteq Keys
  PROVE  Sound(s, DeleteAll(s, ks))
<1> DEFINE t == DeleteAll(s, ks)
           n == Cardinality(ks)
<1>1. n \in Nat /\ \A k \in ks : n > 0
  <2>1. IsFiniteSet(ks)
    BY KeyspaceAssumption, FS_Subset
  <2>2. n \in Nat
    BY <2>1, FS_CardinalityType
  <2>3. ks # {} => n # 0
    BY <2>1, FS_EmptySet
  <2> QED
    BY <2>2, <2>3
<1>2. /\ t.data = [k \in Keys |-> IF k \in ks THEN Nothing ELSE s.data[k]]
      /\ t.expires = [k \in Keys |-> IF k \in ks THEN "none" ELSE s.expires[k]]
      /\ t.notBefore = [k \in Keys |-> k \notin ks /\ s.notBefore[k]]
      /\ t.version = s.version + n
      /\ t.keyVersion = [k \in Keys |-> IF k \in ks THEN s.version + n ELSE s.keyVersion[k]]
      /\ t.plain = [k \in Keys |-> k \in ks \/ s.plain[k]]
  BY DEF DeleteAll
<1> HIDE DEF n
<1>3. s \in Stores /\ s.version \in Nat /\ \A k \in Keys : s.keyVersion[k] \in Nat
  BY Fields DEF GoodStore
<1>4. t \in Stores
  <2>1. /\ t.data \in [Keys -> [Kinds -> 0..MaxSize]]
        /\ t.expires \in [Keys -> Times]
    <3> HIDE DEF t
    <3>1. "none" \in Times
      BY DEF Times
    <3> QED
      BY <1>2, <1>3, <3>1, Fields, NothingType
  <2>2. t.notBefore \in [Keys -> BOOLEAN] /\ t.plain \in [Keys -> BOOLEAN]
    <3> HIDE DEF t
    <3> QED
      BY <1>2, Zenon
  <2>3. t.version \in Nat /\ t.keyVersion \in [Keys -> Nat]
    <3> HIDE DEF t
    <3> QED
      BY <1>1, <1>2, <1>3
  <2> QED
    BY <2>1, <2>2, <2>3 DEF Stores, DeleteAll
<1> HIDE DEF t
<1>5. ASSUME NEW k \in ks
      PROVE  /\ t.data[k] = Nothing /\ t.expires[k] = "none" /\ ~t.notBefore[k]
             /\ t.keyVersion[k] = t.version /\ t.version > s.version
  <2>1. k \in Keys
    OBVIOUS
  <2>2. t.data[k] = Nothing /\ t.expires[k] = "none" /\ ~t.notBefore[k]
    BY <1>2, <2>1
  <2>3. t.keyVersion[k] = s.version + n
    BY <1>2, <2>1
  <2>4. n > 0
    BY <1>1
  <2> QED
    BY <1>1, <1>2, <1>3, <2>2, <2>3, <2>4
<1>6. ASSUME NEW k \in Keys \ ks
      PROVE  /\ t.data[k] = s.data[k] /\ t.expires[k] = s.expires[k]
             /\ (t.notBefore[k] <=> s.notBefore[k]) /\ (t.plain[k] <=> s.plain[k])
             /\ t.keyVersion[k] = s.keyVersion[k]
  BY <1>2
<1>7. s.version <= t.version
  BY <1>1, <1>2, <1>3
<1>8. ASSUME NEW k \in Keys PROVE GoodKey(t, k)
  <2>1. CASE k \in ks
    BY <1>5, <2>1, NothingType DEF GoodKey
  <2>2. CASE k \notin ks
    <3>1. GoodKey(s, k)
      BY DEF GoodStore
    <3> QED
      BY <1>6, <2>2, <3>1 DEF GoodKey
  <2> QED
    BY <2>1, <2>2
<1>9. ASSUME NEW k \in Keys PROVE t.keyVersion[k] <= t.version
  <2>1. CASE k \in ks
    BY <1>1, <1>2, <1>3, <2>1
  <2>2. CASE k \notin ks
    BY <1>1, <1>2, <1>3, <2>2 DEF GoodStore
  <2> QED
    BY <2>1, <2>2
<1>10. GoodStore(t)
  BY <1>4, <1>8, <1>9 DEF GoodStore
<1>11. /\ \A k \in Keys \cap ks : t.keyVersion[k] > s.version
       /\ \A k \in Keys \ ks : t.keyVersion[k] = s.keyVersion[k] /\ t.data[k] = s.data[k]
  BY <1>5, <1>6
<1>12. Sound(s, t)
  BY <1>7, <1>10, <1>11, NewVersionsSound
<1> QED
  BY <1>12 DEF t

(***************************************************************************)
(* A store that starts over, with at most one key: FLUSHDB and the loading *)
(* of a snapshot.  The version counter goes on, the keys have none.        *)
(***************************************************************************)
Fresh(s, t) ==
  /\ GoodStore(t) /\ s.version <= t.version
  /\ \A k \in Keys : t.keyVersion[k] = 0 \/ t.keyVersion[k] > s.version

LEMMA FreshSound ==
  ASSUME NEW s, GoodStore(s), NEW t, t \in Stores, t.version = s.version + 1,
         \A k \in Keys : t.keyVersion[k] = 0 /\ GoodKey(t, k)
  PROVE  Fresh(s, t)
<1>1. s.version \in Nat
  BY Fields DEF GoodStore
<1> QED
  BY <1>1 DEF Fresh, GoodStore

(***************************************************************************)
(* FLUSHDB starts over.                                                    *)
(***************************************************************************)
LEMMA FlushDBSound ==
  ASSUME NEW s, GoodStore(s)
  PROVE  Fresh(s, FlushDB(s))
<1> DEFINE t == FlushDB(s)
<1>1. s.version + 1 \in Nat
  BY Fields DEF GoodStore
<1>2. /\ t.data = [k \in Keys |-> Nothing] /\ t.expires = [k \in Keys |-> "none"]
      /\ t.notBefore = [k \in Keys |-> FALSE] /\ t.version = s.version + 1
      /\ t.keyVersion = [k \in Keys |-> 0] /\ t.plain = [k \in Keys |-> TRUE]
  BY DEF FlushDB, Empty
<1>3. t \in Stores
  BY <1>1, NothingType DEF FlushDB, Empty, Stores, Times
<1> HIDE DEF t
<1>4. \A k \in Keys : t.keyVersion[k] = 0 /\ GoodKey(t, k)
  BY <1>2, NothingType DEF GoodKey
<1>5. Fresh(s, t)
  BY <1>2, <1>3, <1>4, FreshSound
<1> QED
  BY <1>5 DEF t

(***************************************************************************)
(* The store a snapshot with one key is loaded to.                         *)
(***************************************************************************)
Loaded(s, k, kind, e) ==
  [Empty EXCEPT !.data[k][kind] = 1, !.expires[k] = e, !.plain[k] = kind \in Core,
                !.version = s.version + 1]

(***************************************************************************)
(* Loading a snapshot starts over; a key it finds expired is deleted.      *)
(***************************************************************************)
LEMMA LoadSound ==
  ASSUME NEW s, GoodStore(s), NEW k \in Keys, NEW kind \in Kinds, NEW e \in Times
  PROVE  Fresh(s, Load(s, k, kind, e))
<1> DEFINE t == Loaded(s, k, kind, e)
           b == kind \in Core
           d == [Nothing EXCEPT ![kind] = 1]
<1>1. s \in Stores /\ s.version + 1 \in Nat
  BY Fields DEF GoodStore
<1>2. d \in [Kinds -> 0..MaxSize] /\ \A j \in Kinds : d[j] = IF j = kind THEN 1 ELSE 0
  BY NothingType DEF MaxSize
<1>3. /\ t.data = [[l \in Keys |-> Nothing] EXCEPT ![k] = d]
      /\ t.expires = [[l \in Keys |-> "none"] EXCEPT ![k] = e]
      /\ t.plain = [[l \in Keys |-> TRUE] EXCEPT ![k] = b]
      /\ t.notBefore = [l \in Keys |-> FALSE] /\ t.version = s.version + 1
      /\ t.keyVersion = [l \in Keys |-> 0]
  BY DEF Loaded, Empty
<1>4. t \in Stores
  <2>1. /\ t.data \in [Keys -> [Kinds -> 0..MaxSize]] /\ t.expires \in [Keys -> Times]
        /\ t.notBefore \in [Keys -> BOOLEAN] /\ t.version \in Nat
        /\ t.keyVersion \in [Keys -> Nat]
    <3> HIDE DEF t, d
    <3> QED
      BY <1>1, <1>2, <1>3, NothingType DEF Times
  <2>2. t.plain \in [Keys -> BOOLEAN]
    <3>1. b \in BOOLEAN
      OBVIOUS
    <3> HIDE DEF t, b
    <3> QED
      BY <1>3, <3>1
  <2> QED
    BY <2>1, <2>2 DEF Stores, Loaded, Empty
<1> HIDE DEF t, d
<1>5. ASSUME NEW l \in Keys PROVE GoodKey(t, l)
  <2>1. CASE l = k
    <3>1. t.data[k] = d /\ ~t.notBefore[k] /\ (t.plain[k] <=> b)
      BY <1>3
    <3> QED
      BY <1>2, <2>1, <3>1 DEF GoodKey
  <2>2. CASE l # k
    <3>1. t.data[l] = Nothing /\ ~t.notBefore[l] /\ t.expires[l] = "none"
      BY <1>3, <2>2
    <3> QED
      BY <3>1, NothingType DEF GoodKey
  <2> QED
    BY <2>1, <2>2
<1>6. GoodStore(t) /\ t.version > s.version /\ \A l \in Keys : t.keyVersion[l] = 0
  <2>1. \A l \in Keys : t.keyVersion[l] = 0
    BY <1>3
  <2> QED
    BY <1>1, <1>3, <1>4, <1>5, <2>1, Fields DEF GoodStore
<1>7. Sound(t, DeleteAll(t, Lapsed(t)))
  <2>1. Lapsed(t) \subseteq Keys
    BY DEF Lapsed
  <2> QED
    BY <1>6, <2>1, DeleteAllSound
<1>8. Load(s, k, kind, e) = DeleteAll(t, Lapsed(t))
  BY DEF Load, purgeExpiredLocked, Loaded, t
<1>9. PICK u : u = DeleteAll(t, Lapsed(t))
  OBVIOUS
<1>10. GoodStore(u) /\ Traced(t, u)
  BY <1>7, <1>9 DEF Sound
<1>11. /\ s.version \in Nat /\ t.version \in Nat /\ u.version \in Nat
       /\ \A l \in Keys : u.keyVersion[l] \in Nat
  BY <1>1, <1>4, <1>10, Fields DEF GoodStore
<1>12. Fresh(s, u)
  BY <1>6, <1>10, <1>11 DEF Fresh, Traced
<1> QED
  BY <1>8, <1>9, <1>12

-----------------------------------------------------------------------------
(***************************************************************************)
(* The store becomes t: what was stray or is orphaned now and still has    *)
(* nothing but an expiry time is stray afterwards.                         *)
(***************************************************************************)
LEMMA BecomesStep ==
  ASSUME IndInv, NEW t \in Stores, NEW orphans, orphans \subseteq Keys, Becomes(t, orphans),
         db.version <= t.version,
         \A k \in Keys : t.keyVersion[k] <= t.version,
         \A k \in Keys \ orphans : GoodKey(t, k),
         \A k \in orphans : t.plain[k] => PlainContents(t, k),
         altered' \in [Clients -> SUBSET Keys], WatchInv'
  PROVE  IndInv'
<1>1. db' = t /\ tx' = tx /\ watched' = watched
  BY DEF Becomes
<1>2. stray' = {k \in stray \cup orphans : t.expires[k] # "none" /\ Holds(t, k) = {}}
  BY DEF Becomes
<1>3. db.version \in Nat /\ t.version \in Nat
  BY Fields DEF IndInv, TypeOK
<1>4. TypeOK'
  <2>1. watched \in [Clients -> [Keys -> -1..t.version]]
    <3>1. watched \in [Clients -> [Keys -> -1..db.version]]
      BY DEF IndInv, TypeOK
    <3>2. -1..db.version \subseteq -1..t.version
      BY <1>3
    <3> HIDE DEF IndInv
    <3> QED
      BY <3>1, <3>2
  <2>2. tx \in [Clients -> {"none", "multi", "exec"}]
    BY DEF IndInv, TypeOK
  <2>3. stray' \subseteq Keys
    BY <1>2 DEF IndInv, TypeOK
  <2> QED
    BY <1>1, <2>1, <2>2, <2>3 DEF TypeOK
<1>5. ASSUME NEW k \in Keys, t.plain[k], t.expires[k] # "none", k \notin stray'
      PROVE  \E j \in Kinds : t.data[k][j] > 0
  <2>1. CASE Holds(t, k) # {}
    BY <2>1 DEF Holds
  <2>2. CASE Holds(t, k) = {}
    <3>1. k \notin stray /\ k \notin orphans
      BY <1>2, <1>5, <2>2
    <3> QED
      BY <1>5, <3>1 DEF GoodKey
  <2> QED
    BY <2>1, <2>2
<1>6. ASSUME NEW k \in Keys, t.plain[k] PROVE PlainContents(t, k)
  BY <1>6 DEF GoodKey, PlainContents
<1>7. GoodStore(db)'
  BY <1>1, <1>5, <1>6 DEF GoodStore, GoodKey, PlainContents
<1> QED
  BY <1>4, <1>7 DEF IndInv

(***************************************************************************)
(* What a command alters for a watcher has a version above every watched   *)
(* one.                                                                    *)
(***************************************************************************)
LEMMA NotedStep ==
  ASSUME IndInv, NEW t \in Stores, Traced(db, t), db' = t, watched' = watched, Noted(t)
  PROVE  altered' \in [Clients -> SUBSET Keys] /\ WatchInv'
<1>1. db \in Stores /\ db.version \in Nat /\ t.version \in Nat
  BY Fields DEF IndInv, TypeOK
<1>2. altered' \in [Clients -> SUBSET Keys]
  BY DEF Noted, Differing, IndInv, TypeOK
<1>3. ASSUME NEW c \in Clients, NEW k \in altered'[c]
      PROVE  watched[c][k] >= 0 /\ (t.keyVersion[k] > watched[c][k]
                                    \/ (t.keyVersion[k] = 0 /\ watched[c][k] > 0))
  <2>1. k \in Keys
    BY <1>2
  <2>2. t.keyVersion[k] \in Nat /\ watched[c][k] \in -1..db.version
    BY <2>1, Fields DEF IndInv, TypeOK
  <2>3. \/ t.keyVersion[k] > db.version
        \/ t.keyVersion[k] = db.keyVersion[k] /\ t.data[k] = db.data[k]
    BY <2>1 DEF Traced
  <2>4. CASE k \in altered[c]
    BY <1>1, <2>2, <2>3, <2>4 DEF IndInv, WatchInv
  <2>5. CASE k \in Differing(t) /\ watched[c][k] >= 0
    BY <1>1, <2>2, <2>3, <2>5 DEF Differing
  <2> QED
    BY <2>4, <2>5 DEF Noted
<1>4. WatchInv'
  BY <1>3 DEF WatchInv
<1> QED
  BY <1>2, <1>4

(***************************************************************************)
(* A sound command keeps the invariant.                                    *)
(***************************************************************************)
LEMMA CommandStep ==
  ASSUME IndInv, NEW t, Sound(db, t), Command(t)
  PROVE  IndInv'
<1>1. t \in Stores /\ Traced(db, t) /\ db.version <= t.version
  BY DEF Sound, Traced, GoodStore
<1>2. Becomes(t, {}) /\ Noted(t) /\ db' = t /\ watched' = watched
  BY DEF Command, Becomes
<1>3. altered' \in [Clients -> SUBSET Keys] /\ WatchInv'
  BY <1>1, <1>2, NotedStep
<1>4. (\A k \in Keys : t.keyVersion[k] <= t.version) /\ (\A k \in Keys \ {} : GoodKey(t, k))
  BY DEF Sound, GoodStore
<1> QED
  BY <1>1, <1>2, <1>3, <1>4, BecomesStep

(***************************************************************************)
(* So do SORT with STORE, which may leave an expiry time stray,            *)
(***************************************************************************)
LEMMA SortStep ==
  ASSUME IndInv, NEW k \in Keys, NEW dst \in Keys, NEW n \in {0, 1}, SortCommand(k, dst, n)
  PROVE  IndInv'
<1>1. PICK t : t = Sort(db, k, dst, n)
  OBVIOUS
<1>2. GoodStore(db) /\ {dst} \subseteq Keys
  BY DEF IndInv
<1>3. CASE db.expires[k] = "past"
  <2>1. Becomes(t, {dst}) /\ Noted(t) /\ db' = t /\ watched' = watched
    BY <1>1, <1>3 DEF SortCommand, Becomes
  <2>2. /\ t \in Stores /\ Traced(db, t)
        /\ \A l \in Keys : t.keyVersion[l] <= t.version
        /\ \A l \in Keys \ {dst} : GoodKey(t, l)
        /\ \A l \in {dst} : t.plain[l] => PlainContents(t, l)
    BY <1>1, <1>2, <1>3, SortExpired
  <2>3. db.version <= t.version
    BY <2>2 DEF Traced
  <2>4. altered' \in [Clients -> SUBSET Keys] /\ WatchInv'
    BY <2>1, <2>2, NotedStep
  <2> QED
    BY <1>2, <2>1, <2>2, <2>3, <2>4, BecomesStep
<1>4. CASE db.expires[k] # "past"
  <2>1. Command(t)
    BY <1>1, <1>4 DEF SortCommand, Command
  <2>2. Sound(db, t)
    BY <1>1, <1>2, <1>4, SortSound
  <2> QED
    BY <2>1, <2>2, CommandStep
<1> QED
  BY <1>3, <1>4

(***************************************************************************)
(* SREM, which watchers do not notice,                                     *)
(***************************************************************************)
LEMMA SRemStep ==
  ASSUME IndInv, NEW k \in Keys, NEW n \in Nat \ {0}, SRemCommand(k, n)
  PROVE  IndInv'
<1>1. PICK t : t = SRem(db, k, n)
  OBVIOUS
<1>2. GoodStore(db)
  BY DEF IndInv
<1>3. CASE db.expires[k] = "past"
  BY <1>1, <1>2, <1>3, SRemExpired, CommandStep DEF SRemCommand
<1>4. CASE db.expires[k] # "past"
  <2>1. Becomes(t, {}) /\ altered' = altered /\ db' = t /\ watched' = watched
    BY <1>1, <1>4 DEF SRemCommand, SilentCommand, Becomes
  <2>2. GoodStore(t) /\ t.version = db.version /\ t.keyVersion = db.keyVersion
    BY <1>1, <1>2, <1>4, SRemGood
  <2>3. /\ t \in Stores /\ db.version <= t.version
        /\ \A l \in Keys : t.keyVersion[l] <= t.version
        /\ \A l \in Keys \ {} : GoodKey(t, l)
    BY <1>2, <2>2, Fields DEF GoodStore
  <2>4. altered' \in [Clients -> SUBSET Keys] /\ WatchInv'
    BY <2>1, <2>2 DEF IndInv, TypeOK, WatchInv
  <2> QED
    BY <2>1, <2>3, <2>4, BecomesStep
<1> QED
  BY <1>3, <1>4

(***************************************************************************)
(* and a store that starts over: a version that was watched and is not     *)
(* zero is gone for good.                                                  *)
(***************************************************************************)
LEMMA RestartStep ==
  ASSUME IndInv, NEW t, Fresh(db, t), Restart(t)
  PROVE  IndInv'
<1>1. Becomes(t, {}) /\ db' = t /\ watched' = watched
  BY DEF Restart, Becomes
<1>2. /\ t \in Stores /\ db.version <= t.version
      /\ \A k \in Keys : t.keyVersion[k] <= t.version
      /\ \A k \in Keys \ {} : GoodKey(t, k)
  BY DEF Fresh, GoodStore
<1>3. altered' \in [Clients -> SUBSET Keys]
  BY DEF Restart, Differing, IndInv, TypeOK
<1>4. ASSUME NEW c \in Clients, NEW k \in altered'[c]
      PROVE  watched[c][k] >= 0 /\ (t.keyVersion[k] > watched[c][k]
                                    \/ (t.keyVersion[k] = 0 /\ watched[c][k] > 0))
  <2>1. k \in Keys
    BY <1>3
  <2>2. /\ t.keyVersion[k] \in Nat /\ db.version \in Nat /\ watched[c][k] \in -1..db.version
    BY <1>2, <2>1, Fields DEF IndInv, TypeOK
  <2>3. watched[c][k] > 0
    BY DEF Restart
  <2>4. t.keyVersion[k] = 0 \/ t.keyVersion[k] > db.version
    BY <2>1 DEF Fresh
  <2> QED
    BY <2>2, <2>3, <2>4
<1>5. WatchInv'
  BY <1>1, <1>4 DEF WatchInv
<1> QED
  BY <1>1, <1>2, <1>3, <1>5, BecomesStep

(***************************************************************************)
(* Every command of the store is sound.                                    *)
(***************************************************************************)
LEMMA StringCommandStep ==
  ASSUME IndInv, NEW k \in Keys, StringCommand(k)
  PROVE  IndInv'
<1>1. GoodStore(db) /\ "none" \in Times /\ "future" \in Times
  BY DEF IndInv, Times
<1>2. ASSUME NEW e \in {"none", "future"},
             NEW t \in {Set(db, k, e), SetNX(db, k, e), SetXX(db, k, e), GetEx(db, k, e),
                        SetDelayed(db, k, e)},
             Command(t)
      PROVE  IndInv'
  <2>1. e \in Times
    BY <1>1
  <2>2. Sound(db, t)
    BY <1>1, <2>1, AssignSound, SetNXSound, SetXXSound, GetCommandsSound, SetDelayedSound
       DEF Set
  <2> QED
    BY <1>2, <2>2, CommandStep
<1>3. ASSUME NEW e \in Times, Command(SetAbsolute(db, k, e))
      PROVE  IndInv'
  <2>1. Sound(db, SetAbsolute(db, k, e))
    BY <1>1, AssignSound DEF SetAbsolute
  <2> QED
    BY <1>3, <2>1, CommandStep
<1>4. ASSUME NEW t \in {IncrBy(db, k), IncrByFloat(db, k), Append(db, k), SetRange(db, k),
                        SetBit(db, k), GetSet(db, k), GetDel(db, k)},
             Command(t)
      PROVE  IndInv'
  <2>1. Sound(db, t)
    BY <1>1, EditCommandsSound, GetCommandsSound
       DEF IncrBy, IncrByFloat, Append, SetRange, SetBit
  <2> QED
    BY <1>4, <2>1, CommandStep
<1>5. ASSUME NEW l \in Keys, NEW t \in {MSetNX(db, k, l), BitOp(db, k, l)}, Command(t)
      PROVE  IndInv'
  <2>1. Sound(db, t)
    BY <1>1, MSetNXSound, BitOpSound
  <2> QED
    BY <1>5, <2>1, CommandStep
<1> QED
  BY <1>2, <1>3, <1>4, <1>5 DEF StringCommand

(***************************************************************************)
(* The commands on whole keys keep the invariant.                          *)
(***************************************************************************)
LEMMA KeyCommandStep ==
  ASSUME IndInv, NEW k \in Keys, KeyCommand(k)
  PROVE  IndInv'
<1>1. GoodStore(db) /\ "future" \in Times /\ TRUE \in BOOLEAN /\ FALSE \in BOOLEAN
  BY DEF IndInv, Times
<1>2. ASSUME NEW t \in {Del(db, k), Expire(db, k, "future"), Persist(db, k)}, Command(t)
      PROVE  IndInv'
  <2>1. Sound(db, t)
    BY <1>1, ExpiryCommandsSound
  <2> QED
    BY <1>2, <2>1, CommandStep
<1>3. ASSUME NEW e \in Times, Command(ExpireAt(db, k, e))
      PROVE  IndInv'
  <2>1. Sound(db, ExpireAt(db, k, e))
    BY <1>1, ExpiryCommandsSound DEF ExpireAt
  <2> QED
    BY <1>3, <2>1, CommandStep
<1>4. ASSUME NEW n \in Keys,
             NEW t \in {Rename(db, k, n), Copy(db, k, n, TRUE), Copy(db, k, n, FALSE)},
             Command(t)
      PROVE  IndInv'
  <2>1. \A b \in BOOLEAN : Sound(db, Copy(db, k, n, b))
    BY <1>1, CopySound
  <2>2. Sound(db, t)
    BY <1>1, <2>1, RenameSound
  <2> QED
    BY <1>4, <2>2, CommandStep
<1> QED
  BY <1>2, <1>3, <1>4 DEF KeyCommand

(***************************************************************************)
(* The commands on lists, sets, hashes and sorted sets keep the invariant. *)
(***************************************************************************)
LEMMA CollectionCommandStep ==
  ASSUME IndInv, NEW k \in Keys, CollectionCommand(k)
  PROVE  IndInv'
<1>1. /\ GoodStore(db)
      /\ "hash" \in Core /\ "set" \in Core /\ "zset" \in Core /\ "list" \in Core
      /\ "hash" \in Kinds /\ "set" \in Kinds /\ "zset" \in Kinds /\ "list" \in Kinds
      /\ 1 \in Nat \ {0}
  BY KindsAre DEF IndInv, Core
<1>2. ASSUME NEW t \in {HSet(db, k), HIncrBy(db, k), HSetNX(db, k), SAdd(db, k), ZAdd(db, k),
                        ZIncrBy(db, k)},
             Command(t)
      PROVE  IndInv'
  <2>1. Sound(db, t)
    BY <1>1, AddToSound DEF HSet, HIncrBy, HSetNX, SAdd, ZAdd, ZIncrBy
  <2> QED
    BY <1>2, <2>1, CommandStep
<1>3. ASSUME NEW t \in {popList(db, k), BPop(db, k), LInsert(db, k), LSet(db, k)}, Command(t)
      PROVE  IndInv'
  <2>1. Sound(db, t)
    BY <1>1, TakeFromSound, ListEditsSound DEF popList
  <2> QED
    BY <1>3, <2>1, CommandStep
<1>4. ASSUME NEW n \in 1..MaxSize,
             NEW t \in {HDel(db, k, n), LRem(db, k, n), SPop(db, k, n), ZRem(db, k, n),
                        ZPopMin(db, k, n)},
             Command(t)
      PROVE  IndInv'
  <2>1. n \in Nat \ {0}
    BY DEF MaxSize
  <2>2. Sound(db, t)
    BY <1>1, <2>1, TakeFromSound DEF HDel, LRem, SPop, ZRem, ZPopMin
  <2> QED
    BY <1>4, <2>2, CommandStep
<1>5. ASSUME NEW sleeper \in BOOLEAN,
             \/ Command(pushList(db, k, sleeper))
             \/ \E n \in Keys : Command(LMove(db, k, n, sleeper))
      PROVE  IndInv'
  <2>1. Sound(db, pushList(db, k, sleeper)) /\ \A n \in Keys : Sound(db, LMove(db, k, n, sleeper))
    BY <1>1, PushSound, LMoveSound
  <2> QED
    BY <1>5, <2>1, CommandStep
<1>6. ASSUME NEW dst \in Keys, Command(SMove(db, k, dst)) PROVE IndInv'
  BY <1>1, <1>6, SMoveSound, CommandStep
<1>7. ASSUME NEW dst \in Keys, NEW n \in 0..1, SortCommand(k, dst, n) PROVE IndInv'
  <2>1. n \in {0, 1}
    OBVIOUS
  <2> QED
    BY <1>7, <2>1, SortStep
<1>8. ASSUME NEW n \in 1..MaxSize, SRemCommand(k, n) PROVE IndInv'
  <2>1. n \in Nat \ {0}
    BY DEF MaxSize
  <2> QED
    BY <1>8, <2>1, SRemStep
<1> QED
  BY <1>2, <1>3, <1>4, <1>5, <1>6, <1>7, <1>8 DEF CollectionCommand

(***************************************************************************)
(* The commands on JSON documents, time series and HyperLogLogs keep the   *)
(* invariant.                                                              *)
(***************************************************************************)
LEMMA YoungCommandStep ==
  ASSUME IndInv, NEW k \in Keys, YoungCommand(k)
  PROVE  IndInv'
<1>1. /\ GoodStore(db)
      /\ "hll" \in Kinds \ Core /\ "json" \in Kinds \ Core /\ "timeseries" \in Kinds \ Core
  BY KindsAre DEF IndInv, Core
<1>2. ASSUME NEW t \in {PFAdd(db, k), TSAdd(db, k), JSONSet(db, k), JSONNumIncrBy(db, k),
                        JSONArrAppend(db, k), JSONDel(db, k)},
             Command(t)
      PROVE  IndInv'
  <2>1. Sound(db, PFAdd(db, k)) /\ Sound(db, TSAdd(db, k)) /\ Sound(db, JSONSet(db, k))
    BY <1>1, UpdateSound DEF PFAdd, TSAdd, JSONSet
  <2>2. Sound(db, t)
    BY <1>1, <2>1, JSONSound DEF JSONArrAppend
  <2> QED
    BY <1>2, <2>2, CommandStep
<1>3. ASSUME NEW l \in Keys, NEW t \in {PFMerge(db, k, l), TSDownsample(db, k, l)}, Command(t)
      PROVE  IndInv'
  <2>1. Sound(db, t)
    BY <1>1, PFMergeSound, BitOpSound
  <2> QED
    BY <1>3, <2>1, CommandStep
<1> QED
  BY <1>2, <1>3 DEF YoungCommand

(***************************************************************************)
(* Expiry sampling, eviction, FLUSHDB and the loading of a snapshot keep   *)
(* the invariant.                                                          *)
(***************************************************************************)
LEMMA WholeStoreStep ==
  ASSUME IndInv, WholeStore
  PROVE  IndInv'
<1>1. GoodStore(db) /\ "string" \in Kinds /\ "set" \in Kinds
  BY KindsAre DEF IndInv
<1>2. ASSUME NEW ks \in SUBSET Keys,
             Command(sampleExpired(db, ks)) \/ Command(EvictIfNeeded(db, ks))
      PROVE  IndInv'
  <2>1. Sound(db, DeleteAll(db, ks))
    BY <1>1, DeleteAllSound
  <2> QED
    BY <1>2, <2>1, CommandStep DEF sampleExpired, EvictIfNeeded
<1>3. ASSUME Restart(FlushDB(db)) PROVE IndInv'
  BY <1>1, <1>3, FlushDBSound, RestartStep
<1>4. ASSUME NEW k \in Keys, NEW kind \in {"string", "set"}, NEW e \in Times,
             Restart(Load(db, k, kind, e))
      PROVE  IndInv'
  <2>1. Fresh(db, Load(db, k, kind, e))
    BY <1>1, LoadSound
  <2> QED
    BY <1>4, <2>1, RestartStep
<1>5. Lapsed(db) \subseteq Keys /\ Evictable(db) \subseteq Keys
  BY DEF Lapsed, Evictable
<1> QED
  BY <1>2, <1>3, <1>4, <1>5 DEF WholeStore

(***************************************************************************)
(* The passing of time leaves versions and contents alone.                 *)
(***************************************************************************)
LEMMA TimeStep ==
  ASSUME IndInv, NEW k \in Keys, Lapse(k) \/ Appear(k)
  PROVE  IndInv'
<1>1. db \in Stores /\ GoodStore(db) /\ GoodKey(db, k)
  BY DEF IndInv, GoodStore
<1>2. PICK t : db' = t
  OBVIOUS
<1>3. /\ Edited(db, t, k) /\ t.data = db.data /\ t.plain = db.plain
      /\ t.notBefore[k] => db.notBefore[k]
      /\ db.notBefore[k] = t.notBefore[k] \/ db.notBefore[k]
      /\ t.expires[k] # "none" => db.expires[k] # "none"
  <2>1. CASE Lapse(k)
    <3>1. "past" \in Times
      BY DEF Times
    <3>2. t = [db EXCEPT !.expires[k] = "past"] /\ db.expires[k] = "future"
      BY <1>2, <2>1 DEF Lapse
    <3>3. Edited(db, t, k) /\ t.data = db.data /\ t.notBefore = db.notBefore /\ t.plain = db.plain
      BY <1>1, <3>1, <3>2, ExpiresFields
    <3> QED
      BY <3>2, <3>3
  <2>2. CASE Appear(k)
    <3>1. t = [db EXCEPT !.notBefore[k] = FALSE] /\ db.notBefore[k]
      BY <1>2, <2>2 DEF Appear
    <3>2. /\ t.data = db.data /\ t.expires = db.expires /\ t.plain = db.plain
          /\ t.notBefore = [db.notBefore EXCEPT ![k] = FALSE]
          /\ t.version = db.version /\ t.keyVersion = db.keyVersion
      BY <1>1, <3>1 DEF Stores
    <3>3. t \in Stores
      BY <1>1, <3>1 DEF Stores
    <3>4. ~t.notBefore[k] /\ \A l \in Keys \ {k} : t.notBefore[l] = db.notBefore[l]
      BY <1>1, <3>2, Fields
    <3> QED
      BY <3>1, <3>2, <3>3, <3>4 DEF Edited
  <2> QED
    BY <2>1, <2>2
<1>4. GoodKey(t, k)
  BY <1>1, <1>3 DEF GoodKey
<1>5. GoodStore(t)
  BY <1>1, <1>3, <1>4, EditedGood
<1>6. /\ tx' = tx /\ watched' = watched /\ altered' = altered /\ stray' = stray
      /\ t.version = db.version /\ t.keyVersion = db.keyVersion
  BY <1>3 DEF Lapse, Appear, Edited
<1>7. TypeOK'
  BY <1>2, <1>5, <1>6 DEF IndInv, TypeOK, GoodStore
<1>8. WatchInv'
  BY <1>2, <1>6 DEF IndInv, WatchInv
<1>9. GoodStore(db)'
  BY <1>2, <1>5, <1>6 DEF GoodStore, GoodKey
<1> QED
  BY <1>7, <1>8, <1>9 DEF IndInv

(***************************************************************************)
(* WATCH starts afresh for the keys it names; the other steps of a         *)
(* connection forget what it watches or leave it.                          *)
(***************************************************************************)
LEMMA WatchStep ==
  ASSUME IndInv, NEW c \in Clients, NEW ks \in SUBSET Keys, Watch(c, ks)
  PROVE  IndInv'
<1> DEFINE w == [k \in Keys |-> IF k \in ks THEN db.keyVersion[k] ELSE watched[c][k]]
<1>1. /\ db \in Stores /\ db.version \in Nat /\ watched \in [Clients -> [Keys -> -1..db.version]]
      /\ altered \in [Clients -> SUBSET Keys]
  BY Fields DEF IndInv, TypeOK
<1>2. /\ db' = db /\ tx' = tx /\ stray' = stray /\ watched' = [watched EXCEPT ![c] = w]
      /\ altered' = [altered EXCEPT ![c] = altered[c] \ ks]
  BY <1>1 DEF Watch
<1>3. w \in [Keys -> -1..db.version]
  <2>1. \A k \in Keys : db.keyVersion[k] \in -1..db.version
    BY <1>1, Fields DEF IndInv, TypeOK
  <2> QED
    BY <1>1, <2>1
<1>4. \A k \in Keys \ ks : w[k] = watched[c][k]
  OBVIOUS
<1> HIDE DEF w
<1>5. /\ watched' \in [Clients -> [Keys -> -1..db.version]] /\ altered' \in [Clients -> SUBSET Keys]
  BY <1>1, <1>2, <1>3
<1>6. TypeOK' /\ GoodStore(db)'
  BY <1>2, <1>5 DEF IndInv, TypeOK, GoodStore, GoodKey
<1>7. ASSUME NEW h \in Clients, NEW k \in altered'[h]
      PROVE  watched'[h][k] = watched[h][k] /\ k \in altered[h]
  BY <1>1, <1>2, <1>4
<1>8. WatchInv'
  BY <1>2, <1>7 DEF IndInv, WatchInv
<1> QED
  BY <1>6, <1>8 DEF IndInv

(***************************************************************************)
(* Forgetting what a connection watches keeps the invariant.               *)
(***************************************************************************)
LEMMA ForgetStep ==
  ASSUME IndInv, NEW c \in Clients, Forget(c), tx' \in [Clients -> {"none", "multi", "exec"}]
  PROVE  IndInv'
<1>1. /\ db \in Stores /\ db.version \in Nat /\ watched \in [Clients -> [Keys -> -1..db.version]]
      /\ altered \in [Clients -> SUBSET Keys]
  BY Fields DEF IndInv, TypeOK
<1>2. /\ db' = db /\ stray' = stray /\ watched' = [watched EXCEPT ![c] = NoneWatched]
      /\ altered' = [altered EXCEPT ![c] = {}]
  BY DEF Forget
<1>3. NoneWatched \in [Keys -> -1..db.version]
  BY <1>1 DEF NoneWatched
<1>4. /\ watched' \in [Clients -> [Keys -> -1..db.version]] /\ altered' \in [Clients -> SUBSET Keys]
  BY <1>1, <1>2, <1>3
<1>5. TypeOK' /\ GoodStore(db)'
  BY <1>2, <1>4 DEF IndInv, TypeOK, GoodStore, GoodKey
<1>6. ASSUME NEW h \in Clients, NEW k \in altered'[h]
      PROVE  watched'[h][k] = watched[h][k] /\ k \in altered[h]
  BY <1>1, <1>2
<1>7. WatchInv'
  BY <1>2, <1>6 DEF IndInv, WatchInv
<1> QED
  BY <1>5, <1>7 DEF IndInv

(***************************************************************************)
(* MULTI, EXEC, DISCARD, WATCH and UNWATCH keep the invariant.             *)
(***************************************************************************)
LEMMA TransactionStep ==
  ASSUME IndInv, NEW c \in Clients, Transaction(c)
  PROVE  IndInv'
<1>1. tx \in [Clients -> {"none", "multi", "exec"}]
  BY DEF IndInv, TypeOK
<1>2. ASSUME NEW ks \in SUBSET Keys, Watch(c, ks) PROVE IndInv'
  BY <1>2, WatchStep
<1>3. CASE Unwatch(c)
  BY <1>1, <1>3, ForgetStep DEF Unwatch
<1>4. CASE Discard(c) \/ ExecAbort(c) \/ ExecDone(c)
  BY <1>1, <1>4, ForgetStep DEF Discard, ExecAbort, ExecDone
<1>5. CASE Multi(c) \/ Exec(c)
  <2>1. /\ db' = db /\ watched' = watched /\ altered' = altered /\ stray' = stray
        /\ tx' \in [Clients -> {"none", "multi", "exec"}]
    BY <1>1, <1>5 DEF Multi, Exec
  <2> QED
    BY <2>1 DEF IndInv, TypeOK, WatchInv, GoodStore, GoodKey
<1> QED
  BY <1>2, <1>3, <1>4, <1>5 DEF Transaction

(***************************************************************************)
(* The invariant is inductive.                                             *)
(***************************************************************************)
LEMMA InitIndInv == Init => IndInv
<1> SUFFICES ASSUME Init PROVE IndInv
  OBVIOUS
<1>1. /\ db.data = [k \in Keys |-> Nothing] /\ db.expires = [k \in Keys |-> "none"]
      /\ db.notBefore = [k \in Keys |-> FALSE] /\ db.version = 0
      /\ db.keyVersion = [k \in Keys |-> 0] /\ db.plain = [k \in Keys |-> TRUE]
  BY DEF Init, Empty
<1>2. db \in Stores
  BY NothingType DEF Init, Empty, Stores, Times
<1>3. GoodStore(db)
  BY <1>1, <1>2, NothingType DEF GoodStore, GoodKey
<1>4. watched \in [Clients -> [Keys -> -1..db.version]]
  <2>1. NoneWatched \in [Keys -> -1..db.version]
    BY <1>1 DEF NoneWatched
  <2> QED
    BY <2>1 DEF Init
<1>5. TypeOK
  BY <1>2, <1>3, <1>4 DEF TypeOK, GoodStore, Init
<1>6. WatchInv
  BY DEF Init, WatchInv
<1> QED
  BY <1>3, <1>5, <1>6 DEF IndInv

(***************************************************************************)
(* Every step keeps the invariant.                                         *)
(***************************************************************************)
LEMMA NextIndInv == IndInv /\ [Next]_vars => IndInv'
<1> SUFFICES ASSUME IndInv, [Next]_vars PROVE IndInv'
  OBVIOUS
<1>1. ASSUME NEW k \in Keys,
             StringCommand(k) \/ KeyCommand(k) \/ CollectionCommand(k) \/ YoungCommand(k)
      PROVE  IndInv'
  BY <1>1, StringCommandStep, KeyCommandStep, CollectionCommandStep, YoungCommandStep
<1>2. CASE WholeStore
  BY <1>2, WholeStoreStep
<1>3. ASSUME NEW k \in Keys, Lapse(k) \/ Appear(k) PROVE IndInv'
  BY <1>3, TimeStep
<1>4. ASSUME NEW c \in Clients, Transaction(c) PROVE IndInv'
  BY <1>4, TransactionStep
<1>5. CASE UNCHANGED vars
  BY <1>5 DEF vars, IndInv, TypeOK, WatchInv, GoodStore, GoodKey
<1> QED
  BY <1>1, <1>2, <1>3, <1>4, <1>5 DEF Next

(***************************************************************************)
(* A set in which any two elements are the same has at most one.           *)
(***************************************************************************)
LEMMA AtMostOne ==
  ASSUME NEW S, \A x, y \in S : x = y
  PROVE  Cardinality(S) <= 1
<1>1. CASE S = {}
  BY <1>1, FS_EmptySet
<1>2. CASE S # {}
  <2>1. PICK x : x \in S
    BY <1>2
  <2>2. S = {x}
    BY <2>1
  <2> QED
    BY <2>2, FS_Singleton
<1> QED
  BY <1>1, <1>2

(***************************************************************************)
(* A key of the core kinds lives in one typed map, and versions only ever  *)
(* given out are watched: what SET clears, the others check and RENAME and *)
(* COPY carry over fits together, in any sequence of commands.             *)
(***************************************************************************)
THEOREM KeysLiveInOneMap == Spec => []Inv
<1>1. IndInv => Inv
  <2> SUFFICES ASSUME IndInv PROVE Inv
    OBVIOUS
  <2>1. ASSUME NEW k \in Keys, db.plain[k] PROVE Cardinality(Holds(db, k)) <= 1
    <3>1. GoodKey(db, k)
      BY DEF IndInv, GoodStore
    <3>2. \A i, j \in Holds(db, k) : i = j
      BY <2>1, <3>1 DEF GoodKey, Holds
    <3> QED
      BY <3>2, AtMostOne
  <2> QED
    BY <2>1 DEF Inv, OneKind, IndInv
<1> QED
  BY <1>1, InitIndInv, NextIndInv, PTL DEF Spec

(***************************************************************************)
(* No expiry time of a key of the core kinds outlives its key, except one  *)
(* that SORT ... STORE of an expired source leaves: only that can be       *)
(* inherited by a command that creates a key without resetting the expiry. *)
(***************************************************************************)
THEOREM NoExpiryWithoutKey == Spec => []ExpiryHasKey
<1>1. IndInv => ExpiryHasKey
  <2> SUFFICES ASSUME IndInv, NEW k \in Keys, db.plain[k], db.expires[k] # "none"
               PROVE  Holds(db, k) # {} \/ k \in stray
    BY DEF ExpiryHasKey
  <2>1. GoodKey(db, k)
    BY DEF IndInv, GoodStore
  <2> QED
    BY <2>1 DEF GoodKey, Holds
<1> QED
  BY <1>1, InitIndInv, NextIndInv, PTL DEF Spec

(***************************************************************************)
(* EXEC goes ahead only if no watched key was altered since WATCH, whoever *)
(* altered it, by whatever command but SREM, and unless FLUSHDB or a       *)
(* loaded snapshot met a key that had no version.                          *)
(***************************************************************************)
THEOREM ExecNoticesChanges == Spec => WatchNoticed
<1>1. ASSUME IndInv, [Next]_vars, NEW c \in Clients, tx[c] = "multi", tx'[c] = "exec"
      PROVE  altered[c] = {}
  <2>1. tx \in [Clients -> {"none", "multi", "exec"}]
    BY <1>1 DEF IndInv, TypeOK
  <2>2. ~KeysModifiedSince(watched[c])
    <3>1. CASE UNCHANGED tx
      BY <1>1, <3>1
    <3>2. ASSUME NEW h \in Clients, Transaction(h) PROVE ~KeysModifiedSince(watched[c])
      BY <1>1, <2>1, <3>2
         DEF Transaction, Watch, Unwatch, Multi, Discard, Exec, ExecAbort, ExecDone
    <3> QED
      BY <1>1, <3>1, <3>2
         DEF Next, vars, StringCommand, KeyCommand, CollectionCommand, YoungCommand,
             WholeStore, Command, SortCommand, SRemCommand, SilentCommand, Restart,
             Becomes, Lapse, Appear
  <2>3. SUFFICES ASSUME NEW k \in altered[c] PROVE FALSE
    OBVIOUS
  <2>4. /\ k \in Keys /\ watched[c][k] >= 0
        /\ \/ db.keyVersion[k] > watched[c][k]
           \/ db.keyVersion[k] = 0 /\ watched[c][k] > 0
    BY <1>1 DEF IndInv, TypeOK, WatchInv
  <2>5. watched[c][k] \in Int
    BY <1>1, <2>4 DEF IndInv, TypeOK
  <2> QED
    BY <2>2, <2>4, <2>5 DEF KeysModifiedSince
<1>2. IndInv /\ [Next]_vars
        => [\A c \in Clients : (tx[c] = "multi" /\ tx'[c] = "exec") => altered[c] = {}]_vars
  BY <1>1
<1> QED
  BY <1>2, InitIndInv, NextIndInv, PTL DEF Spec, WatchNoticed
=============================================================================
