-------------------------- MODULE PersistenceProofs --------------------------
(***************************************************************************)
(* Proofs about Persistence for any clients and any number of commands and *)
(* crashes.                                                                *)
(***************************************************************************)
EXTENDS Persistence, FiniteSetTheorems, WellFoundedInduction, TLAPS

-----------------------------------------------------------------------------
(***************************************************************************)
(* A set of numbers that is not empty has a least one: the intervals below *)
(* its members are finite sets, ordered by inclusion.                      *)
(***************************************************************************)
LEMMA LeastNumber ==
  ASSUME NEW T \in SUBSET Nat, T # {}
  PROVE  \E m \in T : \A k \in T : m <= k
<1> DEFINE I == {0..n : n \in T}
<1>1. I \subseteq FiniteSubsetsOf(Nat)
  <2> SUFFICES ASSUME NEW n \in T PROVE 0..n \in FiniteSubsetsOf(Nat)
    OBVIOUS
  <2>1. n \in Int /\ 0 \in Int
    OBVIOUS
  <2>2. IsFiniteSet(0..n)
    BY <2>1, FS_Interval
  <2> QED
    BY <2>2 DEF FiniteSubsetsOf
<1>2. I # {}
  OBVIOUS
<1> HIDE DEF I
<1>3. \E x \in I : \A y \in I : ~(<<y, x>> \in StrictSubsetOrdering(Nat))
  BY <1>1, <1>2, WFMin, FS_StrictSubsetOrderingWellFounded
<1>4. PICK m \in T : \A y \in I : ~(<<y, 0..m>> \in StrictSubsetOrdering(Nat))
  BY <1>3 DEF I
<1>5. ASSUME NEW k \in T PROVE m <= k
  <2> SUFFICES ASSUME k < m PROVE FALSE
    OBVIOUS
  <2>1. 0..k \subseteq 0..m /\ 0..k # 0..m /\ 0..k \in SUBSET Nat /\ 0..m \in SUBSET Nat
    <3>1. m \in 0..m /\ m \notin 0..k
      OBVIOUS
    <3> QED
      BY <3>1
  <2>2. <<0..k, 0..m>> \in StrictSubsetOrdering(Nat)
    BY <2>1 DEF StrictSubsetOrdering
  <2> QED
    BY <1>4, <2>2 DEF I
<1> QED
  BY <1>5

(***************************************************************************)
(* Induction over the numbers up to n, for a set of numbers.               *)
(***************************************************************************)
LEMMA CountUp ==
  ASSUME NEW n \in Nat, NEW S, 0 \in S, \A i \in 0..(n - 1) : i \in S => i + 1 \in S
  PROVE  \A i \in 0..n : i \in S
<1> DEFINE T == {i \in 0..n : i \notin S}
<1> SUFFICES ASSUME T # {} PROVE FALSE
  OBVIOUS
<1>1. T \in SUBSET Nat
  OBVIOUS
<1>2. PICK m \in T : \A k \in T : m <= k
  BY <1>1, LeastNumber
<1>3. m # 0 /\ m \in 0..n /\ m \notin S
  BY <1>2
<1>4. m - 1 \in 0..(n - 1) /\ m - 1 \in 0..n
  BY <1>3
<1>5. m - 1 \in S
  BY <1>2, <1>4
<1>6. (m - 1) + 1 \in S
  BY <1>4, <1>5
<1> QED
  BY <1>3, <1>6

-----------------------------------------------------------------------------
(***************************************************************************)
(* What replay makes of the i-th entry of a log in store d.                *)
(***************************************************************************)
Step(d, log, i) == IF Joined(log, i) THEN d ELSE ReplayEntry(d, log[i])

(***************************************************************************)
(* f gives the store after each entry of the log.                          *)
(***************************************************************************)
Replays(f, d, log) ==
  f = [i \in 0..Len(log) |-> IF i = 0 THEN d ELSE Step(f[i - 1], log, i)]

(***************************************************************************)
(* There is such a function, and ReplayAOF takes its last value.           *)
(***************************************************************************)
LEMMA ReplayDefined ==
  ASSUME NEW X, NEW log \in Seq(X), NEW d
  PROVE  \E f : Replays(f, d, log) /\ ReplayAOF(d, log) = f[Len(log)]
<1> DEFINE G(n, g) == g = [i \in 0..n |-> IF i = 0 THEN d ELSE Step(g[i - 1], log, i)]
           S == {n \in 0..Len(log) : \E g : G(n, g)}
<1>1. Len(log) \in Nat
  OBVIOUS
<1>2. 0 \in S
  <2>1. PICK g : g = [i \in 0..0 |-> d]
    OBVIOUS
  <2>2. G(0, g)
    BY <2>1
  <2> QED
    BY <1>1, <2>2
<1>3. ASSUME NEW n \in 0..(Len(log) - 1), n \in S PROVE n + 1 \in S
  <2>1. PICK g : G(n, g)
    BY <1>3
  <2>2. PICK h : h = [i \in 0..(n + 1) |-> IF i = n + 1 THEN Step(g[n], log, n + 1) ELSE g[i]]
    OBVIOUS
  <2>3. n \in Nat /\ n + 1 \in 0..Len(log)
    BY <1>1
  <2>4. ASSUME NEW i \in 0..(n + 1)
        PROVE  h[i] = IF i = 0 THEN d ELSE Step(h[i - 1], log, i)
    <3>1. CASE i = n + 1
      <4>1. i # 0 /\ i - 1 = n /\ n \in 0..(n + 1) /\ n # n + 1
        BY <2>3, <3>1
      <4>2. h[n] = g[n]
        BY <2>2, <4>1
      <4> QED
        BY <2>2, <3>1, <4>1, <4>2
    <3>2. CASE i # n + 1
      <4>1. i \in 0..n
        BY <2>3, <3>2
      <4>2. h[i] = g[i]
        BY <2>2, <3>2
      <4>3. CASE i = 0
        BY <2>1, <4>1, <4>2, <4>3
      <4>4. CASE i # 0
        <5>1. i - 1 \in 0..(n + 1) /\ i - 1 # n + 1
          BY <2>3, <4>1, <4>4
        <5>2. h[i - 1] = g[i - 1]
          BY <2>2, <5>1
        <5> QED
          BY <2>1, <4>1, <4>2, <4>4, <5>2
      <4> QED
        BY <4>3, <4>4
    <3> QED
      BY <3>1, <3>2
  <2>5. G(n + 1, h)
    BY <2>2, <2>4
  <2> QED
    BY <2>3, <2>5
<1> HIDE DEF S
<1>4. Len(log) \in S
  <2>1. \A i \in 0..(Len(log) - 1) : i \in S => i + 1 \in S
    BY <1>3
  <2>2. PICK n \in Nat : n = Len(log)
    BY <1>1
  <2>3. \A i \in 0..(n - 1) : i \in S => i + 1 \in S
    BY <2>1, <2>2
  <2>4. \A i \in 0..n : i \in S
    BY <1>2, <2>3, CountUp
  <2> QED
    BY <2>2, <2>4
<1>5. \E g : G(Len(log), g)
  BY <1>4 DEF S
<1>6. Replays(CHOOSE g : G(Len(log), g), d, log)
  BY <1>5 DEF Replays
<1>7. ReplayAOF(d, log) = (CHOOSE g : G(Len(log), g))[Len(log)]
  BY DEF ReplayAOF, Step
<1> QED
  BY <1>6, <1>7

(***************************************************************************)
(* Two replays from the same store agree as long as their logs do.         *)
(***************************************************************************)
LEMMA ReplaysAgree ==
  ASSUME NEW X, NEW log \in Seq(X), NEW more \in Seq(X), NEW d, NEW f, NEW g,
         Replays(f, d, log), Replays(g, d, more),
         NEW n \in Nat, n <= Len(log), n <= Len(more),
         \A i \in 1..n : log[i] = more[i],
         \A i \in 1..n : Joined(log, i) <=> Joined(more, i)
  PROVE  f[n] = g[n]
<1> DEFINE S == {i \in 0..n : f[i] = g[i]}
<1>1. Len(log) \in Nat /\ Len(more) \in Nat
  OBVIOUS
<1>2. \A i \in 0..Len(log) : f[i] = IF i = 0 THEN d ELSE Step(f[i - 1], log, i)
  BY DEF Replays
<1>3. \A i \in 0..Len(more) : g[i] = IF i = 0 THEN d ELSE Step(g[i - 1], more, i)
  BY DEF Replays
<1>4. 0 \in S
  BY <1>1, <1>2, <1>3
<1>5. ASSUME NEW i \in 0..(n - 1), i \in S PROVE i + 1 \in S
  <2>1. i + 1 \in 0..n /\ i + 1 \in 1..n /\ i + 1 # 0 /\ (i + 1) - 1 = i
    OBVIOUS
  <2>2. i + 1 \in 0..Len(log) /\ i + 1 \in 0..Len(more)
    BY <1>1, <2>1
  <2>3. f[i + 1] = Step(f[i], log, i + 1)
    BY <1>2, <2>1, <2>2
  <2>4. g[i + 1] = Step(g[i], more, i + 1)
    BY <1>3, <2>1, <2>2
  <2>5. /\ f[i] = g[i] /\ log[i + 1] = more[i + 1]
        /\ Joined(log, i + 1) <=> Joined(more, i + 1)
    BY <1>5, <2>1
  <2> QED
    BY <2>1, <2>3, <2>4, <2>5 DEF Step
<1> HIDE DEF S
<1>6. \A i \in 0..(n - 1) : i \in S => i + 1 \in S
  BY <1>5
<1>7. \A i \in 0..n : i \in S
  BY <1>4, <1>6, CountUp
<1>8. n \in S
  BY <1>7
<1> QED
  BY <1>8 DEF S

(***************************************************************************)
(* Replay of an empty log changes nothing.                                 *)
(***************************************************************************)
LEMMA ReplayNothing ==
  ASSUME NEW d
  PROVE  ReplayAOF(d, <<>>) = d
<1>1. <<>> \in Seq({}) /\ Len(<<>>) = 0
  OBVIOUS
<1>2. PICK f : Replays(f, d, <<>>) /\ ReplayAOF(d, <<>>) = f[Len(<<>>)]
  BY <1>1, ReplayDefined
<1>3. f[0] = d
  BY <1>1, <1>2 DEF Replays
<1> QED
  BY <1>1, <1>2, <1>3

(***************************************************************************)
(* Behind lines that have ended, the last of a log is replayed last.       *)
(***************************************************************************)
LEMMA ReplayLast ==
  ASSUME NEW X, NEW log \in Seq(X), NEW e \in X, NEW d, \A i \in 1..Len(log) : log[i].ended
  PROVE  ReplayAOF(d, Append(log, e)) = ReplayEntry(ReplayAOF(d, log), e)
<1>1. PICK f : Replays(f, d, log) /\ ReplayAOF(d, log) = f[Len(log)]
  BY ReplayDefined
<1>2. PICK more \in Seq(X) : more = Append(log, e)
  <2>1. Append(log, e) \in Seq(X)
    OBVIOUS
  <2> QED
    BY <2>1
<1>3. PICK g : Replays(g, d, more) /\ ReplayAOF(d, more) = g[Len(more)]
  BY ReplayDefined
<1>4. PICK n \in Nat : n = Len(log)
  OBVIOUS
<1>5. Len(more) = n + 1 /\ more[n + 1] = e /\ \A i \in 1..n : log[i] = more[i]
  BY <1>2, <1>4
<1>6. ASSUME NEW i \in 1..n PROVE ~Joined(log, i) /\ ~Joined(more, i)
  <2>1. log[i].ended /\ more[i].ended
    BY <1>4, <1>5
  <2>2. i > 1 => log[i - 1].ended /\ more[i - 1].ended
    <3>1. i > 1 => i - 1 \in 1..n
      OBVIOUS
    <3> QED
      BY <1>4, <1>5, <3>1
  <2> QED
    BY <2>1, <2>2 DEF Joined
<1>7. ~Joined(more, n + 1)
  <2>1. n + 1 > 1 => more[(n + 1) - 1].ended
    <3>1. (n + 1) - 1 = n /\ (n + 1 > 1 => n \in 1..n)
      OBVIOUS
    <3> QED
      BY <1>4, <1>5, <3>1
  <2> QED
    BY <1>5, <2>1 DEF Joined
<1>8. f[n] = g[n]
  BY <1>1, <1>3, <1>4, <1>5, <1>6, ReplaysAgree
<1>9. g[n + 1] = ReplayEntry(g[n], e)
  <2>1. n + 1 \in 0..Len(more) /\ n + 1 # 0 /\ (n + 1) - 1 = n
    BY <1>5
  <2>2. g[n + 1] = IF n + 1 = 0 THEN d ELSE Step(g[(n + 1) - 1], more, n + 1)
    BY <1>3, <2>1 DEF Replays
  <2> QED
    BY <1>5, <1>7, <2>1, <2>2 DEF Step
<1> QED
  BY <1>1, <1>2, <1>3, <1>4, <1>5, <1>8, <1>9

-----------------------------------------------------------------------------
(***************************************************************************)
(* The commands that are carried out and the entries that are written name *)
(* an operation.                                                           *)
(***************************************************************************)
Writes == {c \in Commands : c.op # None}
(***************************************************************************)
(* Entries of the log that name an operation.                              *)
(***************************************************************************)
Lines == {e \in Entries : e.cmd.op # None}

(***************************************************************************)
(* The types, with the two facts about commands that keep the store a      *)
(* store, and a stopped process that holds nothing and has lost what was   *)
(* not synced.                                                             *)
(***************************************************************************)
Running ==
  /\ TypeOK
  /\ aof \in Seq(Lines)
  /\ \A c \in Clients : pc[c] # "idle" => cmd[c] \in Writes
  /\ ~up => persistMu = None /\ synced = Len(aof) /\ \A c \in Clients : pc[c] = "idle"

(***************************************************************************)
(* While a snapshot is taken that nothing disturbs, the dump and then the  *)
(* snapshot file are the store, and whoever writes without the lock waits. *)
(***************************************************************************)
Undisturbed ==
  saving # "idle" /\ calm =>
    /\ saving = "dumped" => tmp = db
    /\ saving = "renamed" => snap = db
    /\ \A c \in HttpClients \cup BlockClients : pc[c] = "idle"

(***************************************************************************)
(* No HTTP write and no blocking pop is under way.                         *)
(***************************************************************************)
OthersIdle == \A c \in HttpClients \cup BlockClients : pc[c] = "idle"

(***************************************************************************)
(* The files recover store d, unless replay misreads an entry.             *)
(***************************************************************************)
Recovers(d) == Exact(aof) => Recovered = d

(***************************************************************************)
(* How the files relate to the store at every point of a write and of a    *)
(* snapshot.                                                               *)
(***************************************************************************)
FilesMatch ==
  /\ up /\ persistMu = None => Recovers(db)
  /\ saving = "dumped" => tmp = db /\ Recovers(db)
  /\ saving = "renamed" => snap = db
  /\ \A c \in RespClients :
       /\ pc[c] \in {"idle", "appended", "applied"}
       /\ pc[c] = "appended" => /\ cmd[c].op \in {"SET", "INCR", "LPUSH", "LPOP"}
                                /\ Recovers(Apply(db, cmd[c]))
       /\ pc[c] = "applied" => /\ cmd[c].op = "SETNX"
                               /\ db.num = cmd[c].arg
                               /\ Recovers([db EXCEPT !.num = 0])

(***************************************************************************)
(* With an fsync for every entry the log without its unsynced last line    *)
(* still replays to the store, that line is the one of the command under   *)
(* way, and what is left by a crash is what the clients may find.          *)
(***************************************************************************)
SyncedMatch ==
  /\ (\A c \in RespClients : pc[c] # "appended") => synced = Len(aof)
  /\ \A c \in RespClients : pc[c] = "appended" =>
       /\ Len(aof) > 0 /\ synced = Len(aof) - 1
       /\ aof[Len(aof)].form = "good"
       /\ Exact(Front(aof)) => ReplayAOF(snap, Front(aof)) = db
  /\ ~up /\ ~split /\ Exact(aof) => Recovered \in allowed

(***************************************************************************)
(* What holds of the files until an HTTP write, a BLPOP or a FLUSHDB parts *)
(* them from the store, and again once a restart or a snapshot that nobody *)
(* disturbed has brought the two together.                                 *)
(***************************************************************************)
FilesKept == ~strayed => FilesMatch /\ OthersIdle

SyncedKept == ~strayed => SyncedMatch

-----------------------------------------------------------------------------
(***************************************************************************)
(* The operations a command can name.                                      *)
(***************************************************************************)
LEMMA WriteOps ==
  ASSUME NEW c \in Writes
  PROVE  /\ c.op \in {"SET", "SETABS", "SETNX", "INCR", "LPUSH", "LPOP", "FLUSHDB"}
         /\ c.arg \in Int /\ c = [op |-> c.op, arg |-> c.arg, val |-> c.val]
BY PersistenceAssumption DEF Writes, Commands, None

(***************************************************************************)
(* The fields of a store, and how its edits look.                          *)
(***************************************************************************)
LEMMA StoreEdits ==
  ASSUME NEW d \in Stores
  PROVE  /\ d = [num |-> d.num, list |-> d.list]
         /\ d.num \in Int /\ d.list \in Seq(Int)
         /\ \A n \in Int : [d EXCEPT !.num = n] \in Stores
         /\ \A l \in Seq(Int) : [d EXCEPT !.list = l] \in Stores
BY DEF Stores

(***************************************************************************)
(* A command leaves a store.                                               *)
(***************************************************************************)
LEMMA ApplyStore ==
  ASSUME NEW d \in Stores, NEW c \in Writes
  PROVE  Apply(d, c) \in Stores
<1>1. c.op \in {"SET", "SETABS", "SETNX", "INCR", "LPUSH", "LPOP", "FLUSHDB"} /\ c.arg \in Int
  BY WriteOps
<1>2. d.num \in Int /\ d.list \in Seq(Int)
  BY StoreEdits
<1>3. CASE c.op \in {"SET", "SETABS"}
  <2>1. Apply(d, c) = [d EXCEPT !.num = c.arg]
    BY <1>3 DEF Apply
  <2> QED
    BY <1>1, <2>1, StoreEdits
<1>4. CASE c.op = "SETNX"
  <2>1. Apply(d, c) = IF d.num = 0 THEN [d EXCEPT !.num = c.arg] ELSE d
    BY <1>4 DEF Apply
  <2> QED
    BY <1>1, <2>1, StoreEdits
<1>5. CASE c.op = "INCR"
  <2>1. Apply(d, c) = [d EXCEPT !.num = d.num + 1]
    BY <1>5 DEF Apply
  <2>2. d.num + 1 \in Int
    BY <1>2
  <2> QED
    BY <2>1, <2>2, StoreEdits
<1>6. CASE c.op = "LPUSH"
  <2>1. Apply(d, c) = [d EXCEPT !.list = <<c.arg>> \o d.list]
    BY <1>6 DEF Apply
  <2>2. <<c.arg>> \o d.list \in Seq(Int)
    BY <1>1, <1>2
  <2> QED
    BY <2>1, <2>2, StoreEdits
<1>7. CASE c.op = "LPOP"
  <2>1. Apply(d, c) = IF d.list = <<>> THEN d ELSE [d EXCEPT !.list = Tail(d.list)]
    BY <1>7 DEF Apply
  <2>2. d.list # <<>> => Tail(d.list) \in Seq(Int)
    BY <1>2
  <2> QED
    BY <2>1, <2>2, StoreEdits
<1>8. CASE c.op = "FLUSHDB"
  <2>1. Apply(d, c) = Empty
    BY <1>8 DEF Apply
  <2> QED
    BY <2>1 DEF Empty, Stores
<1> QED
  BY <1>1, <1>3, <1>4, <1>5, <1>6, <1>7, <1>8

(***************************************************************************)
(* So does the replay of an entry.                                         *)
(***************************************************************************)
LEMMA ReplayEntryStore ==
  ASSUME NEW d \in Stores, NEW e \in Lines
  PROVE  ReplayEntry(d, e) \in Stores
<1>1. e.cmd \in Writes
  BY DEF Lines, Entries, Writes
<1>2. e.cmd.arg \in Int /\ Garbled \in Int
  BY <1>1, WriteOps, PersistenceAssumption DEF Garbled
<1>3. PICK arg \in Int : arg = IF e.form = "cut" \/ e.cmd.val = "escape" THEN Garbled ELSE e.cmd.arg
  BY <1>2
<1>4. PICK w : w = [e.cmd EXCEPT !.arg = arg]
  OBVIOUS
<1>5. w \in Writes
  BY <1>1, <1>3, <1>4 DEF Writes, Commands
<1>6. PICK l : l = <<Garbled, arg>> \o d.list
  OBVIOUS
<1>7. l \in Seq(Int)
  BY <1>2, <1>3, <1>6, StoreEdits
<1>8. ReplayEntry(d, e) \in {d, [d EXCEPT !.num = arg], [d EXCEPT !.list = l], Apply(d, w)}
  BY <1>3, <1>4, <1>6 DEF ReplayEntry
<1> QED
  BY <1>3, <1>5, <1>7, <1>8, ApplyStore, StoreEdits

(***************************************************************************)
(* And the replay of a log.                                                *)
(***************************************************************************)
LEMMA ReplayStore ==
  ASSUME NEW d \in Stores, NEW log \in Seq(Lines)
  PROVE  ReplayAOF(d, log) \in Stores
<1>1. PICK f : Replays(f, d, log) /\ ReplayAOF(d, log) = f[Len(log)]
  BY ReplayDefined
<1>2. PICK n \in Nat : n = Len(log)
  OBVIOUS
<1>3. \A i \in 0..n : f[i] = IF i = 0 THEN d ELSE Step(f[i - 1], log, i)
  BY <1>1, <1>2 DEF Replays
<1> DEFINE S == {i \in 0..n : f[i] \in Stores}
<1>4. 0 \in S
  BY <1>3
<1>5. ASSUME NEW i \in 0..(n - 1), i \in S PROVE i + 1 \in S
  <2>1. i + 1 \in 0..n /\ i + 1 # 0 /\ (i + 1) - 1 = i /\ i + 1 \in 1..Len(log)
    BY <1>2
  <2>2. f[i + 1] = Step(f[i], log, i + 1)
    BY <1>3, <2>1
  <2>3. log[i + 1] \in Lines /\ f[i] \in Stores
    BY <1>5, <2>1
  <2> QED
    BY <2>1, <2>2, <2>3, ReplayEntryStore DEF Step
<1> HIDE DEF S
<1>6. \A i \in 0..(n - 1) : i \in S => i + 1 \in S
  BY <1>5
<1>7. \A i \in 0..n : i \in S
  BY <1>4, <1>6, CountUp
<1>8. n \in S
  BY <1>7
<1> QED
  BY <1>1, <1>2, <1>8 DEF S

(***************************************************************************)
(* What RESP handlers log names an operation too.                          *)
(***************************************************************************)
LEMMA LogFormWrite ==
  ASSUME NEW c \in Writes
  PROVE  LogForm(c) \in Writes
BY DEF LogForm, Writes, Commands, None

(***************************************************************************)
(* The line Append writes for a command.                                   *)
(***************************************************************************)
Line(c) == [cmd |-> c, form |-> "good", ended |-> TRUE]

(***************************************************************************)
(* Append keeps a log and makes it longer by one line.                     *)
(***************************************************************************)
LEMMA AppendedLog ==
  ASSUME NEW log \in Seq(Lines), NEW c \in Writes
  PROVE  /\ Appended(log, c) \in Seq(Lines)
         /\ Len(log) <= Len(Appended(log, c))
         /\ Line(c) \in Lines /\ Appended(log, c) = Append(log, Line(c))
<1>1. PICK e : e = Line(c)
  OBVIOUS
<1>2. e \in Lines
  BY <1>1 DEF Line, Lines, Entries, Writes
<1>3. Append(log, e) \in Seq(Lines) /\ Len(log) <= Len(Append(log, e))
  BY <1>2
<1>4. Appended(log, c) = Append(log, e)
  BY <1>1 DEF Appended, Line
<1> QED
  BY <1>1, <1>2, <1>3, <1>4

(***************************************************************************)
(* What a crash leaves of a line.                                          *)
(***************************************************************************)
LEMMA RemainsLine ==
  ASSUME NEW e \in Lines, NEW f \in Remains(e)
  PROVE  /\ f \in Lines
         /\ f.form \in {"cut", "extra", "torn"} \/ (f.form = e.form /\ f.cmd = e.cmd)
<1>1. "plain" \in Values
  BY PersistenceAssumption
<1>2. /\ e = [cmd |-> e.cmd, form |-> e.form, ended |-> e.ended] /\ e.cmd \in Commands
      /\ e.cmd.op # None /\ e.form \in {"good", "cut", "extra", "torn"}
  BY DEF Lines, Entries
<1>3. PICK c : c = [e.cmd EXCEPT !.val = "plain"]
  OBVIOUS
<1>4. c \in Commands /\ c.op = e.cmd.op
  BY <1>1, <1>2, <1>3 DEF Commands
<1>5. f \in {[cmd |-> e.cmd, form |-> e.form, ended |-> FALSE],
             [cmd |-> c, form |-> "torn", ended |-> FALSE],
             [cmd |-> c, form |-> "cut", ended |-> FALSE],
             [cmd |-> e.cmd, form |-> "extra", ended |-> FALSE]}
  BY <1>2, <1>3 DEF Remains
<1>6. \A x \in Commands : \A y \in {"good", "cut", "extra", "torn"} :
        x.op # None => [cmd |-> x, form |-> y, ended |-> FALSE] \in Lines
  BY DEF Lines, Entries
<1>7. f \in Lines
  BY <1>2, <1>4, <1>5, <1>6
<1> QED
  BY <1>5, <1>7

(***************************************************************************)
(* Every log a crash can leave is a log.                                   *)
(***************************************************************************)
LEMMA CrashLogs ==
  ASSUME aof \in Seq(Lines), synced \in 0..Len(aof), NEW log \in LogsAfterCrash
  PROVE  log \in Seq(Lines)
<1>1. \A n \in synced..Len(aof) : SubSeq(aof, 1, n) \in Seq(Lines) /\ Len(SubSeq(aof, 1, n)) = n
  <2> SUFFICES ASSUME NEW n \in synced..Len(aof)
               PROVE  SubSeq(aof, 1, n) \in Seq(Lines) /\ Len(SubSeq(aof, 1, n)) = n
    OBVIOUS
  <2>1. n \in Nat /\ n <= Len(aof) /\ \A i \in 1..n : aof[i] \in Lines
    OBVIOUS
  <2> QED
    BY <2>1
<1>2. ASSUME NEW n \in synced..Len(aof), NEW l, l = SubSeq(aof, 1, n), Len(l) > synced,
             NEW e \in Remains(Last(l))
      PROVE  Append(Front(l), e) \in Seq(Lines)
  <2>1. l \in Seq(Lines) /\ Len(l) \in Nat /\ Len(l) > 0
    BY <1>1, <1>2
  <2>2. Last(l) \in Lines
    BY <2>1 DEF Last
  <2>3. Front(l) \in Seq(Lines)
    <3>1. Len(l) - 1 \in Nat /\ Len(l) - 1 <= Len(l) /\ \A i \in 1..(Len(l) - 1) : l[i] \in Lines
      BY <2>1
    <3> QED
      BY <2>1, <3>1 DEF Front
  <2>4. e \in Lines
    BY <1>2, <2>2, RemainsLine
  <2> QED
    BY <2>3, <2>4
<1>3. CASE \E n \in synced..Len(aof) : log = SubSeq(aof, 1, n)
  BY <1>1, <1>3
<1>4. CASE \E n \in synced..Len(aof) : \E l : /\ l = SubSeq(aof, 1, n) /\ Len(l) > synced
                                              /\ \E e \in Remains(Last(l)) : log = Append(Front(l), e)
  BY <1>2, <1>4
<1> QED
  BY <1>3, <1>4 DEF LogsAfterCrash

(***************************************************************************)
(* What it takes to start a command.                                       *)
(***************************************************************************)
LEMMA StartFacts ==
  ASSUME Running, NEW c \in Clients, NEW op \in RespOps \cup HttpOps \cup {"LPOP"}, Start(c, op)
  PROVE  /\ up /\ pc[c] = "idle" /\ cmds' \in 0..MaxCmds
         /\ cmd' \in [Clients -> Commands] /\ cmd'[c] \in Writes
         /\ cmd'[c].op = op /\ cmd'[c].arg = cmds + 1
         /\ \A x \in Clients : x # c => cmd'[x] = cmd[x]
<1>1. cmd \in [Clients -> Commands] /\ cmds \in Nat /\ cmds < MaxCmds /\ MaxCmds \in Nat
  BY PersistenceAssumption DEF Running, TypeOK, Start
<1>2. PICK v \in ValuesOf(op) : cmd' = [cmd EXCEPT ![c] = [op |-> op, arg |-> cmds + 1, val |-> v]]
  BY DEF Start
<1>3. v \in Values
  BY PersistenceAssumption DEF ValuesOf
<1>4. PICK w : w = [op |-> op, arg |-> cmds + 1, val |-> v]
  OBVIOUS
<1>5. w \in Writes /\ w \in Commands
  BY <1>1, <1>3, <1>4, PersistenceAssumption DEF Writes, Commands, None
<1>6. cmd' = [cmd EXCEPT ![c] = w]
  BY <1>2, <1>4
<1> QED
  BY <1>1, <1>5, <1>6, <1>4 DEF Start

(***************************************************************************)
(* How much of the log may be synced after Append.                         *)
(***************************************************************************)
LEMMA SyncedRange ==
  ASSUME NEW log, Len(log) \in Nat, synced \in 0..Len(log), NEW n \in SyncedAfter(log)
  PROVE  n \in 0..Len(log)
BY DEF SyncedAfter

(***************************************************************************)
(* The steps of RESP clients keep the types.                               *)
(***************************************************************************)
LEMMA RespRunning ==
  ASSUME Running, NEW c \in RespClients,
         \/ \E op \in RespOps : RespLogs(c, op)
         \/ RespApplies(c) \/ RespAppliesFirst(c) \/ RespLogsAfter(c) \/ RespFlushes(c)
  PROVE  Running'
<1>1. c \in Clients /\ c # None /\ c # Saver
  BY PersistenceAssumption DEF Clients, None, Saver
<1>2. /\ db \in Stores /\ snap \in Stores /\ tmp \in Stores
      /\ aof \in Seq(Lines) /\ aof \in Seq(Entries) /\ synced \in 0..Len(aof) /\ Len(aof) \in Nat
      /\ pc \in [Clients -> {"idle", "appended", "applied", "logged", "popped"}]
      /\ cmd \in [Clients -> Commands]
      /\ \A x \in RespClients : pc[x] # "idle" <=> persistMu = x
      /\ \A x \in Clients : pc[x] # "idle" => cmd[x] \in Writes
      /\ RespClients \subseteq Clients
  BY DEF Running, TypeOK, Clients
<1>3. Seq(Lines) \subseteq Seq(Entries)
  BY DEF Lines
<1>4. ASSUME NEW op \in RespOps, RespLogs(c, op) PROVE Running'
  <2>1. Start(c, op) /\ op \in RespOps \cup HttpOps \cup {"LPOP"}
    BY <1>4 DEF RespLogs
  <2>2. /\ up /\ pc[c] = "idle" /\ cmds' \in 0..MaxCmds
        /\ cmd' \in [Clients -> Commands] /\ cmd'[c] \in Writes
        /\ \A x \in Clients : x # c => cmd'[x] = cmd[x]
    BY <1>1, <2>1, StartFacts
  <2>3. PICK w : w = LogForm(cmd'[c])
    OBVIOUS
  <2>4. w \in Writes
    BY <2>2, <2>3, LogFormWrite
  <2>5. aof' \in Seq(Lines) /\ Len(aof) <= Len(aof') /\ Len(aof') \in Nat
    <3>1. aof' = Appended(aof, w)
      BY <1>4, <2>3 DEF RespLogs
    <3>2. Appended(aof, w) \in Seq(Lines) /\ Len(aof) <= Len(Appended(aof, w))
      BY <1>2, <2>4, AppendedLog
    <3> QED
      BY <3>1, <3>2
  <2>6. synced' \in 0..Len(aof')
    BY <1>2, <1>4, <2>5 DEF RespLogs
  <2>7. pc' = [pc EXCEPT ![c] = "appended"] /\ persistMu = None /\ persistMu' = c
    BY <1>4 DEF RespLogs
  <2>8. \A x \in RespClients : pc'[x] # "idle" <=> persistMu' = x
    BY <1>1, <1>2, <2>7, PersistenceAssumption DEF None
  <2>9. saving' = "idle" /\ saving = "idle"
    BY <1>4, <2>7 DEF Running, TypeOK, RespLogs, Saver, None
  <2>10. \A x \in Clients : pc'[x] # "idle" => cmd'[x] \in Writes
    BY <1>2, <2>2, <2>7
  <2>11. TypeOK'
    BY <1>1, <1>2, <1>3, <1>4, <2>2, <2>5, <2>6, <2>7, <2>8, <2>9
    DEF Running, TypeOK, RespLogs
  <2> QED
    BY <1>4, <2>2, <2>5, <2>10, <2>11 DEF Running, RespLogs
<1>5. CASE RespApplies(c)
  <2>1. up /\ pc[c] = "appended" /\ persistMu = c /\ persistMu' = None /\ aof' = aof
        /\ pc' = [pc EXCEPT ![c] = "idle"] /\ db' = Apply(db, cmd[c]) /\ cmd' = cmd
    BY <1>2, <1>5 DEF RespApplies
  <2>2. db' \in Stores
    BY <1>1, <1>2, <2>1, ApplyStore
  <2>3. synced' \in 0..Len(aof')
    BY <1>2, <1>5, <2>1, SyncedRange DEF RespApplies
  <2>4. \A x \in RespClients : pc'[x] # "idle" <=> persistMu' = x
    BY <1>1, <1>2, <2>1, PersistenceAssumption DEF None
  <2>5. saving' = "idle" /\ saving = "idle"
    BY <1>1, <1>5, <2>1 DEF Running, TypeOK, RespApplies
  <2>6. TypeOK'
    BY <1>1, <1>2, <1>5, <2>1, <2>2, <2>3, <2>4, <2>5
    DEF Running, TypeOK, RespApplies, None, Saver
  <2>7. \A x \in Clients : pc'[x] # "idle" => cmd'[x] \in Writes
    BY <1>2, <2>1
  <2> QED
    BY <1>2, <1>5, <2>1, <2>6, <2>7 DEF Running, RespApplies
<1>6. CASE RespAppliesFirst(c)
  <2>1. Start(c, "SETNX") /\ "SETNX" \in RespOps \cup HttpOps \cup {"LPOP"}
    BY <1>6 DEF RespAppliesFirst
  <2>2. /\ up /\ pc[c] = "idle" /\ cmds' \in 0..MaxCmds
        /\ cmd' \in [Clients -> Commands] /\ cmd'[c] \in Writes
        /\ \A x \in Clients : x # c => cmd'[x] = cmd[x]
    BY <1>1, <2>1, StartFacts
  <2>3. saving' = "idle" /\ saving = "idle" /\ persistMu = None
    BY <1>6 DEF Running, TypeOK, RespAppliesFirst, Saver, None
  <2>4. /\ pc' \in [Clients -> {"idle", "appended", "applied", "logged", "popped"}]
        /\ \A x \in RespClients : pc'[x] # "idle" <=> persistMu' = x
        /\ \A x \in Clients : x # c => pc'[x] = pc[x]
        /\ persistMu' \in {None, c}
    BY <1>1, <1>2, <1>6, <2>2, <2>3, PersistenceAssumption DEF RespAppliesFirst, None
  <2>5. PICK w : w = cmd'[c]
    OBVIOUS
  <2>6. db' \in Stores
    BY <1>2, <1>6, <2>2, <2>5, ApplyStore DEF RespAppliesFirst
  <2>7. \A x \in Clients : pc'[x] # "idle" => cmd'[x] \in Writes
    BY <1>2, <2>2, <2>4
  <2>8. TypeOK'
    BY <1>1, <1>2, <1>6, <2>2, <2>3, <2>4, <2>6 DEF Running, TypeOK, RespAppliesFirst, None, Saver
  <2> QED
    BY <1>2, <1>6, <2>2, <2>7, <2>8 DEF Running, RespAppliesFirst
<1>7. CASE RespLogsAfter(c)
  <2>1. up /\ pc[c] = "applied" /\ persistMu = c /\ persistMu' = None
        /\ pc' = [pc EXCEPT ![c] = "idle"] /\ cmd' = cmd
    BY <1>2, <1>7 DEF RespLogsAfter
  <2>2. PICK w : w = LogForm(cmd[c])
    OBVIOUS
  <2>3. w \in Writes
    BY <1>1, <1>2, <2>1, <2>2, LogFormWrite
  <2>4. aof' \in Seq(Lines) /\ Len(aof) <= Len(aof') /\ Len(aof') \in Nat
    <3>1. aof' = Appended(aof, w)
      BY <1>7, <2>2 DEF RespLogsAfter, AppendAndSync
    <3>2. Appended(aof, w) \in Seq(Lines) /\ Len(aof) <= Len(Appended(aof, w))
      BY <1>2, <2>3, AppendedLog
    <3> QED
      BY <3>1, <3>2
  <2>5. synced' \in 0..Len(aof')
    BY <1>2, <1>7, <2>4, SyncedRange DEF RespLogsAfter, AppendAndSync
  <2>6. \A x \in RespClients : pc'[x] # "idle" <=> persistMu' = x
    BY <1>1, <1>2, <2>1, PersistenceAssumption DEF None
  <2>7. saving' = "idle" /\ saving = "idle"
    BY <1>1, <1>7, <2>1 DEF Running, TypeOK, RespLogsAfter
  <2>8. TypeOK'
    BY <1>1, <1>2, <1>3, <1>7, <2>1, <2>4, <2>5, <2>6, <2>7
    DEF Running, TypeOK, RespLogsAfter, None, Saver
  <2>9. \A x \in Clients : pc'[x] # "idle" => cmd'[x] \in Writes
    BY <1>2, <2>1
  <2> QED
    BY <1>7, <2>1, <2>4, <2>8, <2>9 DEF Running, RespLogsAfter
<1>8. CASE RespFlushes(c)
  <2>1. Start(c, "FLUSHDB") /\ "FLUSHDB" \in RespOps \cup HttpOps \cup {"LPOP"}
    BY <1>8 DEF RespFlushes
  <2>2. /\ up /\ pc[c] = "idle" /\ cmds' \in 0..MaxCmds
        /\ cmd' \in [Clients -> Commands] /\ cmd'[c] \in Writes
        /\ \A x \in Clients : x # c => cmd'[x] = cmd[x]
    BY <1>1, <2>1, StartFacts
  <2>3. aof' \in Seq(Lines) /\ aof' \in Seq(Entries) /\ synced' \in 0..Len(aof') /\ db' \in Stores
    BY <1>8 DEF RespFlushes, Empty, Stores
  <2>4. TypeOK'
    BY <1>2, <1>8, <2>2, <2>3 DEF Running, TypeOK, RespFlushes
  <2>5. \A x \in Clients : pc'[x] # "idle" => cmd'[x] \in Writes
    BY <1>2, <1>8, <2>2 DEF RespFlushes
  <2> QED
    BY <1>8, <2>2, <2>3, <2>4, <2>5 DEF Running, RespFlushes
<1> QED
  BY <1>4, <1>5, <1>6, <1>7, <1>8

(***************************************************************************)
(* The steps of HTTP clients and of blocking pops keep the types.          *)
(***************************************************************************)
LEMMA OthersRunning ==
  ASSUME Running, NEW c \in HttpClients \cup BlockClients,
         \/ \E op \in HttpOps : persistWrite(c, op)
         \/ HttpApplies(c) \/ BlpopTakes(c) \/ BlpopLogs(c)
  PROVE  Running'
<1>1. c \in Clients /\ c \notin RespClients
  BY PersistenceAssumption DEF Clients
<1>2. /\ db \in Stores /\ snap \in Stores /\ tmp \in Stores
      /\ aof \in Seq(Lines) /\ aof \in Seq(Entries) /\ synced \in 0..Len(aof) /\ Len(aof) \in Nat
      /\ pc \in [Clients -> {"idle", "appended", "applied", "logged", "popped"}]
      /\ cmd \in [Clients -> Commands]
      /\ \A x \in RespClients : pc[x] # "idle" <=> persistMu = x
      /\ \A x \in Clients : pc[x] # "idle" => cmd[x] \in Writes
      /\ RespClients \subseteq Clients
  BY DEF Running, TypeOK, Clients
<1>3. Seq(Lines) \subseteq Seq(Entries)
  BY DEF Lines
<1>4. ASSUME NEW op \in HttpOps, persistWrite(c, op) PROVE Running'
  <2>1. Start(c, op) /\ op \in RespOps \cup HttpOps \cup {"LPOP"}
    BY <1>4 DEF persistWrite
  <2>2. /\ up /\ pc[c] = "idle" /\ cmds' \in 0..MaxCmds
        /\ cmd' \in [Clients -> Commands] /\ cmd'[c] \in Writes
        /\ \A x \in Clients : x # c => cmd'[x] = cmd[x]
    BY <1>1, <2>1, StartFacts
  <2>3. PICK w \in Writes : w = cmd'[c]
    BY <2>2
  <2>4. aof' = Appended(aof, w) /\ synced' \in SyncedAfter(aof')
    BY <1>4, <2>3 DEF persistWrite, AppendAndSync
  <2>5. Appended(aof, w) \in Seq(Lines) /\ Len(aof) <= Len(Appended(aof, w))
    BY <1>2, AppendedLog
  <2>6. aof' \in Seq(Lines) /\ Len(aof) <= Len(aof') /\ Len(aof') \in Nat
    BY <2>4, <2>5
  <2>7. synced' \in 0..Len(aof')
    BY <1>2, <2>4, <2>6, SyncedRange
  <2>8. pc' = [pc EXCEPT ![c] = "logged"] /\ persistMu' = persistMu
    BY <1>4 DEF persistWrite
  <2>9. \A x \in RespClients : pc'[x] # "idle" <=> persistMu' = x
    BY <1>1, <1>2, <2>8
  <2>10. TypeOK'
    BY <1>1, <1>2, <1>3, <1>4, <2>2, <2>6, <2>7, <2>8, <2>9 DEF Running, TypeOK, persistWrite
  <2>11. \A x \in Clients : pc'[x] # "idle" => cmd'[x] \in Writes
    BY <1>2, <2>2, <2>8
  <2> QED
    BY <1>4, <2>2, <2>6, <2>10, <2>11 DEF Running, persistWrite
<1>5. CASE HttpApplies(c)
  <2>1. up /\ pc[c] = "logged" /\ persistMu' = persistMu /\ aof' = aof
        /\ pc' = [pc EXCEPT ![c] = "idle"] /\ db' = Apply(db, cmd[c]) /\ cmd' = cmd
    BY <1>5 DEF HttpApplies
  <2>2. db' \in Stores
    BY <1>1, <1>2, <2>1, ApplyStore
  <2>3. \A x \in RespClients : pc'[x] # "idle" <=> persistMu' = x
    BY <1>1, <1>2, <2>1
  <2>4. TypeOK'
    BY <1>1, <1>2, <1>5, <2>1, <2>2, <2>3 DEF Running, TypeOK, HttpApplies
  <2>5. \A x \in Clients : pc'[x] # "idle" => cmd'[x] \in Writes
    BY <1>2, <2>1
  <2> QED
    BY <1>2, <1>5, <2>1, <2>4, <2>5 DEF Running, HttpApplies
<1>6. CASE BlpopTakes(c)
  <2>1. Start(c, "LPOP") /\ "LPOP" \in RespOps \cup HttpOps \cup {"LPOP"}
    BY <1>6 DEF BlpopTakes
  <2>2. /\ up /\ pc[c] = "idle" /\ cmds' \in 0..MaxCmds
        /\ cmd' \in [Clients -> Commands] /\ cmd'[c] \in Writes
        /\ \A x \in Clients : x # c => cmd'[x] = cmd[x]
    BY <1>1, <2>1, StartFacts
  <2>3. PICK w \in Writes : w = cmd'[c]
    BY <2>2
  <2>4. db' \in Stores
    BY <1>2, <1>6, <2>3, ApplyStore DEF BlpopTakes
  <2>5. pc' = [pc EXCEPT ![c] = "popped"] /\ persistMu' = persistMu
    BY <1>6 DEF BlpopTakes
  <2>6. \A x \in RespClients : pc'[x] # "idle" <=> persistMu' = x
    BY <1>1, <1>2, <2>5
  <2>7. TypeOK'
    BY <1>1, <1>2, <1>6, <2>2, <2>4, <2>5, <2>6 DEF Running, TypeOK, BlpopTakes
  <2>8. \A x \in Clients : pc'[x] # "idle" => cmd'[x] \in Writes
    BY <1>2, <2>2, <2>5
  <2> QED
    BY <1>2, <1>6, <2>2, <2>7, <2>8 DEF Running, BlpopTakes
<1>7. CASE BlpopLogs(c)
  <2>1. up /\ pc[c] = "popped" /\ persistMu' = persistMu
        /\ pc' = [pc EXCEPT ![c] = "idle"] /\ cmd' = cmd
    BY <1>7 DEF BlpopLogs
  <2>2. PICK w \in Writes : w = cmd[c]
    BY <1>1, <1>2, <2>1
  <2>3. aof' = Appended(aof, w) /\ synced' \in SyncedAfter(aof')
    BY <1>7, <2>2 DEF BlpopLogs, AppendAndSync
  <2>4. Appended(aof, w) \in Seq(Lines) /\ Len(aof) <= Len(Appended(aof, w))
    BY <1>2, AppendedLog
  <2>5. aof' \in Seq(Lines) /\ Len(aof) <= Len(aof') /\ Len(aof') \in Nat
    BY <2>3, <2>4
  <2>6. synced' \in 0..Len(aof')
    BY <1>2, <2>3, <2>5, SyncedRange
  <2>7. \A x \in RespClients : pc'[x] # "idle" <=> persistMu' = x
    BY <1>1, <1>2, <2>1
  <2>8. TypeOK'
    BY <1>1, <1>2, <1>3, <1>7, <2>1, <2>5, <2>6, <2>7 DEF Running, TypeOK, BlpopLogs
  <2>9. \A x \in Clients : pc'[x] # "idle" => cmd'[x] \in Writes
    BY <1>2, <2>1
  <2> QED
    BY <1>7, <2>1, <2>5, <2>8, <2>9 DEF Running, BlpopLogs
<1> QED
  BY <1>4, <1>5, <1>6, <1>7

(***************************************************************************)
(* A snapshot, a crash and a restart keep the types.                       *)
(***************************************************************************)
LEMMA SystemRunning ==
  ASSUME Running, SaveDump \/ SaveRename \/ SaveReset \/ Crash \/ Restart
  PROVE  Running'
<1>1. /\ db \in Stores /\ snap \in Stores /\ tmp \in Stores
      /\ aof \in Seq(Lines) /\ aof \in Seq(Entries) /\ synced \in 0..Len(aof) /\ Len(aof) \in Nat
      /\ pc \in [Clients -> {"idle", "appended", "applied", "logged", "popped"}]
      /\ cmd \in [Clients -> Commands]
      /\ \A x \in RespClients : pc[x] # "idle" <=> persistMu = x
      /\ \A x \in RespClients : x # None /\ x # Saver
      /\ RespClients \subseteq Clients
      /\ saving # "idle" <=> persistMu = Saver
  BY PersistenceAssumption DEF Running, TypeOK, Clients, None, Saver
<1>2. Seq(Lines) \subseteq Seq(Entries)
  BY DEF Lines
<1>3. CASE SaveDump
  <2>1. TypeOK'
    BY <1>1, <1>3 DEF Running, TypeOK, SaveDump, None, Saver
  <2> QED
    BY <1>3, <2>1 DEF Running, SaveDump
<1>4. CASE SaveRename
  <2>1. TypeOK'
    BY <1>1, <1>4 DEF Running, TypeOK, SaveRename
  <2> QED
    BY <1>4, <2>1 DEF Running, SaveRename
<1>5. CASE SaveReset
  <2>1. aof' \in Seq(Lines) /\ aof' \in Seq(Entries) /\ synced' \in 0..Len(aof')
    BY <1>5 DEF SaveReset
  <2>2. TypeOK'
    BY <1>1, <1>5, <2>1 DEF Running, TypeOK, SaveReset, None, Saver
  <2> QED
    BY <1>5, <2>1, <2>2 DEF Running, SaveReset
<1>6. CASE Crash
  <2>1. PICK log \in LogsAfterCrash : aof' = log /\ synced' = Len(log)
    BY <1>6 DEF Crash
  <2>2. log \in Seq(Lines)
    BY <1>1, CrashLogs
  <2>3. aof' \in Seq(Lines) /\ aof' \in Seq(Entries) /\ synced' \in 0..Len(aof') /\ synced' = Len(aof')
    BY <1>2, <2>1, <2>2
  <2>4. db' \in Stores
    BY <1>6 DEF Crash, Empty, Stores
  <2>5. crashes' \in 0..MaxCrashes
    BY <1>6, PersistenceAssumption DEF Crash, Running, TypeOK
  <2>6. pc' = [x \in Clients |-> "idle"] /\ cmd' = [x \in Clients |-> NoCmd] /\ NoCmd \in Commands
    BY <1>6, PersistenceAssumption DEF Crash, NoCmd, Commands
  <2>7. persistMu' = None /\ saving' = "idle" /\ up' = FALSE /\ split' \in BOOLEAN
        /\ snap' = snap /\ tmp' = tmp /\ cmds' = cmds /\ calm' = calm /\ strayed' = strayed
    BY <1>6 DEF Crash
  <2>8. TypeOK'
    BY <1>1, <2>3, <2>4, <2>5, <2>6, <2>7 DEF Running, TypeOK, None, Saver
  <2> QED
    BY <2>3, <2>6, <2>7, <2>8 DEF Running
<1>7. CASE Restart
  <2>1. Recovered \in Stores
    BY <1>1, ReplayStore DEF Recovered
  <2>2. TypeOK'
    BY <1>1, <1>7, <2>1 DEF Running, TypeOK, Restart
  <2> QED
    BY <1>7, <2>2 DEF Running, Restart
<1> QED
  BY <1>3, <1>4, <1>5, <1>6, <1>7

(***************************************************************************)
(* Every step keeps the types.                                             *)
(***************************************************************************)
LEMMA NextRunning ==
  ASSUME Running, [Next]_vars
  PROVE  Running'
<1>1. CASE Next
  <2>1. CASE \E c \in RespClients :
               \/ \E op \in RespOps : RespLogs(c, op)
               \/ RespApplies(c) \/ RespAppliesFirst(c) \/ RespLogsAfter(c) \/ RespFlushes(c)
    BY <2>1, RespRunning
  <2>2. CASE \E c \in HttpClients \cup BlockClients :
               \/ \E op \in HttpOps : persistWrite(c, op)
               \/ HttpApplies(c) \/ BlpopTakes(c) \/ BlpopLogs(c)
    BY <2>2, OthersRunning
  <2>3. CASE SaveDump \/ SaveRename \/ SaveReset \/ Crash \/ Restart
    BY <2>3, SystemRunning
  <2> QED
    BY <1>1, <2>1, <2>2, <2>3 DEF Next
<1>2. CASE UNCHANGED vars
  BY <1>2 DEF Running, TypeOK, vars
<1> QED
  BY <1>1, <1>2

(***************************************************************************)
(* The types hold at the start.                                            *)
(***************************************************************************)
LEMMA InitRunning ==
  ASSUME Init
  PROVE  Running
<1>1. Empty \in Stores /\ NoCmd \in Commands /\ <<>> \in Seq(Lines) /\ <<>> \in Seq(Entries)
      /\ \A x \in RespClients : x # None
  BY PersistenceAssumption DEF Empty, Stores, NoCmd, Commands, None
<1>2. /\ pc \in [Clients -> {"idle", "appended", "applied", "logged", "popped"}]
      /\ cmd \in [Clients -> Commands]
      /\ \A c \in RespClients : pc[c] # "idle" <=> persistMu = c
  BY <1>1 DEF Init, Clients
<1>3. 0 \in 0..MaxCmds /\ 0 \in 0..MaxCrashes /\ 0 \in 0..Len(<<>>)
  BY PersistenceAssumption
<1>4. TypeOK
  BY <1>1, <1>2, <1>3 DEF Init, TypeOK, None, Saver
<1> QED
  BY <1>1, <1>4 DEF Init, Running

(***************************************************************************)
(* In every configuration, with HTTP writes, blocking pops, flushes and    *)
(* torn lines, the state is well formed: persistMu is held by a RESP       *)
(* client exactly while its command is under way and by the saver exactly  *)
(* while a snapshot is taken, and what replay makes of any log a crash can *)
(* leave is a store.                                                       *)
(***************************************************************************)
THEOREM LockMatchesProgress == Spec => []TypeOK
<1>1. Running /\ [Next]_vars => Running'
  BY NextRunning
<1>2. Init => Running
  BY InitRunning
<1>3. Running => TypeOK
  BY DEF Running
<1> QED
  BY <1>1, <1>2, <1>3, PTL DEF Spec

-----------------------------------------------------------------------------
(***************************************************************************)
(* Every step keeps a calm snapshot undisturbed: commands under persistMu  *)
(* wait for it, and those without the lock end the calm or were waited for.*)
(***************************************************************************)
LEMMA NextUndisturbed ==
  ASSUME Running, Undisturbed, [Next]_vars
  PROVE  Undisturbed'
<1>1. /\ saving # "idle" <=> persistMu = Saver
      /\ \A x \in RespClients : pc[x] # "idle" <=> persistMu = x
      /\ None # Saver /\ \A x \in RespClients : x # Saver
      /\ ~up => persistMu = None
      /\ saving \in {"idle", "dumped", "renamed"}
  BY PersistenceAssumption DEF Running, TypeOK, None, Saver
<1>2. ASSUME NEW c \in RespClients,
             \/ \E op \in RespOps : RespLogs(c, op)
             \/ RespApplies(c) \/ RespAppliesFirst(c) \/ RespLogsAfter(c) \/ RespFlushes(c)
      PROVE  Undisturbed'
  <2>1. persistMu # Saver /\ saving' = saving
    BY <1>1, <1>2 DEF RespLogs, RespApplies, RespAppliesFirst, RespLogsAfter, RespFlushes
  <2> QED
    BY <1>1, <2>1 DEF Undisturbed
<1>3. ASSUME NEW c \in HttpClients \cup BlockClients,
             (\E op \in HttpOps : persistWrite(c, op)) \/ BlpopLogs(c)
      PROVE  Undisturbed'
  <2>1. persistMu # Saver /\ saving' = saving
    BY <1>1, <1>3 DEF persistWrite, BlpopLogs
  <2> QED
    BY <1>1, <2>1 DEF Undisturbed
<1>4. ASSUME NEW c \in HttpClients \cup BlockClients, HttpApplies(c)
      PROVE  Undisturbed'
  <2>1. pc[c] # "idle" /\ saving' = saving /\ calm' = calm
    BY <1>4 DEF HttpApplies
  <2> QED
    BY <2>1 DEF Undisturbed
<1>5. ASSUME NEW c \in HttpClients \cup BlockClients, BlpopTakes(c)
      PROVE  Undisturbed'
  BY <1>5 DEF BlpopTakes, Undisturbed
<1>6. CASE SaveDump
  BY <1>6 DEF SaveDump, Undisturbed
<1>7. CASE SaveRename
  <2>1. saving = "dumped" /\ saving' = "renamed" /\ snap' = tmp /\ db' = db /\ pc' = pc /\ calm' = calm
    BY <1>7 DEF SaveRename
  <2> QED
    BY <2>1 DEF Undisturbed
<1>8. CASE SaveReset \/ Crash
  BY <1>8 DEF SaveReset, Crash, Undisturbed
<1>9. CASE Restart
  <2>1. saving = "idle" /\ saving' = saving
    BY <1>1, <1>9 DEF Restart
  <2> QED
    BY <2>1 DEF Undisturbed
<1>10. CASE UNCHANGED vars
  BY <1>10 DEF vars, Undisturbed
<1> QED
  BY <1>2, <1>3, <1>4, <1>5, <1>6, <1>7, <1>8, <1>9, <1>10 DEF Next

(***************************************************************************)
(* The end of a calm snapshot, in one step.                                *)
(***************************************************************************)
LEMMA EndHeals ==
  ASSUME Running, Undisturbed, [Next]_vars, SaveEnds, calm
  PROVE  Recovered' = db'
<1>1. saving = "renamed" /\ saving' = "idle" /\ up'
  BY DEF SaveEnds
<1>2. SaveReset
  <2>1. saving' # saving
    BY <1>1
  <2>2. ASSUME NEW c \in RespClients
        PROVE  ~(\/ \E op \in RespOps : RespLogs(c, op)
                 \/ RespApplies(c) \/ RespAppliesFirst(c) \/ RespLogsAfter(c) \/ RespFlushes(c))
    BY <2>1 DEF RespLogs, RespApplies, RespAppliesFirst, RespLogsAfter, RespFlushes
  <2>3. ASSUME NEW c \in HttpClients
        PROVE  ~((\E op \in HttpOps : persistWrite(c, op)) \/ HttpApplies(c))
    BY <2>1 DEF persistWrite, HttpApplies
  <2>4. ASSUME NEW c \in BlockClients
        PROVE  ~(BlpopTakes(c) \/ BlpopLogs(c))
    BY <2>1 DEF BlpopTakes, BlpopLogs
  <2>5. ~SaveDump /\ ~SaveRename /\ ~Crash /\ ~Restart
    BY <1>1 DEF SaveDump, SaveRename, Crash, Restart
  <2>6. ~UNCHANGED vars
    BY <2>1 DEF vars
  <2> QED
    BY <2>2, <2>3, <2>4, <2>5, <2>6 DEF Next
<1>3. aof' = <<>> /\ snap' = snap /\ db' = db
  BY <1>2 DEF SaveReset
<1>4. snap = db
  BY <1>1 DEF Undisturbed
<1>5. Recovered' = ReplayAOF(snap', aof')
  BY DEF Recovered
<1>6. ReplayAOF(db, <<>>) = db
  BY ReplayNothing
<1> QED
  BY <1>3, <1>4, <1>5, <1>6

(***************************************************************************)
(* Whatever HTTP writes, blocking pops, FLUSHDB and torn lines did to the  *)
(* log before, a snapshot during which none of them is under way leaves    *)
(* files from which the store in memory is recovered.                      *)
(***************************************************************************)
THEOREM SnapshotHeals == Spec => SaveHeals
<1>1. Running /\ Undisturbed /\ [Next]_vars => Running' /\ Undisturbed'
  BY NextRunning, NextUndisturbed
<1>2. Init => Running /\ Undisturbed
  <2>1. Init => Undisturbed
    BY DEF Init, Undisturbed
  <2> QED
    BY <2>1, InitRunning
<1>3. Running /\ Undisturbed /\ [Next]_vars => [SaveEnds /\ calm => Recovered' = db']_vars
  BY EndHeals
<1> QED
  BY <1>1, <1>2, <1>3, PTL DEF Spec, SaveHeals

-----------------------------------------------------------------------------
(***************************************************************************)
(* Replaying what a handler that logs first wrote does what the handler is *)
(* about to do.                                                            *)
(***************************************************************************)
LEMMA ReplayOfWrite ==
  ASSUME NEW d \in Stores, NEW c \in Writes, c.op \in {"SET", "INCR", "LPUSH", "LPOP"},
         c.val # "escape"
  PROVE  ReplayEntry(d, Line(LogForm(c))) = Apply(d, c)
<1>1. c = [op |-> c.op, arg |-> c.arg, val |-> c.val]
  BY WriteOps
<1>2. PICK w : w = LogForm(c)
  OBVIOUS
<1>3. /\ [w EXCEPT !.arg = w.arg] = w /\ w.val # "escape"
      /\ w.op # "FLUSHDB" /\ w.op # "SETNX" /\ w.op # None
  BY <1>1, <1>2 DEF LogForm, None
<1>4. ReplayEntry(d, Line(w)) = Apply(d, w)
  <2>1. PICK e : e = Line(w)
    OBVIOUS
  <2>2. e.form = "good" /\ e.cmd = w
    BY <2>1 DEF Line
  <2>3. ReplayEntry(d, e) = Apply(d, [w EXCEPT !.arg = w.arg])
    BY <1>3, <2>2 DEF ReplayEntry
  <2> QED
    BY <1>3, <2>1, <2>3
<1>5. Apply(d, w) = Apply(d, c)
  <2>1. CASE c.op = "SET"
    <3>1. w = [op |-> "SETABS", arg |-> c.arg, val |-> c.val]
      BY <1>1, <1>2, <2>1 DEF LogForm
    <3> QED
      BY <2>1, <3>1 DEF Apply
  <2>2. CASE c.op # "SET"
    <3>1. w = c
      BY <1>2, <2>2 DEF LogForm
    <3> QED
      BY <3>1
  <2> QED
    BY <2>1, <2>2
<1> QED
  BY <1>2, <1>4, <1>5

(***************************************************************************)
(* Replaying what SETNX logged after it succeeded sets the number.         *)
(***************************************************************************)
LEMMA ReplayOfSetNX ==
  ASSUME NEW d \in Stores, NEW c \in Writes, c.op = "SETNX", c.val # "escape"
  PROVE  ReplayEntry(d, Line(LogForm(c))) = [d EXCEPT !.num = c.arg]
<1>1. c = [op |-> c.op, arg |-> c.arg, val |-> c.val]
  BY WriteOps
<1>2. PICK w : w = LogForm(c)
  OBVIOUS
<1>3. w = [op |-> "SETABS", arg |-> c.arg, val |-> c.val]
  BY <1>1, <1>2 DEF LogForm
<1>4. PICK e : e = Line(w)
  OBVIOUS
<1>5. e.form = "good" /\ e.cmd = w
  BY <1>4 DEF Line
<1>6. ReplayEntry(d, e) = Apply(d, [w EXCEPT !.arg = w.arg])
  BY <1>3, <1>5 DEF ReplayEntry
<1>7. [w EXCEPT !.arg = w.arg] = w
  BY <1>3
<1>8. Apply(d, w) = [d EXCEPT !.num = c.arg]
  BY <1>3 DEF Apply
<1> QED
  BY <1>2, <1>4, <1>6, <1>7, <1>8

(***************************************************************************)
(* A log with a last line that is exact is exact without it, all its other *)
(* lines have ended, and replay does the last one last.                    *)
(***************************************************************************)
LEMMA ExactLast ==
  ASSUME NEW log \in Seq(Lines), NEW e \in Lines, NEW d
  PROVE  /\ Append(log, e) \in Seq(Lines)
         /\ Len(Append(log, e)) = Len(log) + 1
         /\ Append(log, e)[Len(log) + 1] = e
         /\ Front(Append(log, e)) = log
         /\ Exact(Append(log, e)) =>
              /\ Exact(log)
              /\ ~(e.form = "good" /\ e.cmd.val \in {"escape", "long"})
              /\ e.form \notin {"cut", "extra"}
              /\ ReplayAOF(d, Append(log, e)) = ReplayEntry(ReplayAOF(d, log), e)
<1>1. PICK more : more = Append(log, e)
  OBVIOUS
<1>2. PICK n \in Nat : n = Len(log)
  OBVIOUS
<1>3. /\ Len(more) = n + 1 /\ more \in Seq(Lines)
      /\ more[n + 1] = e /\ \A i \in 1..n : more[i] = log[i]
  BY <1>1, <1>2
<1>4. Front(more) = log
  BY <1>1, <1>2, <1>3 DEF Front
<1>5. ASSUME Exact(more)
      PROVE  /\ Exact(log)
             /\ ~(e.form = "good" /\ e.cmd.val \in {"escape", "long"})
             /\ e.form \notin {"cut", "extra"}
             /\ ReplayAOF(d, Append(log, e)) = ReplayEntry(ReplayAOF(d, log), e)
  <2>1. \A i \in 1..(n + 1) : ~Misread(more, i)
    BY <1>3, <1>5 DEF Exact
  <2>2. ASSUME NEW i \in 1..n PROVE log[i].ended
    <3>1. i \in 1..(n + 1) /\ i < Len(more)
      BY <1>3
    <3>2. ~Joined(more, i)
      BY <2>1, <3>1 DEF Misread
    <3>3. more[i].ended
      BY <3>1, <3>2 DEF Joined
    <3> QED
      BY <1>3, <3>3
  <2>3. ASSUME NEW i \in 1..n PROVE ~Misread(log, i)
    <3>1. i \in 1..(n + 1) /\ more[i] = log[i]
      BY <1>3
    <3>2. i > 1 => log[i - 1].ended
      <4>1. i > 1 => i - 1 \in 1..n
        OBVIOUS
      <4> QED
        BY <2>2, <4>1
    <3>3. ~Joined(log, i)
      BY <2>2, <3>2 DEF Joined
    <3>4. ~Misread(more, i)
      BY <2>1, <3>1
    <3> QED
      BY <3>1, <3>3, <3>4 DEF Misread
  <2>4. Exact(log)
    BY <1>2, <2>3 DEF Exact
  <2>5. ~Misread(more, n + 1)
    BY <2>1
  <2>6. ~(e.form = "good" /\ e.cmd.val \in {"escape", "long"}) /\ e.form \notin {"cut", "extra"}
    BY <1>3, <2>5 DEF Misread
  <2>7. \A i \in 1..Len(log) : log[i].ended
    BY <1>2, <2>2
  <2>8. ReplayAOF(d, Append(log, e)) = ReplayEntry(ReplayAOF(d, log), e)
    BY <2>7, ReplayLast
  <2> QED
    BY <2>4, <2>6, <2>8
<1> QED
  BY <1>1, <1>2, <1>3, <1>4, <1>5

(***************************************************************************)
(* Whether the last line has ended makes no difference to that.            *)
(***************************************************************************)
LEMMA ExactEnd ==
  ASSUME NEW log \in Seq(Lines), NEW e \in Lines, NEW g \in Lines, Exact(Append(log, g)),
         e.form = g.form, e.cmd = g.cmd
  PROVE  Exact(Append(log, e))
<1>1. PICK n \in Nat : n = Len(log)
  OBVIOUS
<1>2. PICK l, m : l = Append(log, e) /\ m = Append(log, g)
  OBVIOUS
<1>3. /\ Len(l) = n + 1 /\ Len(m) = n + 1 /\ l[n + 1] = e /\ m[n + 1] = g
      /\ \A i \in 1..n : l[i] = log[i] /\ m[i] = log[i]
  BY <1>1, <1>2
<1>4. ASSUME NEW i \in 1..(n + 1) PROVE ~Misread(l, i)
  <2>1. ~Misread(m, i)
    BY <1>2, <1>3 DEF Exact
  <2>2. i > 1 => l[i - 1] = m[i - 1]
    <3>1. i > 1 => i - 1 \in 1..n
      OBVIOUS
    <3> QED
      BY <1>3, <3>1
  <2>3. CASE i = n + 1
    BY <1>3, <2>1, <2>2, <2>3 DEF Misread, Joined
  <2>4. CASE i # n + 1
    <3>1. i \in 1..n
      BY <2>4
    <3> QED
      BY <1>3, <2>1, <2>2, <3>1 DEF Misread, Joined
  <2> QED
    BY <2>3, <2>4
<1> QED
  BY <1>2, <1>3, <1>4 DEF Exact

(***************************************************************************)
(* What Append makes of a log.                                             *)
(***************************************************************************)
LEMMA ExactAppend ==
  ASSUME NEW log \in Seq(Lines), NEW w \in Writes, NEW d
  PROVE  LET more == Appended(log, w) IN
         /\ more \in Seq(Lines) /\ Len(more) = Len(log) + 1
         /\ Front(more) = log /\ more[Len(more)].form = "good"
         /\ Exact(more) => /\ Exact(log) /\ w.val # "escape"
                           /\ ReplayAOF(d, more) = ReplayEntry(ReplayAOF(d, log), Line(w))
<1>1. Appended(log, w) = Append(log, Line(w)) /\ Line(w) \in Lines
  BY AppendedLog
<1>2. PICK e \in Lines : e = Line(w)
  BY <1>1
<1>3. e.form = "good" /\ e.cmd = w
  BY <1>2 DEF Line
<1>4. /\ Append(log, e) \in Seq(Lines)
      /\ Len(Append(log, e)) = Len(log) + 1
      /\ Append(log, e)[Len(log) + 1] = e
      /\ Front(Append(log, e)) = log
      /\ Exact(Append(log, e)) =>
           /\ Exact(log)
           /\ ~(e.form = "good" /\ e.cmd.val \in {"escape", "long"})
           /\ e.form \notin {"cut", "extra"}
           /\ ReplayAOF(d, Append(log, e)) = ReplayEntry(ReplayAOF(d, log), e)
  BY ExactLast
<1> QED
  BY <1>1, <1>2, <1>3, <1>4

(***************************************************************************)
(* A crash leaves a prefix of the log, or a prefix with a part of the last *)
(* line of a longer one.                                                   *)
(***************************************************************************)
LEMMA CrashLeaves ==
  ASSUME aof \in Seq(Lines), synced \in 0..Len(aof), NEW log \in LogsAfterCrash
  PROVE  \/ \E n \in synced..Len(aof) : log = SubSeq(aof, 1, n)
         \/ \E n \in (synced + 1)..Len(aof) : \E e \in Remains(aof[n]) :
              log = Append(SubSeq(aof, 1, n - 1), e)
<1>1. CASE \E n \in synced..Len(aof) : log = SubSeq(aof, 1, n)
  BY <1>1
<1>2. CASE \E n \in synced..Len(aof) : \E l : /\ l = SubSeq(aof, 1, n) /\ Len(l) > synced
                                              /\ \E e \in Remains(Last(l)) : log = Append(Front(l), e)
  <2>1. PICK n \in synced..Len(aof) :
          \E l : /\ l = SubSeq(aof, 1, n) /\ Len(l) > synced
                 /\ \E e \in Remains(Last(l)) : log = Append(Front(l), e)
    BY <1>2
  <2> PICK l : /\ l = SubSeq(aof, 1, n) /\ Len(l) > synced
               /\ \E e \in Remains(Last(l)) : log = Append(Front(l), e)
    BY <2>1
  <2>2. n \in Nat /\ n <= Len(aof) /\ Len(l) = n /\ \A i \in 1..n : l[i] = aof[i]
    OBVIOUS
  <2>3. n \in (synced + 1)..Len(aof) /\ n \in 1..n
    BY <2>2
  <2>4. Last(l) = aof[n]
    BY <2>2, <2>3 DEF Last
  <2>5. Front(l) = SubSeq(aof, 1, n - 1)
    <3>1. /\ Front(l) = [i \in 1..(n - 1) |-> l[i]]
          /\ SubSeq(aof, 1, n - 1) = [i \in 1..(n - 1) |-> aof[i]]
      BY <2>2, <2>3 DEF Front
    <3> QED
      BY <2>2, <3>1
  <2> QED
    BY <2>3, <2>4, <2>5
<1> QED
  BY <1>1, <1>2 DEF LogsAfterCrash

(***************************************************************************)
(* The steps of RESP clients keep the files in line with the store.        *)
(***************************************************************************)
LEMMA RespFilesMatch ==
  ASSUME Running, FilesMatch, NEW c \in RespClients,
         \/ \E op \in RespOps : RespLogs(c, op)
         \/ RespApplies(c) \/ RespAppliesFirst(c) \/ RespLogsAfter(c)
  PROVE  FilesMatch'
<1>1. /\ c \in Clients /\ c # None /\ c # Saver /\ None # Saver
      /\ RespClients \subseteq Clients /\ \A x \in RespClients : x # None
  BY PersistenceAssumption DEF Clients, None, Saver
<1>2. /\ db \in Stores /\ snap \in Stores
      /\ aof \in Seq(Lines)
      /\ pc \in [Clients -> {"idle", "appended", "applied", "logged", "popped"}]
      /\ \A x \in RespClients : pc[x] # "idle" <=> persistMu = x
      /\ \A x \in Clients : pc[x] # "idle" => cmd[x] \in Writes
      /\ saving # "idle" <=> persistMu = Saver
  BY DEF Running, TypeOK
<1>3. Recovered \in Stores /\ Recovered = ReplayAOF(snap, aof) /\ Recovered' = ReplayAOF(snap', aof')
  BY <1>2, ReplayStore DEF Recovered
<1>4. ASSUME NEW op \in RespOps, RespLogs(c, op) PROVE FilesMatch'
  <2>1. Start(c, op) /\ op \in RespOps \cup HttpOps \cup {"LPOP"} /\ op \in {"SET", "INCR", "LPUSH", "LPOP"}
    BY <1>4 DEF RespLogs
  <2>2. up /\ pc[c] = "idle" /\ cmd'[c] \in Writes /\ cmd'[c].op = op
    BY <1>1, <2>1, StartFacts
  <2>3. PICK k \in Writes : k = cmd'[c]
    BY <2>2
  <2>4. PICK w \in Writes : w = LogForm(k)
    BY LogFormWrite
  <2>5. /\ db' = db /\ snap' = snap /\ saving' = saving /\ persistMu = None /\ persistMu' = c
        /\ pc' = [pc EXCEPT ![c] = "appended"] /\ aof' = Appended(aof, w)
    BY <1>4, <2>3, <2>4 DEF RespLogs
  <2>6. Exact(Appended(aof, w)) =>
          /\ Exact(aof) /\ w.val # "escape"
          /\ ReplayAOF(snap, Appended(aof, w)) = ReplayEntry(ReplayAOF(snap, aof), Line(w))
    BY <1>2, ExactAppend
  <2>7. Exact(aof) => Recovered = db
    BY <2>2, <2>5 DEF FilesMatch, Recovers
  <2>8. w.val # "escape" => ReplayEntry(db, Line(w)) = Apply(db, k)
    BY <1>2, <2>1, <2>2, <2>3, <2>4, ReplayOfWrite DEF LogForm
  <2>9. Exact(aof') => Recovered' = Apply(db', cmd'[c])
    BY <1>3, <2>3, <2>5, <2>6, <2>7, <2>8
  <2>10. \A x \in RespClients : x # c => pc'[x] = "idle"
    BY <1>1, <1>2, <2>5
  <2>11. pc'[c] = "appended" /\ saving' = "idle" /\ persistMu' # None
    BY <1>1, <1>2, <2>5
  <2> QED
    BY <2>1, <2>2, <2>9, <2>10, <2>11 DEF FilesMatch, Recovers
<1>5. CASE RespApplies(c)
  <2>1. /\ pc[c] = "appended" /\ db' = Apply(db, cmd[c]) /\ persistMu' = None
        /\ pc' = [pc EXCEPT ![c] = "idle"]
        /\ aof' = aof /\ snap' = snap /\ saving' = saving
    BY <1>5 DEF RespApplies
  <2>2. persistMu = c /\ saving' = "idle"
    BY <1>1, <1>2, <2>1
  <2>3. Exact(aof') => Recovered' = db'
    BY <1>3, <2>1 DEF FilesMatch, Recovers
  <2>4. \A x \in RespClients : pc'[x] = "idle"
    BY <1>1, <1>2, <2>1, <2>2
  <2> QED
    BY <2>1, <2>2, <2>3, <2>4 DEF FilesMatch, Recovers
<1>6. CASE RespAppliesFirst(c)
  <2>1. Start(c, "SETNX") /\ "SETNX" \in RespOps \cup HttpOps \cup {"LPOP"}
    BY <1>6 DEF RespAppliesFirst
  <2>2. up /\ pc[c] = "idle" /\ cmd'[c] \in Writes /\ cmd'[c].op = "SETNX"
    BY <1>1, <2>1, StartFacts
  <2>3. persistMu = None /\ aof' = aof /\ snap' = snap /\ saving' = saving /\ saving = "idle"
    BY <1>1, <1>2, <1>6 DEF RespAppliesFirst
  <2>4. Exact(aof') => Recovered = db /\ Recovered' = db
    BY <1>3, <2>2, <2>3 DEF FilesMatch, Recovers
  <2>5. \A x \in RespClients : pc[x] = "idle"
    BY <1>1, <1>2, <2>3
  <2>6. CASE db.num # 0
    <3>1. db' = db /\ persistMu' = persistMu /\ pc' = pc
      BY <1>6, <2>6 DEF RespAppliesFirst
    <3> QED
      BY <2>3, <2>4, <2>5, <3>1 DEF FilesMatch, Recovers
  <2>7. CASE db.num = 0
    <3>1. PICK k \in Writes : k = cmd'[c]
      BY <2>2
    <3>2. db' = Apply(db, k) /\ persistMu' = c /\ pc' = [pc EXCEPT ![c] = "applied"]
      BY <1>6, <2>7, <3>1 DEF RespAppliesFirst
    <3>3. db' = [db EXCEPT !.num = k.arg]
      BY <2>2, <2>7, <3>1, <3>2 DEF Apply
    <3>4. db = [num |-> db.num, list |-> db.list]
      BY <1>2, StoreEdits
    <3>5. db'.num = k.arg /\ [db' EXCEPT !.num = 0] = db
      BY <2>7, <3>3, <3>4
    <3>6. \A x \in RespClients : pc'[x] = IF x = c THEN "applied" ELSE "idle"
      BY <1>1, <1>2, <2>5, <3>2
    <3> QED
      BY <1>1, <2>2, <2>3, <2>4, <3>1, <3>2, <3>5, <3>6 DEF FilesMatch, Recovers
  <2> QED
    BY <2>6, <2>7
<1>7. CASE RespLogsAfter(c)
  <2>1. /\ pc[c] = "applied" /\ persistMu' = None /\ pc' = [pc EXCEPT ![c] = "idle"]
        /\ db' = db /\ snap' = snap /\ saving' = saving
    BY <1>7 DEF RespLogsAfter
  <2>2. persistMu = c /\ saving' = "idle"
    BY <1>1, <1>2, <2>1
  <2>3. PICK k \in Writes : k = cmd[c]
    BY <1>1, <1>2, <2>1
  <2>4. PICK w \in Writes : w = LogForm(k)
    BY LogFormWrite
  <2>5. aof' = Appended(aof, w)
    BY <1>7, <2>3, <2>4 DEF RespLogsAfter, AppendAndSync
  <2>6. Exact(Appended(aof, w)) =>
          /\ Exact(aof) /\ w.val # "escape"
          /\ ReplayAOF(snap, Appended(aof, w)) = ReplayEntry(ReplayAOF(snap, aof), Line(w))
    BY <1>2, ExactAppend
  <2>7. k.op = "SETNX" /\ db.num = k.arg /\ (Exact(aof) => Recovered = [db EXCEPT !.num = 0])
    BY <2>1, <2>3 DEF FilesMatch, Recovers
  <2>8. PICK d \in Stores : d = Recovered
    BY <1>3
  <2>9. w.val # "escape" => ReplayEntry(d, Line(w)) = [d EXCEPT !.num = k.arg]
    BY <2>4, <2>7, ReplayOfSetNX DEF LogForm
  <2>10. db = [num |-> db.num, list |-> db.list]
    BY <1>2, StoreEdits
  <2>11. Exact(aof) => [d EXCEPT !.num = k.arg] = db
    BY <2>7, <2>8, <2>10
  <2>12. Exact(aof') => Recovered' = db'
    BY <1>3, <2>1, <2>5, <2>6, <2>8, <2>9, <2>11
  <2>13. \A x \in RespClients : pc'[x] = "idle"
    BY <1>1, <1>2, <2>1, <2>2
  <2> QED
    BY <2>1, <2>2, <2>12, <2>13 DEF FilesMatch, Recovers
<1> QED
  BY <1>4, <1>5, <1>6, <1>7

(***************************************************************************)
(* So do a snapshot up to its rename and a crash.                          *)
(***************************************************************************)
LEMMA SystemFilesMatch ==
  ASSUME Running, FilesMatch, SaveDump \/ SaveRename \/ Crash
  PROVE  FilesMatch'
<1>1. /\ None # Saver /\ \A x \in RespClients : x # None /\ x # Saver
      /\ RespClients \subseteq Clients
  BY PersistenceAssumption DEF Clients, None, Saver
<1>2. /\ \A x \in RespClients : pc[x] # "idle" <=> persistMu = x
      /\ saving # "idle" <=> persistMu = Saver
  BY DEF Running, TypeOK
<1>3. CASE SaveDump
  <2>1. /\ up /\ persistMu = None /\ persistMu' = Saver /\ tmp' = db /\ saving' = "dumped"
        /\ aof' = aof /\ snap' = snap /\ db' = db /\ pc' = pc /\ cmd' = cmd
    BY <1>3 DEF SaveDump
  <2>2. (Exact(aof) => Recovered = db) /\ Recovered' = Recovered
    BY <2>1 DEF FilesMatch, Recovered, Recovers
  <2>3. \A x \in RespClients : pc[x] = "idle"
    BY <1>1, <1>2, <2>1
  <2> QED
    BY <1>1, <2>1, <2>2, <2>3 DEF FilesMatch, Recovers
<1>4. CASE SaveRename
  <2>1. /\ saving = "dumped" /\ saving' = "renamed" /\ snap' = tmp /\ persistMu' = persistMu
        /\ aof' = aof /\ db' = db /\ pc' = pc
    BY <1>4 DEF SaveRename
  <2>2. tmp = db /\ persistMu = Saver
    BY <1>2, <2>1 DEF FilesMatch
  <2>3. \A x \in RespClients : pc[x] = "idle"
    BY <1>1, <1>2, <2>2
  <2> QED
    BY <1>1, <2>1, <2>2, <2>3 DEF FilesMatch, Recovers
<1>5. CASE Crash
  <2>1. ~up' /\ saving' = "idle" /\ pc' = [x \in Clients |-> "idle"]
    BY <1>5 DEF Crash
  <2>2. \A x \in RespClients : pc'[x] = "idle"
    BY <1>1, <2>1
  <2> QED
    BY <2>1, <2>2 DEF FilesMatch
<1> QED
  BY <1>3, <1>4, <1>5

(***************************************************************************)
(* A restart, and the end of a snapshot of the store, bring files and      *)
(* store together whatever was before.                                     *)
(***************************************************************************)
LEMMA HealedFilesMatch ==
  ASSUME Running, Restart \/ (SaveReset /\ snap = db)
  PROVE  FilesMatch'
<1>1. /\ None # Saver /\ \A x \in RespClients : x # None /\ x # Saver
  BY PersistenceAssumption DEF None, Saver
<1>2. /\ \A x \in RespClients : pc[x] # "idle" <=> persistMu = x
      /\ saving # "idle" <=> persistMu = Saver
      /\ ~up => persistMu = None
  BY DEF Running, TypeOK
<1>3. Recovered' = ReplayAOF(snap', aof')
  BY DEF Recovered
<1>4. CASE SaveReset /\ snap = db
  <2>1. /\ saving = "renamed" /\ saving' = "idle" /\ aof' = <<>> /\ persistMu' = None
        /\ snap' = snap /\ db' = db /\ pc' = pc
    BY <1>4 DEF SaveReset
  <2>2. ReplayAOF(db, <<>>) = db
    BY ReplayNothing
  <2>3. Recovered' = db'
    BY <1>3, <1>4, <2>1, <2>2
  <2>4. \A x \in RespClients : pc[x] = "idle"
    BY <1>1, <1>2, <2>1
  <2> QED
    BY <2>1, <2>3, <2>4 DEF FilesMatch, Recovers
<1>5. CASE Restart
  <2>1. ~up /\ db' = Recovered /\ aof' = aof /\ snap' = snap /\ saving' = saving /\ pc' = pc
    BY <1>5 DEF Restart
  <2>2. persistMu = None /\ saving = "idle" /\ Recovered' = Recovered
    BY <1>1, <1>2, <1>3, <2>1 DEF Recovered
  <2>3. \A x \in RespClients : pc[x] = "idle"
    BY <1>1, <1>2, <2>2
  <2> QED
    BY <2>1, <2>2, <2>3 DEF FilesMatch, Recovers
<1> QED
  BY <1>4, <1>5

(***************************************************************************)
(* How a state in which the claims about the files apply is reached: by a  *)
(* step of a RESP client, a snapshot, a crash or nothing from another such *)
(* state, by a restart, or by the end of a calm snapshot.                  *)
(***************************************************************************)
LEMMA KeptSteps ==
  ASSUME Running, Undisturbed, ~strayed => OthersIdle, [Next]_vars, ~strayed'
  PROVE  /\ OthersIdle'
         /\ \/ Restart
            \/ SaveReset /\ calm
            \/ ~strayed /\ (UNCHANGED vars \/ SaveDump \/ SaveRename \/ SaveReset \/ Crash)
            \/ ~strayed /\ \E c \in RespClients :
                 \/ \E op \in RespOps : RespLogs(c, op)
                 \/ RespApplies(c) \/ RespAppliesFirst(c) \/ RespLogsAfter(c)
<1>1. /\ HttpClients \cup BlockClients \subseteq Clients /\ RespClients \subseteq Clients
      /\ \A c \in RespClients : c \notin HttpClients \cup BlockClients
      /\ pc \in [Clients -> {"idle", "appended", "applied", "logged", "popped"}]
      /\ ~up => \A c \in Clients : pc[c] = "idle"
  BY PersistenceAssumption DEF Running, TypeOK, Clients
<1>2. ASSUME NEW c \in HttpClients \cup BlockClients,
             (\E op \in HttpOps : persistWrite(c, op)) \/ HttpApplies(c) \/ BlpopTakes(c) \/ BlpopLogs(c)
      PROVE  FALSE
  <2>1. ~(\E op \in HttpOps : persistWrite(c, op)) /\ ~BlpopTakes(c)
    BY DEF persistWrite, BlpopTakes
  <2>2. pc[c] # "idle" /\ strayed' = strayed
    BY <1>2, <2>1 DEF HttpApplies, BlpopLogs
  <2> QED
    BY <2>2 DEF OthersIdle
<1>3. ASSUME NEW c \in RespClients, RespFlushes(c)
      PROVE  FALSE
  BY <1>3 DEF RespFlushes
<1>4. CASE Restart
  <2>1. ~up /\ pc' = pc
    BY <1>4 DEF Restart
  <2> QED
    BY <1>1, <1>4, <2>1 DEF OthersIdle
<1>5. CASE SaveReset
  <2>1. saving = "renamed" /\ pc' = pc /\ (~strayed \/ calm)
    BY <1>5 DEF SaveReset
  <2> QED
    BY <1>5, <2>1 DEF OthersIdle, Undisturbed
<1>6. CASE Crash
  <2>1. pc' = [c \in Clients |-> "idle"] /\ strayed' = strayed
    BY <1>6 DEF Crash
  <2> QED
    BY <1>1, <1>6, <2>1 DEF OthersIdle
<1>7. CASE SaveDump \/ SaveRename \/ UNCHANGED vars
  <2>1. pc' = pc /\ strayed' = strayed
    BY <1>7 DEF SaveDump, SaveRename, vars
  <2> QED
    BY <1>7, <2>1 DEF OthersIdle
<1>8. ASSUME NEW c \in RespClients,
             \/ \E op \in RespOps : RespLogs(c, op)
             \/ RespApplies(c) \/ RespAppliesFirst(c) \/ RespLogsAfter(c)
      PROVE  OthersIdle' /\ ~strayed
  <2>1. strayed' = strayed /\ \E v : pc' = [pc EXCEPT ![c] = v]
    <3>1. ASSUME RespAppliesFirst(c)
          PROVE  strayed' = strayed /\ (pc' = pc \/ pc' = [pc EXCEPT ![c] = "applied"])
      BY <3>1 DEF RespAppliesFirst
    <3>2. pc = [pc EXCEPT ![c] = pc[c]]
      BY <1>1
    <3>3. ASSUME ~RespAppliesFirst(c)
          PROVE  /\ strayed' = strayed
                 /\ pc' = [pc EXCEPT ![c] = "appended"] \/ pc' = [pc EXCEPT ![c] = "idle"]
      BY <1>8, <3>3 DEF RespLogs, RespApplies, RespLogsAfter
    <3> QED
      BY <3>1, <3>2, <3>3
  <2>2. \A x \in HttpClients \cup BlockClients : pc'[x] = pc[x]
    BY <1>1, <2>1
  <2> QED
    BY <2>1, <2>2 DEF OthersIdle
<1> QED
  BY <1>2, <1>3, <1>4, <1>5, <1>6, <1>7, <1>8 DEF Next

(***************************************************************************)
(* Every step keeps the files in line with the store.                      *)
(***************************************************************************)
LEMMA NextFilesKept ==
  ASSUME Running, Undisturbed, FilesKept, [Next]_vars
  PROVE  FilesKept'
<1> SUFFICES ASSUME ~strayed' PROVE FilesMatch' /\ OthersIdle'
  BY DEF FilesKept
<1>1. ~strayed => OthersIdle /\ FilesMatch
  BY DEF FilesKept
<1>2. OthersIdle'
  BY <1>1, KeptSteps
<1>3. CASE Restart
  BY <1>2, <1>3, HealedFilesMatch
<1>4. CASE SaveReset /\ (calm \/ ~strayed)
  <2>1. saving = "renamed"
    BY <1>4 DEF SaveReset
  <2>2. snap = db
    BY <1>1, <1>4, <2>1 DEF Undisturbed, FilesMatch
  <2> QED
    BY <1>2, <1>4, <2>2, HealedFilesMatch
<1>5. CASE ~strayed /\ (SaveDump \/ SaveRename \/ Crash)
  BY <1>1, <1>2, <1>5, SystemFilesMatch
<1>6. CASE ~strayed /\ UNCHANGED vars
  <2>1. Recovered' = Recovered
    BY <1>6 DEF vars, Recovered
  <2> QED
    BY <1>1, <1>2, <1>6, <2>1 DEF vars, FilesMatch, Recovers
<1>7. CASE ~strayed /\ \E c \in RespClients :
             \/ \E op \in RespOps : RespLogs(c, op)
             \/ RespApplies(c) \/ RespAppliesFirst(c) \/ RespLogsAfter(c)
  BY <1>1, <1>2, <1>7, RespFilesMatch
<1> QED
  BY <1>1, <1>3, <1>4, <1>5, <1>6, <1>7, KeptSteps

(***************************************************************************)
(* At the start the files are empty like the store.                        *)
(***************************************************************************)
LEMMA InitFilesKept ==
  ASSUME Init
  PROVE  Running /\ Undisturbed /\ FilesMatch /\ OthersIdle /\ Recovered = Empty
<1>1. Recovered = Empty
  BY ReplayNothing DEF Init, Recovered
<1>2. \A c \in Clients : pc[c] = "idle"
  BY DEF Init
<1>3. FilesMatch
  BY <1>1, <1>2 DEF Init, FilesMatch, Recovers, Clients
<1>4. OthersIdle /\ Undisturbed
  BY <1>2 DEF Init, OthersIdle, Undisturbed, Clients
<1> QED
  BY <1>1, <1>3, <1>4, InitRunning

(***************************************************************************)
(* Whatever the fsync policy, the values, the number of clients of each    *)
(* kind, snapshots and crashes, and whatever part of a line a crash        *)
(* leaves: as long as no entry of the log is misread (two in one line, cut *)
(* short, too long, an escape not undone), a restart while no command is   *)
(* in progress would recover exactly the store in memory, also halfway     *)
(* through a snapshot except between its rename and the truncation of the  *)
(* log.  This holds up to the first HTTP write, BLPOP or FLUSHDB, and      *)
(* again after each restart and each snapshot that nobody disturbs.        *)
(***************************************************************************)
THEOREM LockedWritesAreOnDisk == Spec => []Inv
<1> DEFINE Ind == Running /\ Undisturbed /\ FilesKept
<1>1. Ind /\ [Next]_vars => Ind'
  BY NextRunning, NextUndisturbed, NextFilesKept
<1>2. Init => Ind
  BY InitFilesKept DEF FilesKept
<1>3. Ind => Inv
  <2> SUFFICES ASSUME Running, FilesKept, Quiet, ~strayed, saving # "renamed", Exact(aof)
               PROVE  Recovered = db
    BY DEF Running, Inv, DiskAgrees
  <2>1. up /\ FilesMatch /\ \A c \in RespClients : pc[c] = "idle"
    BY DEF Quiet, Clients, FilesKept
  <2>2. /\ persistMu \in RespClients \cup {None, Saver}
        /\ \A x \in RespClients : pc[x] # "idle" <=> persistMu = x
        /\ saving # "idle" <=> persistMu = Saver
        /\ saving \in {"idle", "dumped", "renamed"}
    BY DEF Running, TypeOK
  <2>3. CASE persistMu = None
    BY <2>1, <2>3 DEF FilesMatch, Recovers
  <2>4. CASE persistMu = Saver
    BY <2>1, <2>2, <2>4 DEF FilesMatch, Recovers
  <2> QED
    BY <2>1, <2>2, <2>3, <2>4
<1> HIDE DEF Ind
<1> QED
  BY <1>1, <1>2, <1>3, PTL DEF Spec

-----------------------------------------------------------------------------
(***************************************************************************)
(* With an fsync for every entry, the steps of RESP clients leave at most  *)
(* the line of an unanswered command unsynced.                             *)
(***************************************************************************)
LEMMA RespSynced ==
  ASSUME Fsync = "always", Running, FilesMatch, SyncedMatch, NEW c \in RespClients,
         \/ \E op \in RespOps : RespLogs(c, op)
         \/ RespApplies(c) \/ RespAppliesFirst(c) \/ RespLogsAfter(c)
  PROVE  SyncedMatch'
<1>1. /\ c \in Clients /\ c # None /\ c # Saver
      /\ RespClients \subseteq Clients /\ \A x \in RespClients : x # None
  BY PersistenceAssumption DEF Clients, None, Saver
<1>2. /\ aof \in Seq(Lines) /\ Len(aof) \in Nat
      /\ pc \in [Clients -> {"idle", "appended", "applied", "logged", "popped"}]
      /\ \A x \in RespClients : pc[x] # "idle" <=> persistMu = x
      /\ \A x \in Clients : pc[x] # "idle" => cmd[x] \in Writes
      /\ ~up => persistMu = None /\ \A x \in Clients : pc[x] = "idle"
  BY DEF Running, TypeOK
<1>3. \A log : SyncedAfter(log) = {Len(log)}
  BY DEF SyncedAfter
<1>4. ASSUME NEW op \in RespOps, RespLogs(c, op) PROVE SyncedMatch'
  <2>1. Start(c, op) /\ op \in RespOps \cup HttpOps \cup {"LPOP"}
    BY <1>4 DEF RespLogs
  <2>2. up /\ pc[c] = "idle" /\ cmd'[c] \in Writes
    BY <1>1, <2>1, StartFacts
  <2>3. PICK k \in Writes : k = cmd'[c]
    BY <2>2
  <2>4. PICK w \in Writes : w = LogForm(k)
    BY LogFormWrite
  <2>5. /\ db' = db /\ snap' = snap /\ synced' = synced /\ up' = up /\ persistMu = None
        /\ pc' = [pc EXCEPT ![c] = "appended"] /\ aof' = Appended(aof, w)
    BY <1>4, <2>3, <2>4 DEF RespLogs
  <2>6. /\ Len(Appended(aof, w)) = Len(aof) + 1 /\ Front(Appended(aof, w)) = aof
        /\ Appended(aof, w)[Len(Appended(aof, w))].form = "good"
    BY <1>2, ExactAppend
  <2>7. \A x \in RespClients : pc[x] = "idle"
    BY <1>1, <1>2, <2>5
  <2>8. synced = Len(aof)
    BY <2>7 DEF SyncedMatch
  <2>9. (Exact(aof) => Recovered = db) /\ Recovered = ReplayAOF(snap, aof)
    BY <2>2, <2>5 DEF FilesMatch, Recovered, Recovers
  <2>10. Len(aof') > 0 /\ synced' = Len(aof') - 1 /\ aof'[Len(aof')].form = "good"
    BY <1>2, <2>5, <2>6, <2>8
  <2>11. Exact(Front(aof')) => ReplayAOF(snap', Front(aof')) = db'
    BY <2>5, <2>6, <2>9
  <2>12. \A x \in RespClients : pc'[x] = "appended" <=> x = c
    BY <1>1, <1>2, <2>5, <2>7
  <2> QED
    BY <2>2, <2>5, <2>10, <2>11, <2>12 DEF SyncedMatch
<1>5. CASE RespApplies(c)
  <2>1. /\ up /\ up' = up /\ pc[c] = "appended" /\ pc' = [pc EXCEPT ![c] = "idle"]
        /\ aof' = aof /\ synced' \in SyncedAfter(aof)
    BY <1>5 DEF RespApplies
  <2>2. persistMu = c /\ synced' = Len(aof')
    BY <1>1, <1>2, <1>3, <2>1
  <2>3. \A x \in RespClients : pc'[x] = "idle"
    BY <1>1, <1>2, <2>1, <2>2
  <2> QED
    BY <2>1, <2>2, <2>3 DEF SyncedMatch
<1>6. CASE RespAppliesFirst(c)
  <2>1. Start(c, "SETNX") /\ persistMu = None /\ aof' = aof /\ synced' = synced /\ up' = up
    BY <1>6 DEF RespAppliesFirst
  <2>2. up /\ \A x \in RespClients : pc[x] = "idle"
    BY <1>1, <1>2, <2>1 DEF Start
  <2>3. \A x \in RespClients : pc'[x] # "appended"
    BY <1>1, <1>2, <1>6, <2>2 DEF RespAppliesFirst
  <2>4. synced = Len(aof)
    BY <2>2 DEF SyncedMatch
  <2> QED
    BY <2>1, <2>2, <2>3, <2>4 DEF SyncedMatch
<1>7. CASE RespLogsAfter(c)
  <2>1. /\ up /\ up' = up /\ pc[c] = "applied" /\ pc' = [pc EXCEPT ![c] = "idle"]
        /\ synced' \in SyncedAfter(aof')
    BY <1>7 DEF RespLogsAfter, AppendAndSync
  <2>2. persistMu = c /\ synced' = Len(aof')
    BY <1>1, <1>2, <1>3, <2>1
  <2>3. \A x \in RespClients : pc'[x] = "idle"
    BY <1>1, <1>2, <2>1, <2>2
  <2> QED
    BY <2>1, <2>2, <2>3 DEF SyncedMatch
<1> QED
  BY <1>4, <1>5, <1>6, <1>7

(***************************************************************************)
(* A crash at any point but between rename and truncation leaves files     *)
(* that replay to a store the clients may expect.                          *)
(***************************************************************************)
LEMMA CrashAllowed ==
  ASSUME Running, FilesMatch, SyncedMatch, Crash, ~split', Exact(aof')
  PROVE  Recovered' \in allowed'
<1>1. /\ None # Saver /\ RespClients \subseteq Clients
      /\ aof \in Seq(Lines) /\ synced \in 0..Len(aof) /\ Len(aof) \in Nat
      /\ persistMu \in RespClients \cup {None, Saver}
      /\ pc \in [Clients -> {"idle", "appended", "applied", "logged", "popped"}]
      /\ \A x \in RespClients : pc[x] # "idle" <=> persistMu = x
      /\ saving # "idle" <=> persistMu = Saver
      /\ saving \in {"idle", "dumped", "renamed"}
      /\ \A x \in RespClients : x # None /\ x # Saver
  BY PersistenceAssumption DEF Running, TypeOK, Clients, None, Saver
<1>2. /\ up /\ snap' = snap /\ saving # "renamed" /\ allowed' = AllowedAfterCrash
  BY DEF Crash
<1>3. PICK log \in LogsAfterCrash : aof' = log
  BY DEF Crash
<1>4. SubSeq(aof, 1, Len(aof)) = aof
  BY <1>1
<1>5. \/ \E n \in synced..Len(aof) : log = SubSeq(aof, 1, n)
      \/ \E n \in (synced + 1)..Len(aof) : \E e \in Remains(aof[n]) :
           log = Append(SubSeq(aof, 1, n - 1), e)
  BY <1>1, CrashLeaves
<1>6. Recovered' = ReplayAOF(snap, log) /\ Recovered = ReplayAOF(snap, aof)
  BY <1>2, <1>3 DEF Recovered
<1>7. db \in AllowedAfterCrash
  BY DEF AllowedAfterCrash
<1>8. CASE \A x \in RespClients : pc[x] # "appended"
  <2>1. log = aof
    <3>1. synced = Len(aof)
      BY <1>8 DEF SyncedMatch
    <3>2. synced..Len(aof) = {Len(aof)} /\ (synced + 1)..Len(aof) = {}
      BY <1>1, <3>1
    <3> QED
      BY <1>4, <1>5, <3>2
  <2>2. CASE persistMu = None
    BY <1>2, <1>3, <1>6, <1>7, <2>1, <2>2 DEF FilesMatch, Recovers
  <2>3. CASE persistMu = Saver
    <3>1. saving = "dumped"
      BY <1>1, <1>2, <2>3
    <3> QED
      BY <1>2, <1>3, <1>6, <1>7, <2>1, <3>1 DEF FilesMatch, Recovers
  <2>4. ASSUME NEW c \in RespClients, persistMu = c PROVE Recovered' \in allowed'
    <3>1. pc[c] \in {"applied", "logged", "popped"}
      BY <1>1, <1>8, <2>4
    <3>2. pc[c] = "applied"
      BY <3>1 DEF FilesMatch
    <3>3. Recovered = [db EXCEPT !.num = 0]
      BY <1>3, <2>1, <3>2 DEF FilesMatch, Recovers
    <3>4. Recovered \in AllowedAfterCrash
      BY <3>2, <3>3 DEF AllowedAfterCrash
    <3> QED
      BY <1>2, <1>6, <2>1, <3>4
  <2> QED
    BY <1>1, <2>2, <2>3, <2>4
<1>9. ASSUME NEW c \in RespClients, pc[c] = "appended" PROVE Recovered' \in allowed'
  <2>1. /\ Len(aof) > 0 /\ synced = Len(aof) - 1 /\ aof[Len(aof)].form = "good"
        /\ Exact(Front(aof)) => ReplayAOF(snap, Front(aof)) = db
    BY <1>9 DEF SyncedMatch
  <2>2. PICK f \in Seq(Lines) : f = Front(aof)
    <3>1. Len(aof) - 1 \in Nat /\ Len(aof) - 1 <= Len(aof) /\ \A i \in 1..(Len(aof) - 1) : aof[i] \in Lines
      BY <1>1, <2>1
    <3>2. Front(aof) \in Seq(Lines)
      BY <1>1, <3>1 DEF Front
    <3> QED
      BY <3>2
  <2>3. f = SubSeq(aof, 1, Len(aof) - 1)
    BY <2>2 DEF Front
  <2>4. PICK e0 \in Lines : e0 = aof[Len(aof)]
    BY <1>1, <2>1
  <2>5. aof = Append(f, e0)
    BY <1>1, <2>1, <2>2, <2>4 DEF Front
  <2>6. ASSUME log = aof PROVE Recovered' \in allowed'
    <3>1. Recovered = Apply(db, cmd[c])
      BY <1>3, <1>9, <2>6 DEF FilesMatch, Recovers
    <3>2. Recovered \in AllowedAfterCrash
      BY <1>9, <3>1 DEF AllowedAfterCrash
    <3> QED
      BY <1>2, <1>6, <2>6, <3>2
  <2>7. ASSUME log = f PROVE Recovered' \in allowed'
    BY <1>2, <1>3, <1>6, <1>7, <2>2, <2>1, <2>7
  <2>8. ASSUME NEW e \in Remains(e0), log = Append(f, e) PROVE Recovered' \in allowed'
    <3>1. e \in Lines /\ (e.form \in {"cut", "extra", "torn"} \/ (e.form = e0.form /\ e.cmd = e0.cmd))
      BY RemainsLine
    <3>2. /\ Exact(f) /\ ~(e.form = "good" /\ e.cmd.val \in {"escape", "long"})
          /\ e.form \notin {"cut", "extra"}
          /\ ReplayAOF(snap, Append(f, e)) = ReplayEntry(ReplayAOF(snap, f), e)
      BY <1>3, <2>8, <3>1, ExactLast
    <3>3. ReplayAOF(snap, f) = db /\ Recovered' = ReplayEntry(db, e)
      BY <1>6, <2>1, <2>2, <2>8, <3>2
    <3>4. CASE e.form = "torn"
      <4>1. ReplayEntry(db, e) = db
        BY <3>4 DEF ReplayEntry
      <4> QED
        BY <1>2, <1>7, <3>3, <4>1
    <3>5. CASE e.form = e0.form /\ e.cmd = e0.cmd
      <4>1. e.form = e0.form /\ e.cmd = e0.cmd /\ e0.form = "good"
        BY <2>1, <2>4, <3>5
      <4>2. ReplayEntry(db, e) = ReplayEntry(db, e0)
        BY <4>1 DEF ReplayEntry
      <4>3. Exact(aof)
        BY <1>3, <2>5, <2>8, <3>1, <4>1, ExactEnd
      <4>4. Recovered = ReplayEntry(db, e0)
        BY <1>6, <2>4, <2>5, <3>3, <4>3, ExactLast
      <4>5. Recovered = Apply(db, cmd[c])
        BY <1>9, <4>3 DEF FilesMatch, Recovers
      <4>6. Recovered \in AllowedAfterCrash
        BY <1>9, <4>5 DEF AllowedAfterCrash
      <4> QED
        BY <1>2, <3>3, <4>2, <4>4, <4>6
    <3> QED
      BY <3>1, <3>2, <3>4, <3>5
  <2>9. CASE \E n \in synced..Len(aof) : log = SubSeq(aof, 1, n)
    <3>1. PICK n \in synced..Len(aof) : log = SubSeq(aof, 1, n)
      BY <2>9
    <3>2. n = Len(aof) \/ n = Len(aof) - 1
      BY <1>1, <2>1
    <3> QED
      BY <1>4, <2>3, <2>6, <2>7, <3>1, <3>2
  <2>10. CASE \E n \in (synced + 1)..Len(aof) : \E e \in Remains(aof[n]) :
                log = Append(SubSeq(aof, 1, n - 1), e)
    <3>1. (synced + 1)..Len(aof) = {Len(aof)}
      BY <1>1, <2>1
    <3>2. PICK e \in Remains(aof[Len(aof)]) : log = Append(SubSeq(aof, 1, Len(aof) - 1), e)
      BY <2>10, <3>1
    <3> QED
      BY <2>3, <2>4, <2>8, <3>2
  <2> QED
    BY <1>5, <2>9, <2>10
<1> QED
  BY <1>8, <1>9

(***************************************************************************)
(* Every step keeps the synced part of the log in line with the store.     *)
(***************************************************************************)
LEMMA NextSyncedKept ==
  ASSUME Fsync = "always", Running, Undisturbed, FilesKept, SyncedKept, [Next]_vars
  PROVE  SyncedKept'
<1> SUFFICES ASSUME ~strayed' PROVE SyncedMatch'
  BY DEF SyncedKept
<1>1. ~strayed => OthersIdle /\ FilesMatch /\ SyncedMatch
  BY DEF FilesKept, SyncedKept
<1>2. /\ None # Saver /\ RespClients \subseteq Clients
      /\ \A x \in RespClients : pc[x] # "idle" <=> persistMu = x
      /\ saving # "idle" <=> persistMu = Saver
      /\ \A x \in RespClients : x # None /\ x # Saver
      /\ ~up => persistMu = None /\ synced = Len(aof)
  BY PersistenceAssumption DEF Running, TypeOK, Clients, None, Saver
<1>3. CASE Restart
  <2>1. ~up /\ up' /\ pc' = pc /\ aof' = aof /\ synced' = synced
    BY <1>3 DEF Restart
  <2>2. synced' = Len(aof') /\ \A x \in RespClients : pc[x] = "idle"
    BY <1>2, <2>1
  <2> QED
    BY <2>1, <2>2 DEF SyncedMatch
<1>4. CASE SaveReset
  <2>1. up' /\ saving = "renamed" /\ pc' = pc /\ aof' = <<>> /\ synced' = 0
    BY <1>4 DEF SaveReset
  <2>2. synced' = Len(aof') /\ \A x \in RespClients : pc[x] = "idle"
    BY <1>2, <2>1
  <2> QED
    BY <2>1, <2>2 DEF SyncedMatch
<1>5. CASE ~strayed /\ UNCHANGED vars
  <2>1. Recovered' = Recovered
    BY <1>5 DEF vars, Recovered
  <2> QED
    BY <1>1, <1>5, <2>1 DEF vars, SyncedMatch
<1>6. CASE ~strayed /\ (SaveDump \/ SaveRename)
  <2>1. /\ persistMu = None \/ persistMu = Saver
        /\ up /\ up' = up /\ pc' = pc /\ aof' = aof /\ synced' = synced
    BY <1>2, <1>6 DEF SaveDump, SaveRename
  <2>2. \A x \in RespClients : pc[x] = "idle"
    BY <1>2, <2>1
  <2>3. synced = Len(aof)
    BY <1>1, <1>6, <2>2 DEF SyncedMatch
  <2> QED
    BY <2>1, <2>2, <2>3 DEF SyncedMatch
<1>7. CASE ~strayed /\ Crash
  <2>1. ~split' /\ Exact(aof') => Recovered' \in allowed'
    BY <1>1, <1>7, CrashAllowed
  <2>2. synced' = Len(aof') /\ pc' = [x \in Clients |-> "idle"]
    BY <1>7 DEF Crash
  <2>3. \A x \in RespClients : pc'[x] = "idle"
    BY <1>2, <2>2
  <2> QED
    BY <2>1, <2>2, <2>3 DEF SyncedMatch
<1>8. CASE ~strayed /\ \E c \in RespClients :
             \/ \E op \in RespOps : RespLogs(c, op)
             \/ RespApplies(c) \/ RespAppliesFirst(c) \/ RespLogsAfter(c)
  BY <1>1, <1>8, RespSynced
<1> QED
  BY <1>1, <1>3, <1>4, <1>5, <1>6, <1>7, <1>8, KeptSteps

(***************************************************************************)
(* With --appendfsync always: after a crash at any point but between a     *)
(* snapshot's rename and the truncation of the log, whatever part of the   *)
(* last line it leaves, a restart brings back the store the clients saw,   *)
(* with or without the one command that had no reply yet, unless an entry  *)
(* of the log is misread or an HTTP write, a BLPOP or a FLUSHDB was begun  *)
(* since the last restart or undisturbed snapshot.                         *)
(***************************************************************************)
THEOREM AnsweredWritesSurvive ==
  ASSUME Fsync = "always"
  PROVE  Spec => RestartKeepsAnswered
<1> DEFINE Ind == Running /\ Undisturbed /\ FilesKept /\ SyncedKept
<1>1. Ind /\ [Next]_vars => Ind'
  BY NextRunning, NextUndisturbed, NextFilesKept, NextSyncedKept
<1>2. Init => Ind
  <2> SUFFICES ASSUME Init PROVE SyncedMatch
    BY InitFilesKept DEF FilesKept, SyncedKept
  <2>1. \A c \in RespClients : pc[c] = "idle"
    BY DEF Init, Clients
  <2> QED
    BY <2>1 DEF Init, SyncedMatch
<1>3. Ind /\ [Next]_vars =>
        [(~up /\ up' /\ ~split /\ ~strayed /\ Exact(aof)) => db' \in allowed]_vars
  <2> SUFFICES ASSUME Ind, Next, ~up, up', ~split, ~strayed, Exact(aof) PROVE db' \in allowed
    OBVIOUS
  <2>1. Restart
    <3>1. ASSUME NEW c \in RespClients
          PROVE  ~(\/ \E op \in RespOps : RespLogs(c, op)
                   \/ RespApplies(c) \/ RespAppliesFirst(c) \/ RespLogsAfter(c) \/ RespFlushes(c))
      BY DEF RespLogs, RespApplies, RespAppliesFirst, RespLogsAfter, RespFlushes, Start
    <3>2. ASSUME NEW c \in HttpClients
          PROVE  ~((\E op \in HttpOps : persistWrite(c, op)) \/ HttpApplies(c))
      BY DEF persistWrite, HttpApplies, Start
    <3>3. ASSUME NEW c \in BlockClients
          PROVE  ~(BlpopTakes(c) \/ BlpopLogs(c))
      BY DEF BlpopTakes, BlpopLogs, Start
    <3>4. ~SaveDump /\ ~SaveRename /\ ~SaveReset /\ ~Crash
      BY DEF SaveDump, SaveRename, SaveReset, Crash
    <3> QED
      BY <3>1, <3>2, <3>3, <3>4 DEF Next
  <2>2. db' = Recovered
    BY <2>1 DEF Restart
  <2> QED
    BY <2>2 DEF SyncedKept, SyncedMatch
<1> HIDE DEF Ind
<1> QED
  BY <1>1, <1>2, <1>3, PTL DEF Spec, RestartKeepsAnswered
=============================================================================
