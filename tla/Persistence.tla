----------------------------- MODULE Persistence -----------------------------
(***************************************************************************)
(* Durability of Vole: the in-memory store, the append-only file, the      *)
(* snapshot file, the mutex persistMu, and what a restart recovers         *)
(* (internal/server: aof.go, snapshot.go, the write handlers of server.go  *)
(* and http.go).                                                           *)
(*                                                                         *)
(* The store is abstracted to one integer key (num, 0 when absent) and one *)
(* list key, enough to tell idempotent writes from repeated ones and to    *)
(* see in which order writes were applied.  The number is written without  *)
(* escapes; the elements of the list are any strings, told apart by what   *)
(* the log makes of them (Values).  Three kinds of client differ in how    *)
(* they pair the log with the store:                                       *)
(*   RespClients   hold persistMu over both, logging before or after the   *)
(*                 store is changed;                                       *)
(*   HttpClients   log under persistMu, release it, then change the store; *)
(*   BlockClients  (BLPOP) change the store, then log under persistMu.     *)
(***************************************************************************)
EXTENDS Integers, Sequences, FiniteSets, SequencesExt

CONSTANTS RespClients, HttpClients, BlockClients,
          RespOps,       \* commands RESP clients send
          HttpOps,       \* requests HTTP clients send
          Values,        \* what LPUSH is given: a "plain" value, one with a backslash
                         \* before a t or an n ("escape"), one beyond 64 KiB ("long")
          Features,      \* which of "save", "torn" can happen
          Fsync,         \* --appendfsync: "always", "everysec" or "no"
          MaxCmds,       \* bound: commands started in a behaviour
          MaxCrashes     \* bound: crashes in a behaviour

ASSUME PersistenceAssumption ==
  /\ RespOps \subseteq {"SET", "SETNX", "INCR", "LPUSH", "LPOP", "FLUSHDB"}
  /\ HttpOps \subseteq {"SET", "SETNX", "INCR", "FLUSHDB"}
  /\ {"plain"} \subseteq Values /\ Values \subseteq {"plain", "escape", "long"}
  /\ Features \subseteq {"save", "torn"}
  /\ Fsync \in {"always", "everysec", "no"}
  /\ MaxCmds \in Nat /\ MaxCrashes \in Nat
  /\ RespClients \cap (HttpClients \cup BlockClients) = {} /\ HttpClients \cap BlockClients = {}
  /\ {"none", "saver"} \cap RespClients = {}

Clients == RespClients \cup HttpClients \cup BlockClients
None == "none"
Saver == "saver"

VARIABLES
  db,          \* the store in memory
  aof,         \* entries written to the append-only file; the next one continues
               \* the line of an entry that has not ended
  synced,      \* how many of them an fsync has made durable
  snap,        \* the snapshot file
  tmp,         \* the dump written to the temporary snapshot file
  persistMu,   \* holder of Server.persistMu
  pc,          \* progress of each client's command
  cmd,         \* the command of each client
  saving,      \* progress of saveSnapshot: "idle", "dumped", "renamed"
  up,          \* the process is running
  cmds,        \* commands started so far
  crashes,     \* crashes so far
  allowed,     \* history: the stores a client may expect after the crash
  split,       \* history: the last crash fell between rename and truncation
  calm,        \* history: no HTTP write or BLPOP under way since the last dump
  strayed      \* history: an HTTP write, a BLPOP or a FLUSHDB was begun since the
               \* last restart or calm snapshot

vars == <<db, aof, synced, snap, tmp, persistMu, pc, cmd, saving, up, cmds,
          crashes, allowed, split, calm, strayed>>

Empty == [num |-> 0, list |-> <<>>]
NoCmd == [op |-> None, arg |-> 0, val |-> "plain"]
Stores == [num : Int, list : Seq(Int)]
Commands == [op : RespOps \cup HttpOps \cup {"LPOP", "SETABS", None}, arg : Int, val : Values]
Entries == [cmd : Commands, form : {"good", "cut", "extra", "torn"}, ended : BOOLEAN]

(***************************************************************************)
(* Types; and persistMu is held exactly by whoever is inside a section it  *)
(* protects.                                                               *)
(***************************************************************************)
TypeOK ==
  /\ db \in Stores /\ snap \in Stores /\ tmp \in Stores
  /\ aof \in Seq(Entries)
  /\ synced \in 0..Len(aof)
  /\ persistMu \in RespClients \cup {None, Saver}
  /\ pc \in [Clients -> {"idle", "appended", "applied", "logged", "popped"}]
  /\ cmd \in [Clients -> Commands]
  /\ saving \in {"idle", "dumped", "renamed"}
  /\ up \in BOOLEAN
  /\ cmds \in 0..MaxCmds /\ crashes \in 0..MaxCrashes /\ split \in BOOLEAN /\ calm \in BOOLEAN
  /\ strayed \in BOOLEAN
  /\ \A c \in RespClients : pc[c] # "idle" <=> persistMu = c
  /\ saving # "idle" <=> persistMu = Saver

Init ==
  /\ db = Empty /\ aof = <<>> /\ synced = 0 /\ snap = Empty /\ tmp = Empty
  /\ persistMu = None
  /\ pc = [c \in Clients |-> "idle"]
  /\ cmd = [c \in Clients |-> NoCmd]
  /\ saving = "idle" /\ up = TRUE /\ cmds = 0 /\ crashes = 0
  /\ allowed = {Empty} /\ split = FALSE /\ calm = TRUE /\ strayed = FALSE

-----------------------------------------------------------------------------
(***************************************************************************)
(* What a command does to the store.                                       *)
(***************************************************************************)
Apply(d, c) ==
  CASE c.op \in {"SET", "SETABS"} -> [d EXCEPT !.num = c.arg]
    [] c.op = "SETNX" -> IF d.num = 0 THEN [d EXCEPT !.num = c.arg] ELSE d
    [] c.op = "INCR" -> [d EXCEPT !.num = @ + 1]
    [] c.op = "LPUSH" -> [d EXCEPT !.list = <<c.arg>> \o @]
    [] c.op = "LPOP" -> IF d.list = <<>> THEN d ELSE [d EXCEPT !.list = Tail(@)]
    [] c.op = "FLUSHDB" -> Empty

(***************************************************************************)
(* What ReplayAOF does with a line.  Its SET case looks at EX and PX only, *)
(* so an NX is forgotten, and it has no FLUSHDB case.  Without a whole     *)
(* checksum a line passes as one in the old format: cut inside its last    *)
(* argument it is taken with what is left of that ("cut"), cut inside the  *)
(* checksum with one argument more ("extra", which only LPUSH takes); the  *)
(* other parts of a line do nothing to the two keys ("torn").  And         *)
(* unescapeLine undoes the escapes in the wrong order, so a value with a   *)
(* backslash before a t or an n comes back as another one.                 *)
(***************************************************************************)
Garbled == -(MaxCmds + 1)

ReplayEntry(d, e) ==
  LET taken == e.form # "torn" /\ e.cmd.op # "FLUSHDB"
      arg == IF e.form = "cut" \/ e.cmd.val = "escape" THEN Garbled ELSE e.cmd.arg
  IN  CASE ~taken -> d
        [] taken /\ e.cmd.op = "SETNX" -> [d EXCEPT !.num = arg]
        [] taken /\ e.cmd.op = "LPUSH" /\ e.form = "extra" ->
             [d EXCEPT !.list = <<Garbled, arg>> \o @]
        [] OTHER -> Apply(d, [e.cmd EXCEPT !.arg = arg])

(***************************************************************************)
(* The entry shares a line with another one: the checksum at the end fits  *)
(* neither, and replay skips both.                                         *)
(***************************************************************************)
Joined(log, i) == (i > 1 /\ ~log[i - 1].ended) \/ (i < Len(log) /\ ~log[i].ended)

ReplayAOF(d, log) ==
  LET store[i \in 0..Len(log)] ==
        IF i = 0 THEN d
        ELSE IF Joined(log, i) THEN store[i - 1]
        ELSE ReplayEntry(store[i - 1], log[i])
  IN  store[Len(log)]

(***************************************************************************)
(* A line beyond the scanner's buffer ends the replay with an error, and   *)
(* the server does not start.                                              *)
(***************************************************************************)
Readable(log) == \A i \in 1..Len(log) : log[i].cmd.val # "long"

Recovered == ReplayAOF(snap, aof)

Appended(log, c) == Append(log, [cmd |-> c, form |-> "good", ended |-> TRUE])

(***************************************************************************)
(* The entry RESP handlers log: SET and a successful SETNX as SETABS.      *)
(***************************************************************************)
LogForm(c) == IF c.op \in {"SET", "SETNX"} THEN [c EXCEPT !.op = "SETABS"] ELSE c

(***************************************************************************)
(* The end of Append: "always" syncs the file, "everysec" when the last    *)
(* sync is a second old, "no" leaves it to the operating system, which may *)
(* write the file at any time.                                             *)
(***************************************************************************)
\* Mutant of SyncedAfter: "always" forgets to sync.
NeverSynced(log) == {synced}

SyncedAfter(log) == IF Fsync = "always" THEN {Len(log)} ELSE {synced, Len(log)}

AppendAndSync(c) ==
  /\ aof' = Appended(aof, c)
  /\ synced' \in SyncedAfter(aof')

ValuesOf(op) == IF op = "LPUSH" THEN Values ELSE {"plain"}

Start(c, op) ==
  /\ up /\ cmds < MaxCmds /\ pc[c] = "idle"
  /\ cmds' = cmds + 1
  /\ \E v \in ValuesOf(op) : cmd' = [cmd EXCEPT ![c] = [op |-> op, arg |-> cmds + 1, val |-> v]]

-----------------------------------------------------------------------------
(***************************************************************************)
(* RESP write handlers that log first (SET, INCR, LPUSH, LPOP): lock, then *)
(* write the entry; then sync it, change the store, reply and unlock.      *)
(* LPOP of a missing list returns before logging.                          *)
(***************************************************************************)
RespLogs(c, op) ==
  /\ op \in {"SET", "INCR", "LPUSH", "LPOP"}
  /\ op = "LPOP" => db.list # <<>>
  /\ Start(c, op)
  /\ persistMu = None /\ persistMu' = c
  /\ aof' = Appended(aof, LogForm(cmd'[c]))
  /\ pc' = [pc EXCEPT ![c] = "appended"]
  /\ UNCHANGED <<db, synced, snap, tmp, saving, up, crashes, allowed, split, calm, strayed>>

RespApplies(c) ==
  /\ up /\ pc[c] = "appended"
  /\ synced' \in SyncedAfter(aof)
  /\ db' = Apply(db, cmd[c])
  /\ persistMu' = None
  /\ pc' = [pc EXCEPT ![c] = "idle"]
  /\ UNCHANGED <<aof, snap, tmp, cmd, saving, up, cmds, crashes, allowed, split, calm, strayed>>

(***************************************************************************)
(* RESP handlers that change the store first (SET NX, also ENQUEUE and     *)
(* LMOVE): a refused SETNX logs nothing.                                   *)
(***************************************************************************)
RespAppliesFirst(c) ==
  /\ "SETNX" \in RespOps
  /\ Start(c, "SETNX")
  /\ persistMu = None
  /\ IF db.num # 0
     THEN UNCHANGED <<db, persistMu, pc>>
     ELSE /\ db' = Apply(db, cmd'[c])
          /\ persistMu' = c
          /\ pc' = [pc EXCEPT ![c] = "applied"]
  /\ UNCHANGED <<aof, synced, snap, tmp, saving, up, crashes, allowed, split, calm, strayed>>

RespLogsAfter(c) ==
  /\ up /\ pc[c] = "applied"
  /\ AppendAndSync(LogForm(cmd[c]))
  /\ persistMu' = None
  /\ pc' = [pc EXCEPT ![c] = "idle"]
  /\ UNCHANGED <<db, snap, tmp, cmd, saving, up, cmds, crashes, allowed, split, calm, strayed>>

(***************************************************************************)
(* FLUSHDB of a RESP client: empty the store, truncate the log, leave the  *)
(* snapshot file alone.                                                    *)
(***************************************************************************)
RespFlushes(c) ==
  /\ "FLUSHDB" \in RespOps
  /\ Start(c, "FLUSHDB")
  /\ persistMu = None
  /\ db' = Empty
  /\ aof' = <<>> /\ synced' = 0
  /\ strayed' = TRUE
  /\ UNCHANGED <<snap, tmp, persistMu, pc, saving, up, crashes, allowed, split, calm>>

(***************************************************************************)
(* HTTP handlers: persistWrite, and then, without the lock, the store.     *)
(***************************************************************************)
persistWrite(c, op) ==
  /\ Start(c, op)
  /\ persistMu = None
  /\ AppendAndSync(cmd'[c])
  /\ pc' = [pc EXCEPT ![c] = "logged"]
  /\ strayed' = TRUE
  /\ UNCHANGED <<db, snap, tmp, persistMu, saving, up, crashes, allowed, split, calm>>

HttpApplies(c) ==
  /\ up /\ pc[c] = "logged"
  /\ db' = Apply(db, cmd[c])
  /\ pc' = [pc EXCEPT ![c] = "idle"]
  /\ UNCHANGED <<aof, synced, snap, tmp, persistMu, cmd, saving, up, cmds,
                 crashes, allowed, split, calm, strayed>>

(***************************************************************************)
(* BLPOP: BPop takes the element, later the handler logs an LPOP.          *)
(***************************************************************************)
BlpopTakes(c) ==
  /\ db.list # <<>>
  /\ Start(c, "LPOP")
  /\ db' = Apply(db, cmd'[c])
  /\ pc' = [pc EXCEPT ![c] = "popped"]
  /\ calm' = FALSE
  /\ strayed' = TRUE
  /\ UNCHANGED <<aof, synced, snap, tmp, persistMu, saving, up, crashes, allowed, split>>

BlpopLogs(c) ==
  /\ up /\ pc[c] = "popped"
  /\ persistMu = None
  /\ AppendAndSync(cmd[c])
  /\ pc' = [pc EXCEPT ![c] = "idle"]
  /\ UNCHANGED <<db, snap, tmp, persistMu, cmd, saving, up, cmds, crashes, allowed, split, calm,
                 strayed>>

-----------------------------------------------------------------------------
(***************************************************************************)
(* saveSnapshot (SAVE, BGSAVE, the snapshot loop, shutdown): under         *)
(* persistMu dump to a temporary file and sync it, rename it over the      *)
(* snapshot, truncate the log.                                             *)
(***************************************************************************)
\* Mutant of SaveDump: the log is truncated before the snapshot is in place.
SaveDumpTruncates ==
  /\ "save" \in Features
  /\ up /\ persistMu = None /\ persistMu' = Saver
  /\ tmp' = db /\ aof' = <<>> /\ synced' = 0
  /\ saving' = "dumped"
  /\ calm' = \A c \in HttpClients \cup BlockClients : pc[c] = "idle"
  /\ UNCHANGED <<db, snap, pc, cmd, up, cmds, crashes, allowed, split, strayed>>

SaveDump ==
  /\ "save" \in Features
  /\ up /\ persistMu = None /\ persistMu' = Saver
  /\ tmp' = db
  /\ saving' = "dumped"
  /\ calm' = \A c \in HttpClients \cup BlockClients : pc[c] = "idle"
  /\ UNCHANGED <<db, aof, synced, snap, pc, cmd, up, cmds, crashes, allowed, split, strayed>>

SaveRename ==
  /\ up /\ saving = "dumped"
  /\ snap' = tmp
  /\ saving' = "renamed"
  /\ UNCHANGED <<db, aof, synced, tmp, persistMu, pc, cmd, up, cmds, crashes, allowed, split,
                 calm, strayed>>

\* Mutant of SaveReset: damaged lines stay in the log.
SaveKeepsDamaged ==
  LET Damaged(e) == e.form # "good"
  IN  /\ up /\ saving = "renamed"
      /\ aof' = SelectSeq(aof, Damaged) /\ synced' = Len(aof')
      /\ persistMu' = None
      /\ saving' = "idle"
      /\ strayed' = (strayed /\ ~calm)
      /\ UNCHANGED <<db, snap, tmp, pc, cmd, up, cmds, crashes, allowed, split, calm>>

SaveReset ==
  /\ up /\ saving = "renamed"
  /\ aof' = <<>> /\ synced' = 0
  /\ persistMu' = None
  /\ saving' = "idle"
  /\ strayed' = (strayed /\ ~calm)
  /\ UNCHANGED <<db, snap, tmp, pc, cmd, up, cmds, crashes, allowed, split, calm>>

-----------------------------------------------------------------------------
(***************************************************************************)
(* The machine stops.  Entries that were not synced may be missing from    *)
(* the file, and of the last one that is there only a part may be: all but *)
(* the newline or the checksum, a part of the checksum too, a part of the  *)
(* last argument (of a long one perhaps so little that it can be read), or *)
(* what does nothing to the two keys (a SETABS with a field too few or too *)
(* many, a part of a key's name, which names another key).                 *)
(***************************************************************************)
Remains(e) ==
  {[e EXCEPT !.ended = FALSE],
   [e EXCEPT !.form = "torn", !.ended = FALSE, !.cmd.val = "plain"]}
  \cup {[e EXCEPT !.form = "cut", !.ended = FALSE, !.cmd.val = "plain"] :
          op \in {"SET", "SETNX", "LPUSH"} \cap {e.cmd.op}}
  \cup {[e EXCEPT !.form = "extra", !.ended = FALSE] : op \in {"LPUSH"} \cap {e.cmd.op}}

LogsAfterCrash ==
  LET Kept == {SubSeq(aof, 1, n) : n \in synced..Len(aof)}
  IN  Kept \cup IF "torn" \in Features
                THEN UNION {{Append(Front(log), e) : e \in Remains(Last(log))} :
                              log \in {l \in Kept : Len(l) > synced}}
                ELSE {}

(***************************************************************************)
(* What RESP clients may find after a restart: the store with or without   *)
(* the command that had no reply yet, which is still to be applied or (a   *)
(* SETNX, so num was absent) has been applied already.                     *)
(***************************************************************************)
AllowedAfterCrash ==
  {db} \cup {Apply(db, cmd[c]) : c \in {r \in RespClients : pc[r] = "appended"}}
       \cup {[db EXCEPT !.num = 0] : c \in {r \in RespClients : pc[r] = "applied"}}

Crash ==
  /\ up /\ crashes < MaxCrashes
  /\ crashes' = crashes + 1
  /\ up' = FALSE
  /\ \E log \in LogsAfterCrash : aof' = log /\ synced' = Len(log)
  /\ allowed' = AllowedAfterCrash
  /\ split' = (saving = "renamed")
  /\ db' = Empty /\ persistMu' = None /\ saving' = "idle"
  /\ pc' = [c \in Clients |-> "idle"]
  /\ cmd' = [c \in Clients |-> NoCmd]
  /\ UNCHANGED <<snap, tmp, cmds, calm, strayed>>

(***************************************************************************)
(* NewWithOptions: LoadSnapshot, ReplayAOF, OpenAOF (which appends to the  *)
(* file as it is).  With a log that cannot be read it fails, every time.   *)
(***************************************************************************)
Restart ==
  /\ ~up /\ Readable(aof)
  /\ up' = TRUE
  /\ db' = Recovered
  /\ strayed' = FALSE
  /\ UNCHANGED <<aof, synced, snap, tmp, persistMu, pc, cmd, saving, cmds,
                 crashes, allowed, split, calm>>

Next ==
  \/ \E c \in RespClients :
       \/ \E op \in RespOps : RespLogs(c, op)
       \/ RespApplies(c) \/ RespAppliesFirst(c) \/ RespLogsAfter(c) \/ RespFlushes(c)
  \/ \E c \in HttpClients :
       (\E op \in HttpOps : persistWrite(c, op)) \/ HttpApplies(c)
  \/ \E c \in BlockClients : BlpopTakes(c) \/ BlpopLogs(c)
  \/ SaveDump \/ SaveRename \/ SaveReset
  \/ Crash \/ Restart

Spec == Init /\ [][Next]_vars

-----------------------------------------------------------------------------
Quiet == up /\ \A c \in Clients : pc[c] = "idle"

(***************************************************************************)
(* The entries replay takes for something else than what was written, the  *)
(* four ways the format has of losing one: two entries in one line, a line *)
(* cut short that passes for a whole one, a line too long to be read, and  *)
(* an escape that is not undone.                                           *)
(***************************************************************************)
Misread(log, i) ==
  \/ Joined(log, i)
  \/ log[i].form \in {"cut", "extra"}
  \/ log[i].cmd.val = "long"
  \/ log[i].cmd.val = "escape" /\ log[i].form = "good"

Exact(log) == \A i \in 1..Len(log) : ~Misread(log, i)

(***************************************************************************)
(* "Your data survives restarts": when no command is in progress and no    *)
(* entry of the log is misread, a restart would recover exactly the store  *)
(* in memory, also halfway through the three steps of a snapshot except    *)
(* between its last two.  An HTTP write, a BLPOP and a FLUSHDB leave log   *)
(* and store apart (they pair the two outside persistMu, or leave the      *)
(* snapshot behind); the claim holds up to the first of them and again     *)
(* from the restart or the calm snapshot that follows.                     *)
(***************************************************************************)
DiskAgrees == (Quiet /\ ~strayed /\ saving # "renamed" /\ Exact(aof)) => Recovered = db

(***************************************************************************)
(* After a crash at any point but one a restart brings back the store the  *)
(* clients saw, with or without the command that had not been answered,    *)
(* also if the crash left a part of its line, unless the log holds an      *)
(* entry that is misread.  The other exceptions are a crash between a      *)
(* snapshot's rename and the truncation of the log, and one after an HTTP  *)
(* write, a BLPOP or a FLUSHDB that no snapshot has made good.             *)
(***************************************************************************)
RestartKeepsAnswered ==
  [][(~up /\ up' /\ ~split /\ ~strayed /\ Exact(aof)) => db' \in allowed]_vars

(***************************************************************************)
(* "Your data survives restarts" (README.md), without the exception.       *)
(***************************************************************************)
SurvivesRestarts == [][(~up /\ up') => db' \in allowed]_vars

(***************************************************************************)
(* Whatever HTTP writes, blocking pops, flushes and damaged entries did to *)
(* the log before, a snapshot during which none of them was under way      *)
(* makes the files agree with the store again (saveSnapshot holds          *)
(* persistMu from the dump to the truncation).                             *)
(***************************************************************************)
SaveEnds == saving = "renamed" /\ saving' = "idle" /\ up'

SaveHeals == [][SaveEnds /\ calm => Recovered' = db']_vars

(***************************************************************************)
(* Types and the holder of persistMu, and files that agree with the store. *)
(***************************************************************************)
Inv == TypeOK /\ DiskAgrees
=============================================================================
