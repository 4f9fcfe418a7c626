----------------------------- MODULE Replication -----------------------------
(***************************************************************************)
(* Leader-follower replication (internal/server/replication.go and the     *)
(* end of handleConn in server.go): one leader, its client connections,    *)
(* one follower, and the connections between the two.                      *)
(*                                                                         *)
(* A store is one integer (0 when the key is absent).  A connection        *)
(* delivers what was written to it in order until it breaks.  The          *)
(* follower runs one followLoop goroutine per REPLICAOF; a cancelled one   *)
(* stops only where it looks at its context.                               *)
(***************************************************************************)
EXTENDS Integers, Sequences, FiniteSets, SequencesExt

CONSTANTS Clients,           \* client connections of the leader
          Ops,               \* the commands clients send
          Features,          \* which of "multi", "stop", "local" can happen
          WritesDuringSync,  \* whether clients write while a follower connects
          MaxWrites,         \* bound: commands executed in a behaviour
          MaxLoops,          \* bound: REPLICAOF commands that start a followLoop
          MaxBreaks,         \* bound: connections dropped
          MaxConns           \* bound: connections made

ASSUME ReplicationAssumption ==
  /\ Ops \subseteq {"SET", "SETNX", "INCR", "MSET", "FLUSHDB"}
  /\ Features \subseteq {"multi", "stop", "local"}
  /\ WritesDuringSync \in BOOLEAN
  /\ MaxWrites \in Nat /\ MaxLoops \in Nat /\ MaxBreaks \in Nat /\ MaxConns \in Nat

Loops == 1..MaxLoops
Conns == 1..MaxConns
NoCmd == [op |-> "none", id |-> 0]

VARIABLES
  leaderDB, followerDB,   \* the two stores
  pc,          \* a leader connection: "idle", "executed" or "sending"
  cmd,         \* its command
  targets,     \* the replicas it is still to be sent to
  serve,       \* the leader's side of a connection to the follower
  open,        \* connections that are up
  stream,      \* what is on its way to the follower
  role,        \* ReplicationState.role of the follower
  loop,        \* each followLoop: "off", "dial", "await", "stream" or "done"
  conn,        \* its connection
  cancelled,   \* followLoops whose context is cancelled
  writes, loops, breaks, conns,   \* what the bounds count
  late,        \* history: messages each followLoop took in after its cancellation
  sent         \* history: the writes put on each connection and whose they were

leaderVars == <<leaderDB, pc, cmd, targets>>
linkVars == <<serve, open, stream, sent>>
followerVars == <<followerDB, role, loop, conn, cancelled, late>>
countVars == <<writes, loops, breaks, conns>>
vars == <<leaderVars, linkVars, followerVars, countVars>>

Commands == [op : Ops \cup {"none"}, id : 0..MaxWrites]
Messages == [kind : {"snapshot"}, value : Nat] \cup [kind : {"command"}, value : Commands]

(***************************************************************************)
(* A write that was put on a connection: whose it was, and its number.     *)
(***************************************************************************)
SentWrites == [by : Clients, id : 1..MaxWrites]

(***************************************************************************)
(* Types; and a followLoop that has a connection is the only one on it.    *)
(***************************************************************************)
TypeOK ==
  /\ leaderDB \in Nat /\ followerDB \in Nat
  /\ pc \in [Clients -> {"idle", "executed", "sending"}]
  /\ cmd \in [Clients -> Commands]
  /\ targets \in [Clients -> SUBSET Conns]
  /\ serve \in [Conns -> {"none", "asked", "dumped", "registered", "gone"}]
  /\ open \subseteq Conns
  /\ stream \in [Conns -> Seq(Messages)]
  /\ role \in {"master", "replica"}
  /\ loop \in [Loops -> {"off", "dial", "await", "stream", "done"}]
  /\ conn \in [Loops -> 0..MaxConns]
  /\ cancelled \subseteq Loops
  /\ writes \in 0..MaxWrites /\ loops \in 0..MaxLoops
  /\ breaks \in 0..MaxBreaks /\ conns \in 0..MaxConns
  /\ late \in [Loops -> Nat]
  /\ sent \in [Conns -> Seq(SentWrites)]
  /\ \A g, h \in Loops : (conn[g] # 0 /\ conn[g] = conn[h]) => g = h
  /\ \A g \in Loops : loop[g] \in {"await", "stream"} <=> conn[g] # 0

Init ==
  /\ leaderDB = 0 /\ followerDB = 0
  /\ pc = [c \in Clients |-> "idle"]
  /\ cmd = [c \in Clients |-> NoCmd]
  /\ targets = [c \in Clients |-> {}]
  /\ serve = [k \in Conns |-> "none"]
  /\ open = {}
  /\ stream = [k \in Conns |-> <<>>]
  /\ role = "master"
  /\ loop = [g \in Loops |-> "off"]
  /\ conn = [g \in Loops |-> 0]
  /\ cancelled = {}
  /\ writes = 0 /\ loops = 0 /\ breaks = 0 /\ conns = 0
  /\ late = [g \in Loops |-> 0]
  /\ sent = [k \in Conns |-> <<>>]

-----------------------------------------------------------------------------
(***************************************************************************)
(* What a command does where it is executed; SETNX stands for SET ... NX.  *)
(***************************************************************************)
Execute(d, c) ==
  CASE c.op \in {"SET", "MSET"} -> c.id
    [] c.op = "SETNX" -> IF d = 0 THEN c.id ELSE d
    [] c.op = "INCR" -> d + 1
    [] c.op = "FLUSHDB" -> 0

(***************************************************************************)
(* What applyReplicatedCommand does with the raw command: the NX of a SET  *)
(* is not looked at, and MSET is not among its cases.                      *)
(***************************************************************************)
\* Mutant of applyReplicatedCommand: no case for INCR.
applyWithoutIncr(d, c) == IF c.op \in {"SET", "SETNX"} THEN c.id ELSE d

applyReplicatedCommand(d, c) ==
  CASE c.op \in {"SET", "SETNX"} -> c.id
    [] c.op = "INCR" -> d + 1
    [] OTHER -> d

(***************************************************************************)
(* FLUSHDB is not in the list of isWriteCommand.                           *)
(***************************************************************************)
isWriteCommand(op) == op # "FLUSHDB"

Handshaking == \E k \in Conns : serve[k] \in {"asked", "dumped"}

CountWrite ==
  /\ writes < MaxWrites
  /\ writes' = writes + 1
  /\ UNCHANGED <<loops, breaks, conns>>

(***************************************************************************)
(* handleConn: execute the command; a write command that returned without  *)
(* an error (a refused NX is none) is then propagated.                     *)
(***************************************************************************)
Exec(c, op) ==
  /\ pc[c] = "idle" /\ CountWrite
  /\ WritesDuringSync \/ ~Handshaking
  /\ cmd' = [cmd EXCEPT ![c] = [op |-> op, id |-> writes']]
  /\ leaderDB' = Execute(leaderDB, cmd'[c])
  /\ pc' = [pc EXCEPT ![c] = IF isWriteCommand(op) THEN "executed" ELSE "idle"]
  /\ UNCHANGED <<targets, linkVars, followerVars>>

(***************************************************************************)
(* EXEC runs its commands through exec and propagates none of them.        *)
(***************************************************************************)
execTransaction(c, op) ==
  /\ "multi" \in Features
  /\ pc[c] = "idle" /\ CountWrite
  /\ WritesDuringSync \/ ~Handshaking
  /\ leaderDB' = Execute(leaderDB, [op |-> op, id |-> writes'])
  /\ UNCHANGED <<pc, cmd, targets, linkVars, followerVars>>

(***************************************************************************)
(* PropagateToReplicas: copy the map of replicas under its lock, then      *)
(* write to one after the other; an error is logged and that is all.       *)
(***************************************************************************)
Registered == {k \in Conns : serve[k] = "registered"}

CopyReplicas(c) ==
  /\ pc[c] = "executed"
  /\ targets' = [targets EXCEPT ![c] = Registered]
  /\ pc' = [pc EXCEPT ![c] = IF Registered = {} THEN "idle" ELSE "sending"]
  /\ UNCHANGED <<leaderDB, cmd, linkVars, followerVars, countVars>>

\* Mutant of PropagateTo: a replica that got the command stays on the list.
PropagateAndKeep(c, k) ==
  /\ pc[c] = "sending" /\ k \in targets[c] /\ k \in open
  /\ stream' = [stream EXCEPT
                  ![k] = Append(@, [kind |-> "command", value |-> cmd[c]])]
  /\ sent' = [sent EXCEPT ![k] = Append(@, [by |-> c, id |-> cmd[c].id])]
  /\ UNCHANGED <<leaderDB, cmd, pc, targets, serve, open, followerVars, countVars>>

PropagateTo(c, k) ==
  /\ pc[c] = "sending" /\ k \in targets[c]
  /\ IF k \in open
     THEN /\ stream' = [stream EXCEPT
                          ![k] = Append(@, [kind |-> "command", value |-> cmd[c]])]
          /\ sent' = [sent EXCEPT ![k] = Append(@, [by |-> c, id |-> cmd[c].id])]
     ELSE UNCHANGED <<stream, sent>>
  /\ targets' = [targets EXCEPT ![c] = @ \ {k}]
  /\ pc' = [pc EXCEPT ![c] = IF targets[c] = {k} THEN "idle" ELSE "sending"]
  /\ UNCHANGED <<leaderDB, cmd, serve, open, followerVars, countVars>>

-----------------------------------------------------------------------------
(***************************************************************************)
(* handleReplSync: dump the store and send it, then register the replica.  *)
(***************************************************************************)
SendSnapshot(k) ==
  /\ serve[k] = "asked"
  /\ serve' = [serve EXCEPT ![k] = "dumped"]
  /\ stream' = [stream EXCEPT
       ![k] = IF k \in open THEN Append(@, [kind |-> "snapshot", value |-> leaderDB])
                            ELSE @]
  /\ UNCHANGED <<open, sent, leaderVars, followerVars, countVars>>

\* Mutant of AddReplica: registers before the snapshot is sent.
AddReplicaEarly(k) ==
  /\ serve[k] \in {"asked", "dumped"}
  /\ serve' = [serve EXCEPT ![k] = "registered"]
  /\ UNCHANGED <<open, stream, sent, leaderVars, followerVars, countVars>>

AddReplica(k) ==
  /\ serve[k] = "dumped"
  /\ serve' = [serve EXCEPT ![k] = "registered"]
  /\ UNCHANGED <<open, stream, sent, leaderVars, followerVars, countVars>>

(***************************************************************************)
(* A connection goes down: the network fails, or the leader has not read a *)
(* PING for 60 seconds (a follower kept busy by writes sends none).        *)
(***************************************************************************)
Break(k) ==
  /\ breaks < MaxBreaks /\ k \in open
  /\ breaks' = breaks + 1
  /\ open' = open \ {k}
  /\ UNCHANGED <<serve, stream, sent, leaderVars, followerVars, writes, loops, conns>>

(***************************************************************************)
(* The leader's read fails: the deferred RemoveReplica.                    *)
(***************************************************************************)
RemoveReplica(k) ==
  /\ serve[k] = "registered" /\ k \notin open
  /\ serve' = [serve EXCEPT ![k] = "gone"]
  /\ UNCHANGED <<open, stream, sent, leaderVars, followerVars, countVars>>

-----------------------------------------------------------------------------
(***************************************************************************)
(* REPLICAOF host port and REPLICAOF NO ONE: the previous followLoop is    *)
(* cancelled, not waited for.                                              *)
(***************************************************************************)
StartFollowing ==
  /\ loops < MaxLoops
  /\ loops' = loops + 1
  /\ role' = "replica"
  /\ cancelled' = cancelled \cup 1..loops
  /\ loop' = [loop EXCEPT ![loops + 1] = "dial"]
  /\ UNCHANGED <<leaderVars, linkVars, followerDB, conn, late,
                 writes, breaks, conns>>

StopFollowing ==
  /\ "stop" \in Features
  /\ role = "replica" /\ role' = "master"
  /\ cancelled' = cancelled \cup 1..loops
  /\ UNCHANGED <<leaderVars, linkVars, followerDB, loop, conn, late, countVars>>

(***************************************************************************)
(* The goroutine's own steps.  It looks at its context before it dials and *)
(* before it reads, so a read that is under way when the context is        *)
(* cancelled still loads or applies what it gets.                          *)
(***************************************************************************)
Dial(g) ==
  /\ loop[g] = "dial" /\ g \notin cancelled /\ conns < MaxConns
  /\ WritesDuringSync \/ \A c \in Clients : pc[c] = "idle"
  /\ conns' = conns + 1
  /\ open' = open \cup {conns + 1}
  /\ serve' = [serve EXCEPT ![conns + 1] = "asked"]
  /\ conn' = [conn EXCEPT ![g] = conns + 1]
  /\ loop' = [loop EXCEPT ![g] = "await"]
  /\ UNCHANGED <<stream, sent, leaderVars, followerDB, role, cancelled, late,
                 writes, loops, breaks>>

(***************************************************************************)
(* Go on after a message: to the next read, or out, closing the            *)
(* connection.                                                             *)
(***************************************************************************)
\* Mutant of ReadOn: the read loop does not look at its context.
ReadOnRegardless(g) ==
  /\ stream' = [stream EXCEPT ![conn[g]] = Tail(@)]
  /\ late' = [late EXCEPT ![g] = IF g \in cancelled THEN @ + 1 ELSE @]
  /\ loop' = [loop EXCEPT ![g] = "stream"]
  /\ UNCHANGED <<conn, open, serve, sent, leaderVars, role, cancelled, countVars>>

ReadOn(g) ==
  /\ stream' = [stream EXCEPT ![conn[g]] = Tail(@)]
  /\ late' = [late EXCEPT ![g] = IF g \in cancelled THEN @ + 1 ELSE @]
  /\ IF g \in cancelled
     THEN /\ loop' = [loop EXCEPT ![g] = "done"]
          /\ conn' = [conn EXCEPT ![g] = 0]
          /\ open' = open \ {conn[g]}
     ELSE /\ loop' = [loop EXCEPT ![g] = "stream"]
          /\ UNCHANGED <<conn, open>>
  /\ UNCHANGED <<serve, sent, leaderVars, role, cancelled, countVars>>

LoadSnapshot(g) ==
  /\ loop[g] = "await" /\ stream[conn[g]] # <<>>
  /\ Head(stream[conn[g]]).kind = "snapshot"
  /\ followerDB' = Head(stream[conn[g]]).value
  /\ ReadOn(g)

ApplyNext(g) ==
  /\ loop[g] = "stream" /\ stream[conn[g]] # <<>>
  /\ followerDB' = applyReplicatedCommand(followerDB, Head(stream[conn[g]]).value)
  /\ ReadOn(g)

(***************************************************************************)
(* The read ends without a message: the connection is down (retry, in five *)
(* seconds, unless cancelled), or its deadline passed and the context has  *)
(* been cancelled since.  A cancelled loop also ends where it would dial.  *)
(***************************************************************************)
\* Mutant of ReadFails: the loop does not retry.
ReadFailsForGood(g) ==
  /\ loop[g] \in {"await", "stream"} /\ conn[g] \notin open
  /\ conn' = [conn EXCEPT ![g] = 0]
  /\ loop' = [loop EXCEPT ![g] = "done"]
  /\ UNCHANGED <<open, serve, stream, sent, leaderVars, followerDB, role,
                 cancelled, late, countVars>>

ReadFails(g) ==
  /\ loop[g] \in {"await", "stream"}
  /\ \/ conn[g] \notin open
     \/ loop[g] = "stream" /\ g \in cancelled /\ stream[conn[g]] = <<>>
  /\ open' = open \ {conn[g]}
  /\ conn' = [conn EXCEPT ![g] = 0]
  /\ loop' = [loop EXCEPT ![g] = IF g \in cancelled THEN "done" ELSE "dial"]
  /\ UNCHANGED <<serve, stream, sent, leaderVars, followerDB, role, cancelled,
                 late, countVars>>

LoopEnds(g) ==
  /\ loop[g] = "dial" /\ g \in cancelled
  /\ loop' = [loop EXCEPT ![g] = "done"]
  /\ UNCHANGED <<leaderVars, linkVars, followerDB, role, conn, cancelled,
                 late, countVars>>

(***************************************************************************)
(* A client of the follower writes.  handleConn refuses write commands of  *)
(* a replica, but not those it queues for EXEC.                            *)
(***************************************************************************)
LocalWrite(op, inMulti) ==
  /\ "local" \in Features
  /\ role = "master" \/ inMulti \/ ~isWriteCommand(op)
  /\ CountWrite
  /\ followerDB' = Execute(followerDB, [op |-> op, id |-> writes'])
  /\ UNCHANGED <<leaderVars, linkVars, role, loop, conn, cancelled, late>>

Next ==
  \/ \E c \in Clients :
       \/ \E op \in Ops : Exec(c, op) \/ execTransaction(c, op)
       \/ CopyReplicas(c) \/ \E k \in Conns : PropagateTo(c, k)
  \/ \E k \in Conns : SendSnapshot(k) \/ AddReplica(k) \/ Break(k) \/ RemoveReplica(k)
  \/ StartFollowing \/ StopFollowing
  \/ \E g \in Loops :
       \/ Dial(g) \/ LoadSnapshot(g) \/ ApplyNext(g) \/ ReadFails(g) \/ LoopEnds(g)
  \/ \E op \in Ops, inMulti \in BOOLEAN : LocalWrite(op, inMulti)

Spec == Init /\ [][Next]_vars

(***************************************************************************)
(* Goroutines run: connections in the middle of a command finish it, both  *)
(* ends of a replication connection make progress, and a broken one is     *)
(* noticed.  Clients need not send anything and nothing need break.        *)
(***************************************************************************)
FairSpec ==
  /\ Spec
  /\ \A c \in Clients : WF_vars(CopyReplicas(c) \/ \E k \in Conns : PropagateTo(c, k))
  /\ \A k \in Conns : WF_vars(SendSnapshot(k) \/ AddReplica(k) \/ RemoveReplica(k))
  /\ \A g \in Loops :
       WF_vars(Dial(g) \/ LoadSnapshot(g) \/ ApplyNext(g) \/ ReadFails(g) \/ LoopEnds(g))

-----------------------------------------------------------------------------
(***************************************************************************)
(* The first thing a follower reads on a connection is the snapshot, never *)
(* a command that overtook it (which syncFromLeader would refuse), and the *)
(* snapshot comes only once.                                               *)
(***************************************************************************)
SnapshotFirst ==
  \A g \in Loops :
    /\ (loop[g] = "await" /\ stream[conn[g]] # <<>>)
         => Head(stream[conn[g]]).kind = "snapshot"
    /\ loop[g] = "stream" => \A i \in 1..Len(stream[conn[g]]) :
                                stream[conn[g]][i].kind = "command"

(***************************************************************************)
(* A command that has been executed and may still be written to k.         *)
(***************************************************************************)
ToCome(c, k) == pc[c] = "executed" \/ (pc[c] = "sending" /\ k \in targets[c])

(***************************************************************************)
(* PropagateToReplicas runs concurrently for several clients, each with a  *)
(* copy of the replica map.  Still no write is put on one connection       *)
(* twice, the writes of one client follow each other in the order in which *)
(* it issued them, and one that is still to come will come last of its     *)
(* client's.  (The writes of different clients may overtake each other.)   *)
(***************************************************************************)
SentOnceInOrder ==
  \A k \in Conns :
    /\ \A i, j \in 1..Len(sent[k]) : i < j =>
         /\ sent[k][i].id # sent[k][j].id
         /\ sent[k][i].by = sent[k][j].by => sent[k][i].id < sent[k][j].id
    /\ \A c \in Clients : ToCome(c, k) => \A i \in 1..Len(sent[k]) :
         /\ sent[k][i].id # cmd[c].id
         /\ sent[k][i].by = c => sent[k][i].id < cmd[c].id

(***************************************************************************)
(* REPLICAOF cancels the previous followLoop without waiting for it.  What *)
(* that loop can still do to the node's data, whatever connection it reads *)
(* and however the node is promoted or pointed elsewhere meanwhile, is     *)
(* bounded: it takes in one more snapshot or command, never a second one.  *)
(***************************************************************************)
OneLateMessage == \A g \in Loops : late[g] <= 1

(***************************************************************************)
(* The follower is connected, registered, and has nothing left to read.    *)
(***************************************************************************)
CaughtUp(g) ==
  /\ loop[g] = "stream" /\ g \notin cancelled
  /\ conn[g] \in open /\ serve[conn[g]] = "registered" /\ stream[conn[g]] = <<>>

(***************************************************************************)
(* "A follower connects, gets a full snapshot, then streams every write    *)
(* from the leader": when no command is under way and the follower has     *)
(* read everything, it holds what the leader holds.                        *)
(***************************************************************************)
InSync ==
  ((\A c \in Clients : pc[c] = "idle") /\ (\E g \in Loops : CaughtUp(g)))
    => followerDB = leaderDB

(***************************************************************************)
(* However often the connection breaks, a node that follows ends up        *)
(* caught up and equal to the leader once clients stop writing.            *)
(***************************************************************************)
EventuallyInSync ==
  <>[](loops > 0 => (\E g \in Loops : CaughtUp(g)) /\ followerDB = leaderDB)

(***************************************************************************)
(* Types, one loop per connection, and a snapshot at the head of every     *)
(* stream.                                                                 *)
(***************************************************************************)
Inv == TypeOK /\ SnapshotFirst
=============================================================================
