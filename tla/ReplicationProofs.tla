-------------------------- MODULE ReplicationProofs --------------------------
(***************************************************************************)
(* Proofs about Replication for every number of clients, writes, follow    *)
(* loops, connections and broken connections.                              *)
(***************************************************************************)
EXTENDS Replication, SequenceTheorems, TLAPS

-----------------------------------------------------------------------------
(***************************************************************************)
(* The inductive invariant.  Connections: nothing is sent on one before    *)
(* the leader serves it, no command before it is registered, and the       *)
(* numbers above conns are not in use.                                     *)
(***************************************************************************)
Unregistered(k) == serve[k] \in {"none", "asked", "dumped"}

(***************************************************************************)
(* A connection that was never made has no handler, one that asked only    *)
(* has an empty stream, and no replica that is not registered is written   *)
(* to.                                                                     *)
(***************************************************************************)
ConnsInv ==
  \A k \in Conns :
    /\ k > conns => serve[k] = "none"
    /\ serve[k] \in {"none", "asked"} => stream[k] = <<>>
    /\ Unregistered(k) => sent[k] = <<>> /\ \A c \in Clients : k \notin targets[c]

(***************************************************************************)
(* From position i on the queue holds commands only.                       *)
(***************************************************************************)
Commanded(q, i) == \A j \in i..Len(q) : q[j].kind = "command"

(***************************************************************************)
(* The snapshot comes first on k, or it is still to come, or it never will *)
(* because the connection is down.                                         *)
(***************************************************************************)
Awaiting(k) ==
  \/ stream[k] = <<>> /\ (serve[k] = "asked" \/ k \notin open)
  \/ stream[k] # <<>> /\ Head(stream[k]).kind = "snapshot" /\ Commanded(stream[k], 2)

(***************************************************************************)
(* Follow loops: they exist up to loops and are on connections that were   *)
(* made.  One that waits for its snapshot has it coming, one past it finds *)
(* commands only, and a cancelled one takes one message at most.           *)
(***************************************************************************)
LoopsInv ==
  \A g \in Loops :
    /\ g > loops => loop[g] = "off" /\ g \notin cancelled
    /\ conn[g] <= conns
    /\ loop[g] = "await" => serve[conn[g]] # "none" /\ Awaiting(conn[g])
    /\ loop[g] = "stream" => serve[conn[g]] \notin {"none", "asked"} /\ Commanded(stream[conn[g]], 1)
    /\ late[g] > 0 => loop[g] = "done" /\ late[g] = 1

(***************************************************************************)
(* Identities: a command that is being propagated has a number of its own, *)
(* and only numbers that were given out are on a connection.               *)
(***************************************************************************)
IdsInv ==
  /\ \A c \in Clients : pc[c] # "idle" => cmd[c].id \in 1..writes
  /\ \A c, d \in Clients :
       (pc[c] # "idle" /\ pc[d] # "idle" /\ cmd[c].id = cmd[d].id) => c = d
  /\ \A k \in Conns : \A i \in 1..Len(sent[k]) : sent[k][i].id <= writes

(***************************************************************************)
(* The inductive invariant of the leader, its connections and the          *)
(* follower.                                                               *)
(***************************************************************************)
IndInv == TypeOK /\ ConnsInv /\ LoopsInv /\ IdsInv /\ SentOnceInOrder

-----------------------------------------------------------------------------
(***************************************************************************)
(* The bounds are numbers and a command leaves a number in the store.      *)
(***************************************************************************)
LEMMA ExecuteNat ==
  ASSUME NEW d \in Nat, NEW op \in Ops, NEW id \in Nat
  PROVE  Execute(d, [op |-> op, id |-> id]) \in Nat
<1>1. op \in {"SET", "SETNX", "INCR", "MSET", "FLUSHDB"}
  BY ReplicationAssumption
<1> QED
  BY <1>1 DEF Execute

(***************************************************************************)
(* A replicated command leaves a number.                                   *)
(***************************************************************************)
LEMMA ApplyNat ==
  ASSUME NEW d \in Nat, NEW c \in Commands
  PROVE  applyReplicatedCommand(d, c) \in Nat
<1>1. c.id \in Nat
  BY ReplicationAssumption DEF Commands
<1> QED
  BY <1>1 DEF applyReplicatedCommand

(***************************************************************************)
(* Initially nothing is connected and nothing has been written.            *)
(***************************************************************************)
LEMMA InitIndInv == Init => IndInv
<1> SUFFICES ASSUME Init PROVE IndInv
  OBVIOUS
<1> USE ReplicationAssumption
<1>1. NoCmd \in Commands
  BY DEF NoCmd, Commands
<1>2. TypeOK
  BY <1>1 DEF Init, TypeOK, Loops, Conns
<1>3. ConnsInv
  BY DEF Init, ConnsInv, Unregistered
<1>4. LoopsInv
  BY DEF Init, LoopsInv, Loops
<1>5. IdsInv
  BY DEF Init, IdsInv
<1>6. SentOnceInOrder
  BY DEF Init, SentOnceInOrder, ToCome
<1> QED
  BY <1>2, <1>3, <1>4, <1>5, <1>6 DEF IndInv

-----------------------------------------------------------------------------
(***************************************************************************)
(* What is on a connection, entry by entry.                                *)
(***************************************************************************)
LEMMA SentTypes ==
  ASSUME IndInv, NEW k \in Conns
  PROVE  /\ sent[k] \in Seq(SentWrites) /\ Len(sent[k]) \in Nat
         /\ \A i \in 1..Len(sent[k]) : sent[k][i] \in SentWrites /\ sent[k][i].id \in 1..writes
<1>1. sent[k] \in Seq(SentWrites) /\ writes \in Nat
  BY ReplicationAssumption DEF IndInv, TypeOK
<1>2. Len(sent[k]) \in Nat
  BY <1>1, LenProperties
<1>3. ASSUME NEW i \in 1..Len(sent[k]) PROVE sent[k][i] \in SentWrites /\ sent[k][i].id \in 1..writes
  <2>1. sent[k][i] \in SentWrites
    BY <1>1, ElementOfSeq
  <2>2. sent[k][i].id <= writes
    BY DEF IndInv, IdsInv
  <2> QED
    BY <1>1, <2>1, <2>2, ReplicationAssumption DEF SentWrites
<1> QED
  BY <1>1, <1>2, <1>3

(***************************************************************************)
(* The leader's clients.                                                   *)
(***************************************************************************)
LEMMA ExecStep ==
  ASSUME IndInv, NEW c \in Clients, NEW op \in Ops, Exec(c, op)
  PROVE  IndInv'
<1> USE ReplicationAssumption
<1>0. writes < MaxWrites /\ writes' = writes + 1 /\ UNCHANGED <<loops, breaks, conns>>
  BY DEF Exec, CountWrite
<1>1. [op |-> op, id |-> writes'] \in Commands /\ cmd'[c] = [op |-> op, id |-> writes']
  BY <1>0 DEF Exec, Commands, IndInv, TypeOK
<1>2. leaderDB' \in Nat
  BY <1>0, <1>1, ExecuteNat DEF Exec, IndInv, TypeOK
<1>3. TypeOK'
  BY <1>0, <1>1, <1>2 DEF Exec, IndInv, TypeOK, linkVars, followerVars
<1>4. ConnsInv'
  BY <1>0 DEF Exec, IndInv, ConnsInv, Unregistered, linkVars, followerVars
<1>5. LoopsInv'
  BY <1>0 DEF Exec, IndInv, LoopsInv, Awaiting, Commanded, linkVars, followerVars
<1>6. IdsInv'
  <2>1. writes' = writes + 1 /\ writes \in Nat /\ sent' = sent
    BY <1>0, <1>1 DEF Exec, IndInv, TypeOK, linkVars, followerVars
  <2>2. ASSUME NEW k \in Conns, NEW i \in 1..Len(sent[k]) PROVE sent[k][i].id <= writes + 1
    <3>1. sent[k][i].id \in 1..writes
      BY SentTypes
    <3> QED
      BY <2>1, <3>1
  <2> QED
    BY <2>1, <2>2, <1>0, <1>1 DEF Exec, IndInv, TypeOK, IdsInv, linkVars, followerVars
<1>7. SentOnceInOrder'
  <2>1. sent' = sent /\ targets' = targets
    BY DEF Exec, linkVars
  <2>2. ASSUME NEW k \in Conns, NEW d \in Clients,
               pc'[d] = "executed" \/ (pc'[d] = "sending" /\ k \in targets[d]),
               NEW i \in 1..Len(sent[k])
        PROVE  sent[k][i].id # cmd'[d].id /\ (sent[k][i].by = d => sent[k][i].id < cmd'[d].id)
    <3>1. CASE d = c
      <4>1. sent[k][i].id \in 1..writes /\ writes \in Nat
        BY SentTypes DEF IndInv, TypeOK
      <4> QED
        BY <3>1, <4>1, <1>0, <1>1
    <3>2. CASE d # c
      <4>1. cmd'[d] = cmd[d] /\ pc'[d] = pc[d]
        BY <3>2 DEF Exec, IndInv, TypeOK
      <4> QED
        BY <4>1, <2>2 DEF IndInv, SentOnceInOrder, ToCome
    <3> QED
      BY <3>1, <3>2
  <2>3. \A k \in Conns : \A i, j \in 1..Len(sent[k]) : i < j =>
          /\ sent[k][i].id # sent[k][j].id
          /\ sent[k][i].by = sent[k][j].by => sent[k][i].id < sent[k][j].id
    BY DEF IndInv, SentOnceInOrder
  <2> QED
    BY <2>1, <2>2, <2>3 DEF SentOnceInOrder, ToCome
<1> QED
  BY <1>3, <1>4, <1>5, <1>6, <1>7 DEF IndInv

(***************************************************************************)
(* A command run by EXEC, which is not propagated, keeps the invariant.    *)
(***************************************************************************)
LEMMA ExecTransactionStep ==
  ASSUME IndInv, NEW c \in Clients, NEW op \in Ops, execTransaction(c, op)
  PROVE  IndInv'
<1> USE ReplicationAssumption
<1>0. writes < MaxWrites /\ writes' = writes + 1 /\ UNCHANGED <<loops, breaks, conns>>
  BY DEF execTransaction, CountWrite
<1>1. leaderDB' \in Nat
  BY <1>0, ExecuteNat DEF execTransaction, IndInv, TypeOK
<1>2. UNCHANGED <<pc, cmd, targets, linkVars, followerVars>>
  BY DEF execTransaction
<1>3. TypeOK'
  BY <1>0, <1>1, <1>2 DEF IndInv, TypeOK, linkVars, followerVars
<1>4. ConnsInv'
  BY <1>0, <1>2 DEF IndInv, ConnsInv, Unregistered, linkVars, followerVars
<1>5. LoopsInv'
  BY <1>0, <1>2 DEF IndInv, LoopsInv, Awaiting, Commanded, linkVars, followerVars
<1>6. IdsInv'
  <2>1. writes' = writes + 1 /\ writes \in Nat /\ sent' = sent
    BY <1>0, <1>2 DEF IndInv, TypeOK, linkVars, followerVars
  <2>2. ASSUME NEW k \in Conns, NEW i \in 1..Len(sent[k]) PROVE sent[k][i].id <= writes + 1
    <3>1. sent[k][i].id \in 1..writes
      BY SentTypes
    <3> QED
      BY <2>1, <3>1
  <2> QED
    BY <2>1, <2>2, <1>0, <1>2 DEF IndInv, TypeOK, IdsInv, linkVars, followerVars
<1>7. SentOnceInOrder'
  BY <1>0, <1>2 DEF IndInv, SentOnceInOrder, ToCome, linkVars, followerVars
<1> QED
  BY <1>3, <1>4, <1>5, <1>6, <1>7 DEF IndInv

(***************************************************************************)
(* Copying the list of replicas under its lock keeps the invariant: those  *)
(* in it are registered.                                                   *)
(***************************************************************************)
LEMMA CopyReplicasStep ==
  ASSUME IndInv, NEW c \in Clients, CopyReplicas(c)
  PROVE  IndInv'
<1>1. UNCHANGED <<leaderDB, cmd, linkVars, followerVars, countVars>>
  BY DEF CopyReplicas
<1>2. TypeOK'
  BY <1>1 DEF CopyReplicas, Registered, IndInv, TypeOK, linkVars, followerVars, countVars
<1>3. ConnsInv'
  BY <1>1 DEF CopyReplicas, Registered, IndInv, TypeOK, ConnsInv, Unregistered, linkVars, followerVars, countVars
<1>4. LoopsInv'
  BY <1>1 DEF IndInv, LoopsInv, Awaiting, Commanded, linkVars, followerVars, countVars
<1>5. IdsInv'
  BY <1>1 DEF CopyReplicas, IndInv, TypeOK, IdsInv, linkVars, followerVars, countVars
<1>6. SentOnceInOrder'
  BY <1>1 DEF CopyReplicas, IndInv, TypeOK, SentOnceInOrder, ToCome, linkVars, followerVars, countVars
<1> QED
  BY <1>2, <1>3, <1>4, <1>5, <1>6 DEF IndInv

(***************************************************************************)
(* What Append adds to a stream: the message goes to the end.              *)
(***************************************************************************)
LEMMA AppendAt ==
  ASSUME NEW S, NEW q \in Seq(S), NEW x \in S
  PROVE  /\ Append(q, x) \in Seq(S)
         /\ Append(q, x) # <<>>
         /\ Len(Append(q, x)) = Len(q) + 1
         /\ Len(q) \in Nat
         /\ \A i \in 1..Len(q) : Append(q, x)[i] = q[i]
         /\ Append(q, x)[Len(q) + 1] = x
         /\ Head(Append(q, x)) = IF q = <<>> THEN x ELSE Head(q)
<1>1. /\ Append(q, x) \in Seq(S) /\ Append(q, x) # <<>>
      /\ Len(Append(q, x)) = Len(q) + 1
      /\ \A i \in 1..Len(q) : Append(q, x)[i] = q[i]
      /\ Append(q, x)[Len(q) + 1] = x
  BY AppendProperties
<1>2. Len(q) \in Nat
  BY LenProperties
<1>3. Head(Append(q, x)) = Append(q, x)[1]
  BY <1>1, HeadTailProperties
<1>4. CASE q = <<>>
  BY <1>1, <1>2, <1>3, <1>4
<1>5. CASE q # <<>>
  BY <1>1, <1>2, <1>3, <1>5, EmptySeq, HeadTailProperties
<1> QED
  BY <1>1, <1>2, <1>4, <1>5

(***************************************************************************)
(* A command at the end of a stream changes nothing about what the         *)
(* follower finds at the head of it.                                       *)
(***************************************************************************)
LEMMA CommandAtTheEnd ==
  ASSUME NEW q \in Seq(Messages), NEW m \in Messages, m.kind = "command"
  PROVE  /\ Commanded(q, 1) => Commanded(Append(q, m), 1)
         /\ q # <<>> /\ Commanded(q, 2) => Commanded(Append(q, m), 2)
<1>1. /\ Len(Append(q, m)) = Len(q) + 1 /\ Len(q) \in Nat
      /\ \A i \in 1..Len(q) : Append(q, m)[i] = q[i]
      /\ Append(q, m)[Len(q) + 1] = m
  BY AppendAt
<1> QED
  BY <1>1 DEF Commanded

(***************************************************************************)
(* Sending one write to one of the copied replicas keeps the invariant: it *)
(* was not sent there before.                                              *)
(***************************************************************************)
LEMMA PropagateToStep ==
  ASSUME IndInv, NEW c \in Clients, NEW k \in Conns, PropagateTo(c, k)
  PROVE  IndInv'
<1> DEFINE m == [kind |-> "command", value |-> cmd[c]]
<1> USE ReplicationAssumption
<1>1. UNCHANGED <<leaderDB, cmd, serve, open, followerVars, countVars>>
  BY DEF PropagateTo
<1>2. pc[c] = "sending" /\ k \in targets[c] /\ ~Unregistered(k)
  BY DEF PropagateTo, IndInv, ConnsInv
<1>3. /\ targets' = [targets EXCEPT ![c] = @ \ {k}]
      /\ pc' = [pc EXCEPT ![c] = IF targets[c] = {k} THEN "idle" ELSE "sending"]
  BY DEF PropagateTo
<1>4. /\ m \in Messages /\ m.kind = "command" /\ cmd[c].id \in 1..MaxWrites
      /\ cmd[c].id \in 1..writes
  BY <1>2 DEF Messages, IndInv, TypeOK, IdsInv
<1>5. stream \in [Conns -> Seq(Messages)] /\ sent \in [Conns -> Seq(SentWrites)]
  BY DEF IndInv, TypeOK
<1>9. PICK w : w = [by |-> c, id |-> cmd[c].id]
  OBVIOUS
<1>10. w \in SentWrites /\ w.by = c /\ w.id = cmd[c].id
  BY <1>4, <1>9 DEF SentWrites
<1>6. /\ \A d \in Clients : targets'[d] \subseteq targets[d]
      /\ \A d \in Clients : pc'[d] \in {"idle", pc[d]}
      /\ k \notin targets'[c]
      /\ pc'[c] \in {"idle", "sending"}
  BY <1>2, <1>3 DEF IndInv, TypeOK
<1>7. CASE k \notin open
  <2>1. UNCHANGED <<stream, sent>>
    BY <1>7 DEF PropagateTo
  <2>2. TypeOK'
    BY <1>1, <1>3, <2>1 DEF IndInv, TypeOK, followerVars, countVars
  <2>3. ConnsInv'
    BY <1>1, <1>6, <2>1 DEF IndInv, ConnsInv, Unregistered, countVars
  <2>4. LoopsInv'
    BY <1>1, <2>1 DEF IndInv, LoopsInv, Awaiting, Commanded, followerVars, countVars
  <2>5. IdsInv'
    BY <1>1, <1>6, <2>1 DEF IndInv, IdsInv, countVars
  <2>6. SentOnceInOrder'
    BY <1>1, <1>6, <2>1 DEF IndInv, SentOnceInOrder, ToCome
  <2> QED
    BY <2>2, <2>3, <2>4, <2>5, <2>6 DEF IndInv
<1>8. CASE k \in open
  <2>1. /\ stream' = [stream EXCEPT ![k] = Append(stream[k], m)]
        /\ sent' = [sent EXCEPT ![k] = Append(sent[k], w)]
    BY <1>8, <1>9 DEF PropagateTo
  <2>2. /\ stream'[k] = Append(stream[k], m) /\ sent'[k] = Append(sent[k], w)
        /\ \A l \in Conns \ {k} : stream'[l] = stream[l] /\ sent'[l] = sent[l]
    BY <2>1, <1>5
  <2>3. /\ Append(stream[k], m) \in Seq(Messages) /\ Append(stream[k], m) # <<>>
        /\ Head(Append(stream[k], m)) = IF stream[k] = <<>> THEN m ELSE Head(stream[k])
    <3>1. stream[k] \in Seq(Messages) /\ m \in Messages
      BY <1>4, <1>5
    <3> HIDE DEF m
    <3> QED
      BY <3>1, AppendAt
  <2>4. /\ Append(sent[k], w) \in Seq(SentWrites)
        /\ Len(sent[k]) \in Nat
        /\ Len(Append(sent[k], w)) = Len(sent[k]) + 1
        /\ \A i \in 1..Len(sent[k]) : Append(sent[k], w)[i] = sent[k][i]
        /\ Append(sent[k], w)[Len(sent[k]) + 1] = w
    <3>1. sent[k] \in Seq(SentWrites) /\ w \in SentWrites
      BY <1>5, <1>10
    <3> HIDE DEF m
    <3> QED
      BY <3>1, AppendAt
  <2>5. stream' \in [Conns -> Seq(Messages)] /\ sent' \in [Conns -> Seq(SentWrites)]
    BY <2>1, <2>3, <2>4, <1>5
  <2>6. TypeOK'
    BY <1>1, <1>3, <2>5 DEF IndInv, TypeOK, followerVars, countVars
  <2>7. ConnsInv'
    BY <1>1, <1>2, <1>6, <2>2 DEF IndInv, ConnsInv, Unregistered, countVars
  <2>8. LoopsInv'
    <3>1. Commanded(stream[k], 1) => Commanded(stream'[k], 1)
      BY <1>4, <1>5, <2>2, CommandAtTheEnd
    <3>2. Awaiting(k) => Awaiting(k)'
      BY <1>1, <1>2, <1>4, <1>5, <1>8, <2>2, <2>3, CommandAtTheEnd DEF Awaiting, Unregistered
    <3>3. \A l \in Conns \ {k} : Awaiting(l) => Awaiting(l)'
      BY <1>1, <2>2 DEF Awaiting
    <3>4. \A g \in Loops : loop[g] \in {"await", "stream"} => conn[g] \in Conns
      BY DEF IndInv, TypeOK, Conns
    <3> HIDE DEF m
    <3> QED
      BY <1>1, <2>2, <3>1, <3>2, <3>3, <3>4 DEF IndInv, LoopsInv, followerVars, countVars
  <2>9. IdsInv'
    <3>1. \A l \in Conns : \A i \in 1..Len(sent'[l]) : sent'[l][i].id <= writes
      <4>1. \A i \in 1..Len(sent[k]) + 1 : i \in 1..Len(sent[k]) \/ i = Len(sent[k]) + 1
        BY <2>4
      <4>2. \A i \in 1..Len(sent'[k]) : sent'[k][i].id <= writes
        BY <1>4, <1>10, <2>2, <2>4, <4>1 DEF IndInv, IdsInv
      <4> QED
        BY <4>2, <2>2 DEF IndInv, IdsInv
    <3> QED
      BY <1>1, <1>6, <3>1 DEF IndInv, IdsInv, countVars
  <2>10. SentOnceInOrder'
    <3>1. PICK n \in Nat : n = Len(sent[k])
      BY <2>4
    <3>2. ASSUME NEW i \in 1..n
          PROVE  sent[k][i].id # w.id /\ (sent[k][i].by = c => sent[k][i].id < w.id)
      BY <1>2, <1>10, <3>1 DEF IndInv, SentOnceInOrder, ToCome
    <3>3. /\ Len(sent'[k]) = n + 1 /\ \A i \in 1..n : sent'[k][i] = sent[k][i]
          /\ sent'[k][n + 1] = w
      BY <2>2, <2>4, <3>1
    <3>4. \A i \in 1..(n + 1) : i \in 1..n \/ i = n + 1
      OBVIOUS
    <3>5. ASSUME NEW l \in Conns, NEW i \in 1..Len(sent'[l]), NEW j \in 1..Len(sent'[l]), i < j
          PROVE  /\ sent'[l][i].id # sent'[l][j].id
                 /\ sent'[l][i].by = sent'[l][j].by => sent'[l][i].id < sent'[l][j].id
      <4>1. \A a, b \in 1..Len(sent[l]) : a < b =>
              /\ sent[l][a].id # sent[l][b].id
              /\ sent[l][a].by = sent[l][b].by => sent[l][a].id < sent[l][b].id
        BY DEF IndInv, SentOnceInOrder
      <4>2. CASE l # k
        BY <3>5, <4>1, <4>2, <2>2
      <4>3. CASE l = k
        <5>1. i \in 1..n
          BY <3>3, <3>5, <4>3
        <5>2. CASE j \in 1..n
          BY <3>1, <3>3, <3>5, <4>1, <4>3, <5>1, <5>2
        <5>3. CASE j = n + 1
          BY <1>10, <3>2, <3>3, <4>3, <5>1, <5>3
        <5> QED
          BY <3>3, <3>4, <4>3, <5>2, <5>3
      <4> QED
        BY <4>2, <4>3
    <3>6. ASSUME NEW l \in Conns, NEW d \in Clients,
                 pc'[d] = "executed" \/ (pc'[d] = "sending" /\ l \in targets'[d]),
                 NEW i \in 1..Len(sent'[l])
          PROVE  /\ sent'[l][i].id # cmd[d].id
                 /\ sent'[l][i].by = d => sent'[l][i].id < cmd[d].id
      <4>1. pc[d] = "executed" \/ (pc[d] = "sending" /\ l \in targets[d])
        BY <1>6, <3>6
      <4>2. \A a \in 1..Len(sent[l]) :
              sent[l][a].id # cmd[d].id /\ (sent[l][a].by = d => sent[l][a].id < cmd[d].id)
        BY <4>1 DEF IndInv, SentOnceInOrder, ToCome
      <4>3. CASE l # k
        BY <4>2, <4>3, <2>2
      <4>4. CASE l = k
        <5>1. d # c
          BY <1>6, <3>6, <4>4
        <5>2. cmd[d].id # cmd[c].id
          BY <1>2, <4>1, <5>1 DEF IndInv, IdsInv
        <5>3. CASE i \in 1..n
          BY <3>1, <3>3, <4>2, <4>4, <5>3
        <5>4. CASE i = n + 1
          BY <1>10, <3>3, <4>4, <5>1, <5>2, <5>4
        <5> QED
          BY <3>3, <3>4, <4>4, <5>3, <5>4
      <4> QED
        BY <4>3, <4>4
    <3> QED
      BY <1>1, <3>5, <3>6 DEF SentOnceInOrder, ToCome
  <2> QED
    BY <2>6, <2>7, <2>8, <2>9, <2>10 DEF IndInv
<1> QED
  BY <1>7, <1>8

-----------------------------------------------------------------------------
(***************************************************************************)
(* The leader's side of a connection: snapshot, registration, removal.     *)
(***************************************************************************)
LEMMA SendSnapshotStep ==
  ASSUME IndInv, NEW k \in Conns, SendSnapshot(k)
  PROVE  IndInv'
<1> DEFINE m == [kind |-> "snapshot", value |-> leaderDB]
<1> USE ReplicationAssumption
<1>1. UNCHANGED <<open, sent, leaderVars, followerVars, countVars>>
  BY DEF SendSnapshot
<1>2. serve[k] = "asked" /\ stream[k] = <<>> /\ k <= conns
  BY DEF SendSnapshot, IndInv, TypeOK, ConnsInv, Conns
<1>3. m \in Messages /\ m.kind = "snapshot"
  BY DEF Messages, IndInv, TypeOK
<1>4. stream \in [Conns -> Seq(Messages)] /\ serve \in [Conns -> {"none", "asked", "dumped", "registered", "gone"}]
  BY DEF IndInv, TypeOK
<1>5. /\ serve'[k] = "dumped" /\ \A l \in Conns \ {k} : serve'[l] = serve[l] /\ stream'[l] = stream[l]
      /\ stream'[k] = IF k \in open THEN Append(stream[k], m) ELSE stream[k]
      /\ serve' \in [Conns -> {"none", "asked", "dumped", "registered", "gone"}]
  BY <1>4 DEF SendSnapshot
<1>6. stream[k] \in Seq(Messages) /\ Len(stream[k]) = 0
  BY <1>2, <1>4, EmptySeq
<1>7. /\ Append(stream[k], m) \in Seq(Messages) /\ Append(stream[k], m) # <<>>
      /\ Head(Append(stream[k], m)) = m /\ Len(Append(stream[k], m)) = 1
  <2> HIDE DEF m
  <2>1. /\ Append(stream[k], m) \in Seq(Messages) /\ Append(stream[k], m) # <<>>
        /\ Head(Append(stream[k], m)) = m /\ Len(Append(stream[k], m)) = Len(stream[k]) + 1
    BY <1>2, <1>3, <1>6, AppendAt
  <2> QED
    BY <2>1, <1>6
<1>8. TypeOK'
  <2>1. stream' \in [Conns -> Seq(Messages)]
    BY <1>4, <1>6, <1>7 DEF SendSnapshot
  <2> QED
    BY <2>1, <1>1, <1>5 DEF IndInv, TypeOK, leaderVars, followerVars, countVars
<1>9. ConnsInv'
  BY <1>1, <1>2, <1>5 DEF IndInv, TypeOK, ConnsInv, Conns, Unregistered, leaderVars, countVars
<1>10. LoopsInv'
  <2>1. Awaiting(k)'
    BY <1>1, <1>2, <1>3, <1>5, <1>7 DEF Awaiting, Commanded
  <2>2. \A l \in Conns \ {k} : Awaiting(l) => Awaiting(l)'
    BY <1>1, <1>5 DEF Awaiting
  <2>3. \A g \in Loops : loop[g] \in {"await", "stream"} => conn[g] \in Conns
    BY DEF IndInv, TypeOK, Conns
  <2> HIDE DEF m
  <2> QED
    BY <1>1, <1>2, <1>5, <2>1, <2>2, <2>3 DEF IndInv, LoopsInv, followerVars, countVars
<1>11. IdsInv'
  BY <1>1 DEF IndInv, IdsInv, leaderVars, countVars
<1>12. SentOnceInOrder'
  BY <1>1 DEF IndInv, SentOnceInOrder, ToCome, leaderVars
<1> QED
  BY <1>8, <1>9, <1>10, <1>11, <1>12 DEF IndInv

(***************************************************************************)
(* A connection changes sides only: registered after the dump, gone after  *)
(* the failed read.  No stream, loop or command is touched.                *)
(***************************************************************************)
LEMMA ServeMovesOn ==
  ASSUME IndInv, NEW k \in Conns, NEW s \in {"registered", "gone"},
         serve[k] \in {"dumped", "registered"},
         serve' = [serve EXCEPT ![k] = s],
         UNCHANGED <<open, stream, sent, leaderVars, followerVars, countVars>>
  PROVE  IndInv'
<1>1. serve \in [Conns -> {"none", "asked", "dumped", "registered", "gone"}]
  BY DEF IndInv, TypeOK
<1>2. serve'[k] = s /\ \A l \in Conns \ {k} : serve'[l] = serve[l]
  BY <1>1
<1>3. TypeOK'
  BY <1>1 DEF IndInv, TypeOK, leaderVars, followerVars, countVars
<1>4. ConnsInv'
  BY <1>2 DEF IndInv, ConnsInv, Unregistered, leaderVars, countVars
<1>5. LoopsInv'
  <2>1. \A l \in Conns : Awaiting(l) => Awaiting(l)'
    BY <1>2 DEF Awaiting
  <2>2. \A g \in Loops : loop[g] \in {"await", "stream"} => conn[g] \in Conns
    BY ReplicationAssumption DEF IndInv, TypeOK, Conns
  <2> QED
    BY <1>2, <2>1, <2>2 DEF IndInv, LoopsInv, Commanded, followerVars, countVars
<1>6. IdsInv' /\ SentOnceInOrder'
  BY DEF IndInv, IdsInv, SentOnceInOrder, ToCome, leaderVars, countVars
<1> QED
  BY <1>3, <1>4, <1>5, <1>6 DEF IndInv

(***************************************************************************)
(* Registering a connection as a replica keeps the invariant.              *)
(***************************************************************************)
LEMMA AddReplicaStep ==
  ASSUME IndInv, NEW k \in Conns, AddReplica(k)
  PROVE  IndInv'
BY ServeMovesOn DEF AddReplica

(***************************************************************************)
(* Removing a replica whose connection ended keeps the invariant.          *)
(***************************************************************************)
LEMMA RemoveReplicaStep ==
  ASSUME IndInv, NEW k \in Conns, RemoveReplica(k)
  PROVE  IndInv'
BY ServeMovesOn DEF RemoveReplica

(***************************************************************************)
(* A connection that breaks keeps the invariant.                           *)
(***************************************************************************)
LEMMA BreakStep ==
  ASSUME IndInv, NEW k \in Conns, Break(k)
  PROVE  IndInv'
<1>1. /\ UNCHANGED <<serve, stream, sent, leaderVars, followerVars, writes, loops, conns>>
      /\ open' \subseteq open /\ breaks' = breaks + 1 /\ breaks < MaxBreaks
  BY DEF Break
<1>2. TypeOK'
  BY <1>1, ReplicationAssumption DEF IndInv, TypeOK, leaderVars, followerVars
<1>3. ConnsInv'
  BY <1>1 DEF IndInv, ConnsInv, Unregistered, leaderVars
<1>4. LoopsInv'
  BY <1>1 DEF IndInv, LoopsInv, Awaiting, Commanded, followerVars
<1>5. IdsInv' /\ SentOnceInOrder'
  BY <1>1 DEF IndInv, IdsInv, SentOnceInOrder, ToCome, leaderVars
<1> QED
  BY <1>2, <1>3, <1>4, <1>5 DEF IndInv

-----------------------------------------------------------------------------
(***************************************************************************)
(* The follower: what REPLICAOF does.                                      *)
(***************************************************************************)
LEMMA StartFollowingStep ==
  ASSUME IndInv, StartFollowing
  PROVE  IndInv'
<1> USE ReplicationAssumption
<1>1. UNCHANGED <<leaderVars, linkVars, followerDB, conn, late, writes, breaks, conns>>
  BY DEF StartFollowing
<1>2. /\ loops < MaxLoops /\ loops' = loops + 1 /\ loops \in Nat
      /\ loops + 1 \in Loops /\ 1..loops \subseteq Loops /\ loop[loops + 1] = "off"
  BY DEF StartFollowing, IndInv, TypeOK, LoopsInv, Loops
<1>3. cancelled' = cancelled \cup 1..loops
  BY DEF StartFollowing
<1>4. loop'[loops + 1] = "dial" /\ \A g \in Loops \ {loops + 1} : loop'[g] = loop[g]
  BY <1>2 DEF StartFollowing, IndInv, TypeOK
<1>5. TypeOK'
  <2>1. loop' \in [Loops -> {"off", "dial", "await", "stream", "done"}]
    BY <1>2 DEF StartFollowing, IndInv, TypeOK
  <2>2. loops' \in 0..MaxLoops /\ role' = "replica"
    BY <1>2 DEF StartFollowing
  <2>3. \A g \in Loops : loop'[g] \in {"await", "stream"} <=> conn[g] # 0
    BY <1>2, <1>4 DEF IndInv, TypeOK
  <2> QED
    BY <1>1, <1>2, <1>3, <2>1, <2>2, <2>3 DEF IndInv, TypeOK, leaderVars, linkVars
<1>6. ConnsInv'
  BY <1>1 DEF IndInv, ConnsInv, Unregistered, leaderVars, linkVars
<1>7. LoopsInv'
  <2>1. \A k \in Conns : Awaiting(k)' <=> Awaiting(k)
    BY <1>1 DEF Awaiting, linkVars
  <2>2. ASSUME NEW g \in Loops, g > loops + 1
        PROVE  loop'[g] = "off" /\ g \notin cancelled'
    BY <1>2, <1>3, <1>4, <2>2 DEF IndInv, LoopsInv, Loops
  <2>3. \A g \in Loops : loop[g] \in {"await", "stream"} => conn[g] \in Conns
    BY DEF IndInv, TypeOK, Conns
  <2>4. ASSUME NEW g \in Loops
        PROVE  /\ conn[g] <= conns
               /\ loop'[g] = "await" => serve[conn[g]] # "none" /\ Awaiting(conn[g])
               /\ loop'[g] = "stream" => /\ serve[conn[g]] \notin {"none", "asked"}
                                         /\ Commanded(stream[conn[g]], 1)
               /\ late[g] > 0 => loop'[g] = "done" /\ late[g] = 1
    BY <1>2, <1>4 DEF IndInv, LoopsInv
  <2>5. \A g \in Loops : loop'[g] \in {"await", "stream"} => conn[g] \in Conns
    BY <1>4, <2>3
  <2> QED
    BY <1>1, <1>2, <2>1, <2>2, <2>4, <2>5 DEF LoopsInv, Commanded, linkVars
<1>8. IdsInv' /\ SentOnceInOrder'
  BY <1>1 DEF IndInv, IdsInv, SentOnceInOrder, ToCome, leaderVars, linkVars
<1> QED
  BY <1>5, <1>6, <1>7, <1>8 DEF IndInv

(***************************************************************************)
(* REPLICAOF NO ONE, which cancels the loops, keeps the invariant.         *)
(***************************************************************************)
LEMMA StopFollowingStep ==
  ASSUME IndInv, StopFollowing
  PROVE  IndInv'
<1> USE ReplicationAssumption
<1>1. /\ UNCHANGED <<leaderVars, linkVars, followerDB, loop, conn, late, countVars>>
      /\ cancelled' = cancelled \cup 1..loops /\ role' = "master"
  BY DEF StopFollowing
<1>2. loops \in Nat /\ 1..loops \subseteq Loops
  BY DEF IndInv, TypeOK, Loops
<1>3. TypeOK'
  BY <1>1, <1>2 DEF IndInv, TypeOK, leaderVars, linkVars, countVars
<1>4. ConnsInv'
  BY <1>1 DEF IndInv, ConnsInv, Unregistered, leaderVars, linkVars, countVars
<1>5. LoopsInv'
  BY <1>1, <1>2 DEF IndInv, LoopsInv, Loops, Awaiting, Commanded, linkVars, countVars
<1>6. IdsInv' /\ SentOnceInOrder'
  BY <1>1 DEF IndInv, IdsInv, SentOnceInOrder, ToCome, leaderVars, linkVars, countVars
<1> QED
  BY <1>3, <1>4, <1>5, <1>6 DEF IndInv

(***************************************************************************)
(* The followLoop goroutine.  It dials a connection nobody used before.    *)
(***************************************************************************)
LEMMA DialStep ==
  ASSUME IndInv, NEW g \in Loops, Dial(g)
  PROVE  IndInv'
<1> USE ReplicationAssumption
<1>0. PICK k : k = conns + 1
  OBVIOUS
<1>1. /\ UNCHANGED <<stream, sent, leaderVars, followerDB, role, cancelled, late, writes, loops, breaks>>
      /\ loop[g] = "dial" /\ conns' = k
  BY <1>0 DEF Dial
<1>2. k \in Conns /\ conns \in Nat /\ k \in 1..MaxConns
  BY <1>0 DEF Dial, IndInv, TypeOK, Conns
<1>3. serve[k] = "none" /\ stream[k] = <<>>
  BY <1>0, <1>2 DEF IndInv, ConnsInv
<1>4. /\ serve'[k] = "asked" /\ \A l \in Conns \ {k} : serve'[l] = serve[l]
      /\ serve' \in [Conns -> {"none", "asked", "dumped", "registered", "gone"}]
      /\ open' = open \cup {k}
  BY <1>0, <1>2 DEF Dial, IndInv, TypeOK
<1>5. /\ conn'[g] = k /\ loop'[g] = "await"
      /\ \A h \in Loops \ {g} : conn'[h] = conn[h] /\ loop'[h] = loop[h]
      /\ conn' \in [Loops -> 0..MaxConns]
      /\ loop' \in [Loops -> {"off", "dial", "await", "stream", "done"}]
  BY <1>0, <1>2 DEF Dial, IndInv, TypeOK
<1>6. \A h \in Loops : conn[h] \in Nat /\ conn[h] <= conns /\ conn[h] # k
  BY <1>0, <1>2 DEF IndInv, TypeOK, LoopsInv
<1>7. TypeOK'
  <2>0. /\ \A a, b \in Loops : (conn[a] # 0 /\ conn[a] = conn[b]) => a = b
        /\ \A h \in Loops : loop[h] \in {"await", "stream"} <=> conn[h] # 0
    BY DEF IndInv, TypeOK
  <2>1. \A a, b \in Loops : (conn'[a] # 0 /\ conn'[a] = conn'[b]) => a = b
    BY <2>0, <1>5, <1>6
  <2>2. \A h \in Loops : loop'[h] \in {"await", "stream"} <=> conn'[h] # 0
    <3>1. k # 0
      BY <1>0, <1>2
    <3> QED
      BY <2>0, <3>1, <1>5
  <2>3. conns' \in 0..MaxConns
    BY <1>1, <1>2
  <2> QED
    BY <1>1, <1>2, <1>4, <1>5, <2>1, <2>2, <2>3 DEF IndInv, TypeOK, leaderVars
<1>8. ConnsInv'
  <2>1. ASSUME NEW l \in Conns PROVE l > conns' => serve'[l] = "none"
    BY <1>0, <1>1, <1>2, <1>4 DEF IndInv, ConnsInv, Conns
  <2>2. ASSUME NEW l \in Conns PROVE serve'[l] \in {"none", "asked"} => stream[l] = <<>>
    BY <1>3, <1>4 DEF IndInv, ConnsInv
  <2>3. ASSUME NEW l \in Conns, serve'[l] \in {"none", "asked", "dumped"}
        PROVE  sent[l] = <<>> /\ \A c \in Clients : l \notin targets[c]
    <3>1. Unregistered(l)
      BY <1>3, <1>4, <2>3 DEF Unregistered
    <3> QED
      BY <3>1 DEF IndInv, ConnsInv
  <2> QED
    BY <1>1, <2>1, <2>2, <2>3 DEF ConnsInv, Unregistered, leaderVars
<1>9. LoopsInv'
  <2>1. Awaiting(k)'
    BY <1>1, <1>3, <1>4 DEF Awaiting
  <2>2. \A l \in Conns \ {k} : Awaiting(l) => Awaiting(l)'
    BY <1>1, <1>4 DEF Awaiting
  <2>3. \A h \in Loops \ {g} : loop[h] \in {"await", "stream"} => conn[h] \in Conns \ {k}
    BY <1>6 DEF IndInv, TypeOK, Conns
  <2>4. ASSUME NEW h \in Loops PROVE conn'[h] <= conns'
    BY <1>0, <1>1, <1>2, <1>5, <1>6
  <2>5. ASSUME NEW h \in Loops, loop'[h] = "await"
        PROVE  (serve[conn[h]] # "none" /\ Awaiting(conn[h]))'
    <3>1. CASE h = g
      BY <1>4, <1>5, <2>1, <3>1 DEF Awaiting
    <3>2. CASE h # g
      BY <1>4, <1>5, <2>2, <2>3, <2>5, <3>2 DEF IndInv, LoopsInv, Awaiting
    <3> QED
      BY <3>1, <3>2
  <2>6. ASSUME NEW h \in Loops, loop'[h] = "stream"
        PROVE  serve'[conn'[h]] \notin {"none", "asked"} /\ Commanded(stream[conn'[h]], 1)
    BY <1>4, <1>5, <2>3, <2>6 DEF IndInv, LoopsInv
  <2>7. ASSUME NEW h \in Loops
        PROVE  /\ h > loops => loop'[h] = "off" /\ h \notin cancelled
               /\ late[h] > 0 => loop'[h] = "done" /\ late[h] = 1
    BY <1>1, <1>5 DEF IndInv, LoopsInv
  <2> QED
    BY <1>1, <2>4, <2>5, <2>6, <2>7 DEF LoopsInv, Commanded
<1>10. IdsInv' /\ SentOnceInOrder'
  BY <1>1 DEF IndInv, IdsInv, SentOnceInOrder, ToCome, leaderVars
<1> QED
  BY <1>7, <1>8, <1>9, <1>10 DEF IndInv

(***************************************************************************)
(* A loop that gives up its connection, to dial again or for good.  Others *)
(* may have to find out that the connection is closed, nothing else.       *)
(***************************************************************************)
LEMMA LoopLeaves ==
  ASSUME IndInv, NEW g \in Loops, loop[g] \in {"await", "stream"},
         NEW to \in {"dial", "done"},
         NEW n \in {late[g], late[g] + 1}, n > 0 => n = 1 /\ to = "done",
         NEW q \in Seq(Messages), stream[conn[g]] = <<>> => q = <<>>,
         followerDB' \in Nat,
         stream' = [stream EXCEPT ![conn[g]] = q],
         late' = [late EXCEPT ![g] = n],
         loop' = [loop EXCEPT ![g] = to],
         conn' = [conn EXCEPT ![g] = 0],
         open' = open \ {conn[g]},
         UNCHANGED <<serve, sent, leaderVars, role, cancelled, countVars>>
  PROVE  IndInv'
<1> USE ReplicationAssumption
<1>1. conn[g] \in Conns /\ conn[g] # 0
  BY DEF IndInv, TypeOK, Conns
<1>2. /\ conn'[g] = 0 /\ loop'[g] = to /\ late'[g] = n
      /\ \A h \in Loops \ {g} : conn'[h] = conn[h] /\ loop'[h] = loop[h] /\ late'[h] = late[h]
      /\ conn' \in [Loops -> 0..MaxConns]
      /\ loop' \in [Loops -> {"off", "dial", "await", "stream", "done"}]
      /\ late' \in [Loops -> Nat]
  BY DEF IndInv, TypeOK
<1>3. /\ stream'[conn[g]] = q /\ \A l \in Conns \ {conn[g]} : stream'[l] = stream[l]
      /\ stream' \in [Conns -> Seq(Messages)]
  BY <1>1 DEF IndInv, TypeOK
<1>4. \A h \in Loops \ {g} : loop[h] \in {"await", "stream"} => conn[h] \in Conns \ {conn[g]}
  BY <1>1 DEF IndInv, TypeOK, Conns
<1>5. TypeOK'
  <2>1. \A a, b \in Loops : (conn'[a] # 0 /\ conn'[a] = conn'[b]) => a = b
    BY <1>2 DEF IndInv, TypeOK
  <2>2. \A h \in Loops : loop'[h] \in {"await", "stream"} <=> conn'[h] # 0
    BY <1>2 DEF IndInv, TypeOK
  <2> QED
    BY <1>2, <1>3, <2>1, <2>2 DEF IndInv, TypeOK, leaderVars, countVars
<1>6. ConnsInv'
  BY <1>3 DEF IndInv, ConnsInv, Unregistered, leaderVars, countVars
<1>7. LoopsInv'
  <2>1. \A l \in Conns \ {conn[g]} : Awaiting(l) => Awaiting(l)'
    BY <1>3 DEF Awaiting
  <2>2. g <= loops
    BY DEF IndInv, TypeOK, LoopsInv, Loops
  <2>3. ASSUME NEW h \in Loops
        PROVE  /\ h > loops => loop'[h] = "off" /\ h \notin cancelled
               /\ conn'[h] <= conns
               /\ late'[h] > 0 => loop'[h] = "done" /\ late'[h] = 1
    <3>1. CASE h = g
      BY <1>2, <2>2, <3>1 DEF IndInv, TypeOK, Loops
    <3>2. CASE h # g
      BY <1>2, <3>2 DEF IndInv, LoopsInv
    <3> QED
      BY <3>1, <3>2
  <2>4. ASSUME NEW h \in Loops, loop'[h] = "await"
        PROVE  (serve[conn[h]] # "none" /\ Awaiting(conn[h]))'
    BY <1>2, <1>4, <2>1, <2>4 DEF IndInv, LoopsInv, Awaiting
  <2>5. ASSUME NEW h \in Loops, loop'[h] = "stream"
        PROVE  serve[conn'[h]] \notin {"none", "asked"} /\ Commanded(stream'[conn'[h]], 1)
    BY <1>2, <1>3, <1>4, <2>5 DEF IndInv, LoopsInv
  <2> QED
    BY <2>3, <2>4, <2>5 DEF LoopsInv, Commanded, countVars
<1>8. IdsInv' /\ SentOnceInOrder'
  BY DEF IndInv, IdsInv, SentOnceInOrder, ToCome, leaderVars, countVars
<1> QED
  BY <1>5, <1>6, <1>7, <1>8 DEF IndInv

(***************************************************************************)
(* A message is taken off the stream: what is left are commands.           *)
(***************************************************************************)
LEMMA TailCommanded ==
  ASSUME NEW q \in Seq(Messages), q # <<>>
  PROVE  /\ Tail(q) \in Seq(Messages)
         /\ Commanded(q, 2) => Commanded(Tail(q), 1)
         /\ Commanded(q, 1) => Commanded(Tail(q), 1)
<1>1. /\ Tail(q) \in Seq(Messages) /\ Len(Tail(q)) = Len(q) - 1
      /\ \A i \in 1..Len(Tail(q)) : Tail(q)[i] = q[i + 1]
  BY HeadTailProperties
<1>2. Len(q) \in Nat
  BY LenProperties
<1> QED
  BY <1>1, <1>2 DEF Commanded

(***************************************************************************)
(* A loop that takes the next message off its stream keeps the invariant,  *)
(* whatever it does with it.                                               *)
(***************************************************************************)
LEMMA ReadOnStep ==
  ASSUME IndInv, NEW g \in Loops, loop[g] \in {"await", "stream"},
         stream[conn[g]] # <<>>, followerDB' \in Nat, ReadOn(g)
  PROVE  IndInv'
<1> USE ReplicationAssumption
<1>1. conn[g] \in Conns /\ conn[g] # 0 /\ stream[conn[g]] \in Seq(Messages)
  BY DEF IndInv, TypeOK, Conns
<1>2. Commanded(stream[conn[g]], 2) \/ Commanded(stream[conn[g]], 1)
  BY DEF IndInv, LoopsInv, Awaiting
<1>3. Tail(stream[conn[g]]) \in Seq(Messages) /\ Commanded(Tail(stream[conn[g]]), 1)
  BY <1>1, <1>2, TailCommanded
<1>4. late[g] = 0
  <2>1. late[g] \in Nat
    BY DEF IndInv, TypeOK
  <2> QED
    BY <2>1 DEF IndInv, LoopsInv
<1>5. UNCHANGED <<serve, sent, leaderVars, role, cancelled, countVars>>
  BY DEF ReadOn
<1>6. stream' = [stream EXCEPT ![conn[g]] = Tail(stream[conn[g]])]
  BY DEF ReadOn
<1>7. CASE g \in cancelled
  <2>1. /\ late' = [late EXCEPT ![g] = late[g] + 1]
        /\ loop' = [loop EXCEPT ![g] = "done"]
        /\ conn' = [conn EXCEPT ![g] = 0]
        /\ open' = open \ {conn[g]}
    BY <1>7 DEF ReadOn
  <2>2. late[g] + 1 > 0 => late[g] + 1 = 1
    BY <1>4
  <2> QED
    BY <1>3, <1>5, <1>6, <2>1, <2>2, LoopLeaves
<1>8. CASE g \notin cancelled
  <2>1. late' = [late EXCEPT ![g] = late[g]] /\ conn' = conn /\ open' = open
    BY <1>8 DEF ReadOn
  <2>2. late' = late
    BY <2>1 DEF IndInv, TypeOK
  <2>3. /\ loop'[g] = "stream" /\ \A h \in Loops \ {g} : loop'[h] = loop[h]
        /\ loop' \in [Loops -> {"off", "dial", "await", "stream", "done"}]
    BY <1>8 DEF ReadOn, IndInv, TypeOK
  <2>4. /\ stream'[conn[g]] = Tail(stream[conn[g]])
        /\ \A l \in Conns \ {conn[g]} : stream'[l] = stream[l]
        /\ stream' \in [Conns -> Seq(Messages)]
    BY <1>1, <1>3, <1>6 DEF IndInv, TypeOK
  <2>5. serve[conn[g]] \notin {"none", "asked"}
    BY <1>1 DEF IndInv, ConnsInv
  <2>6. TypeOK'
    <3>1. \A h \in Loops : loop'[h] \in {"await", "stream"} <=> conn[h] # 0
      BY <1>1, <2>3 DEF IndInv, TypeOK
    <3>2. /\ late' \in [Loops -> Nat] /\ conn' \in [Loops -> 0..MaxConns] /\ open' \subseteq Conns
          /\ \A a, b \in Loops : (conn'[a] # 0 /\ conn'[a] = conn'[b]) => a = b
          /\ \A h \in Loops : loop'[h] \in {"await", "stream"} <=> conn'[h] # 0
      BY <2>1, <2>2, <3>1 DEF IndInv, TypeOK
    <3> QED
      BY <1>5, <2>3, <2>4, <3>2 DEF IndInv, TypeOK, leaderVars, countVars
  <2>7. ConnsInv'
    BY <1>5, <2>1, <2>4, <2>5 DEF IndInv, ConnsInv, Unregistered, leaderVars, countVars
  <2>8. LoopsInv'
    <3>1. \A h \in Loops \ {g} : loop[h] \in {"await", "stream"} => conn[h] \in Conns \ {conn[g]}
      BY <1>1 DEF IndInv, TypeOK, Conns
    <3>2. g <= loops
      BY DEF IndInv, TypeOK, LoopsInv, Loops
    <3>3. \A l \in Conns \ {conn[g]} : Awaiting(l) => Awaiting(l)'
      BY <1>5, <2>1, <2>4 DEF Awaiting
    <3>4. ASSUME NEW h \in Loops
          PROVE  /\ h > loops => loop'[h] = "off" /\ h \notin cancelled
                 /\ conn[h] <= conns
                 /\ late[h] > 0 => loop'[h] = "done" /\ late[h] = 1
      <4>1. CASE h = g
        BY <1>4, <2>3, <3>2, <4>1 DEF IndInv, TypeOK, LoopsInv, Loops
      <4>2. CASE h # g
        BY <2>3, <4>2 DEF IndInv, LoopsInv
      <4> QED
        BY <4>1, <4>2
    <3>5. ASSUME NEW h \in Loops, loop'[h] = "await"
          PROVE  (serve[conn[h]] # "none" /\ Awaiting(conn[h]))'
      BY <1>5, <2>1, <2>3, <3>1, <3>3, <3>5 DEF IndInv, LoopsInv, Awaiting
    <3>6. ASSUME NEW h \in Loops, loop'[h] = "stream"
          PROVE  serve[conn[h]] \notin {"none", "asked"} /\ Commanded(stream'[conn[h]], 1)
      <4>1. CASE h = g
        BY <1>3, <2>4, <2>5, <4>1
      <4>2. CASE h # g
        BY <2>3, <2>4, <3>1, <3>6, <4>2 DEF IndInv, LoopsInv
      <4> QED
        BY <4>1, <4>2
    <3> QED
      BY <1>5, <2>1, <2>2, <3>4, <3>5, <3>6 DEF LoopsInv, Commanded, countVars
  <2>9. IdsInv' /\ SentOnceInOrder'
    BY <1>5 DEF IndInv, IdsInv, SentOnceInOrder, ToCome, leaderVars, countVars
  <2> QED
    BY <2>6, <2>7, <2>8, <2>9 DEF IndInv
<1> QED
  BY <1>7, <1>8

(***************************************************************************)
(* Loading the snapshot keeps the invariant.                               *)
(***************************************************************************)
LEMMA LoadSnapshotStep ==
  ASSUME IndInv, NEW g \in Loops, LoadSnapshot(g)
  PROVE  IndInv'
<1>1. conn[g] \in Conns /\ stream[conn[g]] \in Seq(Messages) /\ stream[conn[g]] # <<>>
  BY ReplicationAssumption DEF LoadSnapshot, IndInv, TypeOK, Conns
<1>2. Head(stream[conn[g]]) \in Messages /\ Head(stream[conn[g]]).kind = "snapshot"
  BY <1>1, HeadTailProperties DEF LoadSnapshot
<1>3. Head(stream[conn[g]]).value \in Nat
  BY <1>2 DEF Messages
<1> QED
  BY <1>1, <1>3, ReadOnStep DEF LoadSnapshot

(***************************************************************************)
(* Applying the next replicated command keeps the invariant.               *)
(***************************************************************************)
LEMMA ApplyNextStep ==
  ASSUME IndInv, NEW g \in Loops, ApplyNext(g)
  PROVE  IndInv'
<1>1. conn[g] \in Conns /\ stream[conn[g]] \in Seq(Messages) /\ stream[conn[g]] # <<>>
  BY ReplicationAssumption DEF ApplyNext, IndInv, TypeOK, Conns
<1>2. /\ Head(stream[conn[g]]) \in Messages /\ Head(stream[conn[g]]) = stream[conn[g]][1]
      /\ Len(stream[conn[g]]) \in Nat /\ Len(stream[conn[g]]) > 0
  BY <1>1, HeadTailProperties, EmptySeq, LenProperties
<1>3. Head(stream[conn[g]]).kind = "command"
  BY <1>2 DEF ApplyNext, IndInv, LoopsInv, Commanded
<1>4. Head(stream[conn[g]]).value \in Commands
  BY <1>2, <1>3 DEF Messages
<1>5. followerDB' \in Nat
  BY <1>4, ApplyNat DEF ApplyNext, IndInv, TypeOK
<1> QED
  BY <1>1, <1>5, ReadOnStep DEF ApplyNext

(***************************************************************************)
(* A loop that loses its connection keeps the invariant.                   *)
(***************************************************************************)
LEMMA ReadFailsStep ==
  ASSUME IndInv, NEW g \in Loops, ReadFails(g)
  PROVE  IndInv'
<1>1. conn[g] \in Conns /\ stream[conn[g]] \in Seq(Messages) /\ late[g] = 0 /\ followerDB \in Nat
  <2>1. late[g] \in Nat /\ followerDB \in Nat
    BY DEF IndInv, TypeOK
  <2>2. conn[g] \in Conns /\ stream[conn[g]] \in Seq(Messages)
    BY ReplicationAssumption DEF ReadFails, IndInv, TypeOK, Conns
  <2> QED
    BY <2>1, <2>2 DEF ReadFails, IndInv, LoopsInv
<1>2. /\ stream' = [stream EXCEPT ![conn[g]] = stream[conn[g]]]
      /\ late' = [late EXCEPT ![g] = late[g]]
  BY <1>1 DEF ReadFails, IndInv, TypeOK
<1>3. followerDB' \in Nat
  BY <1>1 DEF ReadFails
<1>4. PICK to \in {"dial", "done"} : to = IF g \in cancelled THEN "done" ELSE "dial"
  OBVIOUS
<1>5. ~(late[g] > 0)
  BY <1>1
<1> QED
  BY <1>1, <1>2, <1>3, <1>4, <1>5, LoopLeaves DEF ReadFails

(***************************************************************************)
(* A cancelled loop that ends keeps the invariant.                         *)
(***************************************************************************)
LEMMA LoopEndsStep ==
  ASSUME IndInv, NEW g \in Loops, LoopEnds(g)
  PROVE  IndInv'
<1>1. UNCHANGED <<leaderVars, linkVars, followerDB, role, conn, cancelled, late, countVars>>
  BY DEF LoopEnds
<1>2. /\ loop[g] = "dial" /\ loop'[g] = "done" /\ \A h \in Loops \ {g} : loop'[h] = loop[h]
      /\ loop' \in [Loops -> {"off", "dial", "await", "stream", "done"}]
  BY DEF LoopEnds, IndInv, TypeOK
<1>3. TypeOK'
  BY <1>1, <1>2 DEF IndInv, TypeOK, leaderVars, linkVars, countVars
<1>4. ConnsInv'
  BY <1>1 DEF IndInv, ConnsInv, Unregistered, leaderVars, linkVars, countVars
<1>5. LoopsInv'
  BY <1>1, <1>2 DEF IndInv, LoopsInv, Awaiting, Commanded, linkVars, countVars
<1>6. IdsInv' /\ SentOnceInOrder'
  BY <1>1 DEF IndInv, IdsInv, SentOnceInOrder, ToCome, leaderVars, linkVars, countVars
<1> QED
  BY <1>3, <1>4, <1>5, <1>6 DEF IndInv

(***************************************************************************)
(* A write at the follower keeps the invariant.                            *)
(***************************************************************************)
LEMMA LocalWriteStep ==
  ASSUME IndInv, NEW op \in Ops, NEW inMulti \in BOOLEAN, LocalWrite(op, inMulti)
  PROVE  IndInv'
<1> USE ReplicationAssumption
<1>1. /\ UNCHANGED <<leaderVars, linkVars, role, loop, conn, cancelled, late>>
      /\ writes < MaxWrites /\ writes' = writes + 1 /\ UNCHANGED <<loops, breaks, conns>>
  BY DEF LocalWrite, CountWrite
<1>2. followerDB' \in Nat /\ writes' \in 0..MaxWrites
  BY <1>1, ExecuteNat DEF LocalWrite, IndInv, TypeOK
<1>3. TypeOK'
  BY <1>1, <1>2 DEF IndInv, TypeOK, leaderVars, linkVars
<1>4. ConnsInv' /\ SentOnceInOrder'
  BY <1>1 DEF IndInv, ConnsInv, Unregistered, SentOnceInOrder, ToCome, leaderVars, linkVars
<1>5. LoopsInv'
  BY <1>1 DEF IndInv, LoopsInv, Awaiting, Commanded, linkVars
<1>6. IdsInv'
  <2>1. writes' = writes + 1 /\ writes \in Nat /\ sent' = sent
    BY <1>1, ReplicationAssumption DEF IndInv, TypeOK, leaderVars, linkVars
  <2>2. ASSUME NEW k \in Conns, NEW i \in 1..Len(sent[k]) PROVE sent[k][i].id <= writes + 1
    <3>1. sent[k][i].id \in 1..writes
      BY SentTypes
    <3> QED
      BY <2>1, <3>1
  <2> QED
    BY <2>1, <2>2, <1>1 DEF IndInv, TypeOK, IdsInv, leaderVars, linkVars
<1> QED
  BY <1>3, <1>4, <1>5, <1>6 DEF IndInv

-----------------------------------------------------------------------------
(***************************************************************************)
(* The invariant is inductive.                                             *)
(***************************************************************************)
LEMMA NextIndInv == IndInv /\ [Next]_vars => IndInv'
<1> SUFFICES ASSUME IndInv, [Next]_vars PROVE IndInv'
  OBVIOUS
<1>1. ASSUME NEW c \in Clients, NEW op \in Ops, Exec(c, op) \/ execTransaction(c, op)
      PROVE  IndInv'
  BY <1>1, ExecStep, ExecTransactionStep
<1>2. ASSUME NEW c \in Clients, CopyReplicas(c) PROVE IndInv'
  BY <1>2, CopyReplicasStep
<1>3. ASSUME NEW c \in Clients, NEW k \in Conns, PropagateTo(c, k) PROVE IndInv'
  BY <1>3, PropagateToStep
<1>4. ASSUME NEW k \in Conns, SendSnapshot(k) \/ AddReplica(k) \/ Break(k) \/ RemoveReplica(k)
      PROVE  IndInv'
  BY <1>4, SendSnapshotStep, AddReplicaStep, BreakStep, RemoveReplicaStep
<1>5. CASE StartFollowing \/ StopFollowing
  BY <1>5, StartFollowingStep, StopFollowingStep
<1>6. ASSUME NEW g \in Loops,
             Dial(g) \/ LoadSnapshot(g) \/ ApplyNext(g) \/ ReadFails(g) \/ LoopEnds(g)
      PROVE  IndInv'
  BY <1>6, DialStep, LoadSnapshotStep, ApplyNextStep, ReadFailsStep, LoopEndsStep
<1>7. ASSUME NEW op \in Ops, NEW inMulti \in BOOLEAN, LocalWrite(op, inMulti) PROVE IndInv'
  BY <1>7, LocalWriteStep
<1>8. CASE UNCHANGED vars
  BY <1>8 DEF vars, leaderVars, linkVars, followerVars, countVars, IndInv, TypeOK, ConnsInv,
     Unregistered, LoopsInv, Awaiting, Commanded, IdsInv, SentOnceInOrder, ToCome
<1> QED
  BY <1>1, <1>2, <1>3, <1>4, <1>5, <1>6, <1>7, <1>8 DEF Next

(***************************************************************************)
(* The inductive invariant holds in every state.                           *)
(***************************************************************************)
LEMMA Inductive == Spec => []IndInv
BY InitIndInv, NextIndInv, PTL DEF Spec

(***************************************************************************)
(* A followLoop reads the snapshot first and only commands after it: no    *)
(* command overtakes the snapshot although PropagateToReplicas works from  *)
(* a copy of the replica map, and connections are not shared by loops,     *)
(* however many REPLICAOF commands follow each other.                      *)
(***************************************************************************)
THEOREM SnapshotComesFirst == Spec => []Inv
<1>1. IndInv => Inv
  BY DEF IndInv, Inv, LoopsInv, Awaiting, Commanded, SnapshotFirst
<1> QED
  BY <1>1, Inductive, PTL

(***************************************************************************)
(* No write goes to a replica twice and no client's writes change places,  *)
(* with any number of clients that propagate at the same time and replicas *)
(* that come and go meanwhile.                                             *)
(***************************************************************************)
THEOREM WritesAreSentOnceInOrder == Spec => []SentOnceInOrder
<1>1. IndInv => SentOnceInOrder
  BY DEF IndInv
<1> QED
  BY <1>1, Inductive, PTL

(***************************************************************************)
(* A followLoop takes in at most one message after REPLICAOF cancelled it. *)
(***************************************************************************)
THEOREM CancelledLoopTakesOne == Spec => []OneLateMessage
<1>1. IndInv => OneLateMessage
  <2> SUFFICES ASSUME IndInv, NEW g \in Loops PROVE late[g] <= 1
    BY DEF OneLateMessage
  <2>1. late[g] \in Nat
    BY DEF IndInv, TypeOK
  <2> QED
    BY <2>1 DEF IndInv, LoopsInv
<1> QED
  BY <1>1, Inductive, PTL

-----------------------------------------------------------------------------
(***************************************************************************)
(* When a follower that has read everything holds what the leader holds.   *)
(* The conditions leave out what is known to break it: several clients,    *)
(* whose commands are propagated in another order than they were executed, *)
(* commands that followers do not apply as the leader does, writes during  *)
(* a handshake, writes without propagation, and a second followLoop beside *)
(* a cancelled one.  Connections may break and be made again at any time.  *)
(***************************************************************************)
OneWriter ==
  /\ \A c, d \in Clients : c = d
  /\ Ops \subseteq {"SET", "INCR"} /\ Features = {} /\ ~WritesDuringSync /\ MaxLoops <= 1

(***************************************************************************)
(* The commands of q, applied one by one, lead from the store v to w.      *)
(***************************************************************************)
Leads(v, q, w) ==
  \E f \in [0..Len(q) -> Nat] :
    /\ f[0] = v /\ f[Len(q)] = w
    /\ \A i \in 1..Len(q) : f[i] = applyReplicatedCommand(f[i - 1], q[i].value)

(***************************************************************************)
(* The client's command has been executed and is still to be sent on k.    *)
(***************************************************************************)
Owed(c, k) == pc[c] = "executed" \/ (pc[c] = "sending" /\ k \in targets[c])

(***************************************************************************)
(* From v, the commands of q and one that is still to be sent on k lead to *)
(* what the leader holds.                                                  *)
(***************************************************************************)
Behind(v, q, k) ==
  \E w \in Nat :
    /\ Leads(v, q, w)
    /\ \/ \E c \in Clients : Owed(c, k) /\ leaderDB = applyReplicatedCommand(w, cmd[c])
       \/ (\A c \in Clients : ~Owed(c, k)) /\ leaderDB = w

(***************************************************************************)
(* What holds of a followLoop with an open connection.                     *)
(***************************************************************************)
Supplied(g) ==
  LET k == conn[g] IN
  k \in open =>
    /\ loop[g] = "await" =>
         \/ serve[k] = "asked"
         \/ /\ serve[k] \in {"dumped", "registered"} /\ stream[k] # <<>>
            /\ Behind(Head(stream[k]).value, Tail(stream[k]), k)
    /\ loop[g] = "stream" =>
         serve[k] \in {"dumped", "registered"} /\ Behind(followerDB, stream[k], k)

(***************************************************************************)
(* The invariant: no command is under way during a handshake, no loop is   *)
(* cancelled, and every connection brings the follower to the leader.      *)
(***************************************************************************)
QuietInv ==
  /\ Handshaking => \A c \in Clients : pc[c] = "idle"
  /\ cancelled = {}
  /\ \A k \in open : serve[k] # "gone"
  /\ \A g \in Loops : Supplied(g)

(***************************************************************************)
(* Without commands the store stays; with one more it goes one step on;    *)
(* applying the first leaves the others.                                   *)
(***************************************************************************)
LEMMA LeadsNowhere ==
  ASSUME NEW v \in Nat
  PROVE  /\ Leads(v, <<>>, v)
         /\ \A w : Leads(v, <<>>, w) => v = w
<1>1. PICK e : e = <<>>
  OBVIOUS
<1>2. Len(e) = 0 /\ \A i : i \notin 1..Len(e)
  BY <1>1
<1>3. PICK f : f = [i \in 0..0 |-> v]
  OBVIOUS
<1>4. f \in [0..0 -> Nat] /\ f[0] = v
  BY <1>3
<1>5. Leads(v, e, v)
  BY <1>2, <1>4 DEF Leads
<1>6. \A w : Leads(v, e, w) => v = w
  BY <1>2 DEF Leads
<1> QED
  BY <1>1, <1>5, <1>6

(***************************************************************************)
(* One more command at the end.                                            *)
(***************************************************************************)
LEMMA LeadsAppend ==
  ASSUME NEW v \in Nat, NEW q \in Seq(Messages), NEW w \in Nat, NEW m \in Messages,
         m.value \in Commands, Leads(v, q, w)
  PROVE  Leads(v, Append(q, m), applyReplicatedCommand(w, m.value))
<1>1. PICK n \in Nat : n = Len(q)
  BY LenProperties
<1>2. PICK p \in Seq(Messages) : p = Append(q, m)
  BY AppendAt
<1>3. Len(p) = n + 1 /\ p[n + 1] = m /\ \A i \in 1..n : p[i] = q[i]
  BY <1>1, <1>2, AppendAt
<1>4. PICK x \in Nat : x = applyReplicatedCommand(w, m.value)
  BY ApplyNat
<1>5. PICK f \in [0..n -> Nat] :
        /\ f[0] = v /\ f[n] = w
        /\ \A i \in 1..n : f[i] = applyReplicatedCommand(f[i - 1], q[i].value)
  BY <1>1 DEF Leads
<1>6. PICK g : g = [i \in 0..(n + 1) |-> IF i = n + 1 THEN x ELSE f[i]]
  OBVIOUS
<1>7. /\ g \in [0..(n + 1) -> Nat] /\ g[n + 1] = x
      /\ \A i \in 0..n : g[i] = f[i]
  <2>1. \A i \in 0..(n + 1) : i # n + 1 => i \in 0..n
    OBVIOUS
  <2>2. \A i \in 0..n : i \in 0..(n + 1) /\ i # n + 1
    OBVIOUS
  <2>3. n + 1 \in 0..(n + 1)
    OBVIOUS
  <2> QED
    BY <1>6, <2>1, <2>2, <2>3
<1>8. ASSUME NEW i \in 1..(n + 1) PROVE g[i] = applyReplicatedCommand(g[i - 1], p[i].value)
  <2>1. i - 1 \in 0..n
    OBVIOUS
  <2>2. CASE i = n + 1
    <3>1. i - 1 = n /\ g[i - 1] = w
      BY <1>5, <1>7, <2>1, <2>2
    <3> QED
      BY <1>3, <1>4, <1>7, <2>2, <3>1
  <2>3. CASE i # n + 1
    <3>1. i \in 1..n /\ i \in 0..n
      BY <2>3
    <3> QED
      BY <1>3, <1>5, <1>7, <2>1, <3>1
  <2> QED
    BY <2>2, <2>3
<1>9. 0 \in 0..n /\ g[0] = v
  BY <1>5, <1>7
<1>10. Leads(v, p, x)
  BY <1>3, <1>7, <1>8, <1>9 DEF Leads
<1> QED
  BY <1>2, <1>4, <1>10

(***************************************************************************)
(* The first command applied.                                              *)
(***************************************************************************)
LEMMA LeadsTail ==
  ASSUME NEW v \in Nat, NEW q \in Seq(Messages), NEW w \in Nat, q # <<>>, Leads(v, q, w)
  PROVE  Leads(applyReplicatedCommand(v, Head(q).value), Tail(q), w)
<1>1. PICK n \in Nat : n = Len(q) /\ n > 0
  BY LenProperties, EmptySeq
<1>2. PICK p \in Seq(Messages) : p = Tail(q)
  BY HeadTailProperties
<1>3. Len(p) = n - 1 /\ n - 1 \in Nat /\ \A i \in 1..(n - 1) : p[i] = q[i + 1]
  BY <1>1, <1>2
<1>4. Head(q) = q[1]
  BY <1>1
<1>5. PICK f \in [0..n -> Nat] :
        /\ f[0] = v /\ f[n] = w
        /\ \A i \in 1..n : f[i] = applyReplicatedCommand(f[i - 1], q[i].value)
  BY <1>1 DEF Leads
<1>6. PICK g : g = [i \in 0..(n - 1) |-> f[i + 1]]
  OBVIOUS
<1>7. g \in [0..(n - 1) -> Nat] /\ \A i \in 0..(n - 1) : g[i] = f[i + 1]
  <2>1. \A i \in 0..(n - 1) : i + 1 \in 0..n
    BY <1>1
  <2> QED
    BY <1>6, <2>1
<1>8. g[0] = applyReplicatedCommand(v, Head(q).value)
  <2>1. 1 \in 1..n /\ 1 - 1 = 0 /\ 0 \in 0..(n - 1) /\ 0 + 1 = 1
    BY <1>1
  <2>2. f[1] = applyReplicatedCommand(f[1 - 1], q[1].value)
    BY <1>5, <2>1
  <2> QED
    BY <1>4, <1>5, <1>7, <2>1, <2>2
<1>9. g[n - 1] = w
  <2>1. n - 1 \in 0..(n - 1) /\ (n - 1) + 1 = n
    BY <1>1
  <2> QED
    BY <1>5, <1>7, <2>1
<1>10. ASSUME NEW i \in 1..(n - 1) PROVE g[i] = applyReplicatedCommand(g[i - 1], p[i].value)
  <2>1. i + 1 \in 1..n /\ (i + 1) - 1 = i /\ i - 1 \in 0..(n - 1) /\ (i - 1) + 1 = i /\ i \in 0..(n - 1)
    BY <1>1
  <2>2. f[i + 1] = applyReplicatedCommand(f[(i + 1) - 1], q[i + 1].value)
    BY <1>5, <2>1
  <2>3. g[i] = f[i + 1] /\ g[i - 1] = f[i]
    BY <1>7, <2>1
  <2> QED
    BY <1>3, <2>1, <2>2, <2>3
<1>11. Leads(g[0], p, w)
  BY <1>3, <1>7, <1>9, <1>10 DEF Leads
<1> QED
  BY <1>2, <1>8, <1>11

(***************************************************************************)
(* What the conditions and the invariant give at the start of a step.      *)
(***************************************************************************)
LEMMA QuietFacts ==
  ASSUME OneWriter, IndInv, QuietInv, NEW g \in Loops
  PROVE  /\ \A h \in Loops : h = g
         /\ loop[g] \in {"await", "stream"} => conn[g] \in Conns /\ stream[conn[g]] \in Seq(Messages)
         /\ (loop[g] = "await" /\ conn[g] \in open /\ serve[conn[g]] # "asked") =>
               /\ stream[conn[g]] # <<>> /\ serve[conn[g]] \in {"dumped", "registered"}
               /\ Head(stream[conn[g]]).value \in Nat
               /\ Tail(stream[conn[g]]) \in Seq(Messages)
               /\ Behind(Head(stream[conn[g]]).value, Tail(stream[conn[g]]), conn[g])
         /\ (loop[g] = "stream" /\ conn[g] \in open) =>
               serve[conn[g]] \in {"dumped", "registered"} /\ Behind(followerDB, stream[conn[g]], conn[g])
<1>1. \A h \in Loops : h = g
  BY ReplicationAssumption DEF OneWriter, Loops
<1>2. loop[g] \in {"await", "stream"} => conn[g] \in Conns /\ stream[conn[g]] \in Seq(Messages)
  BY ReplicationAssumption DEF IndInv, TypeOK, Conns
<1>3. Supplied(g)
  BY DEF QuietInv
<1>4. ASSUME loop[g] = "await", conn[g] \in open, serve[conn[g]] # "asked"
      PROVE  /\ stream[conn[g]] # <<>> /\ serve[conn[g]] \in {"dumped", "registered"}
             /\ Head(stream[conn[g]]).value \in Nat
             /\ Tail(stream[conn[g]]) \in Seq(Messages)
             /\ Behind(Head(stream[conn[g]]).value, Tail(stream[conn[g]]), conn[g])
  <2>1. /\ stream[conn[g]] # <<>> /\ serve[conn[g]] \in {"dumped", "registered"}
        /\ Behind(Head(stream[conn[g]]).value, Tail(stream[conn[g]]), conn[g])
    BY <1>3, <1>4 DEF Supplied
  <2>2. Head(stream[conn[g]]) \in Messages /\ Tail(stream[conn[g]]) \in Seq(Messages)
    BY <1>2, <1>4, <2>1, HeadTailProperties
  <2>3. Head(stream[conn[g]]).kind = "snapshot"
    BY <1>4, <2>1 DEF IndInv, LoopsInv, Awaiting
  <2>4. Head(stream[conn[g]]).value \in Nat
    BY <2>2, <2>3 DEF Messages
  <2> QED
    BY <2>1, <2>2, <2>4
<1>5. (loop[g] = "stream" /\ conn[g] \in open) =>
         serve[conn[g]] \in {"dumped", "registered"} /\ Behind(followerDB, stream[conn[g]], conn[g])
  BY <1>3 DEF Supplied
<1> QED
  BY <1>1, <1>2, <1>4, <1>5

(***************************************************************************)
(* A step that leaves the leader's clients and a followLoop with what it   *)
(* reads alone; its connection may break or be registered.                 *)
(***************************************************************************)
LEMMA SuppliedStays ==
  ASSUME NEW g \in Loops, Supplied(g), UNCHANGED <<leaderVars, followerDB>>,
         conn'[g] = conn[g], loop'[g] = loop[g], stream'[conn[g]] = stream[conn[g]],
         conn[g] \in open' => conn[g] \in open,
         conn[g] \in open' => \/ serve'[conn[g]] = serve[conn[g]]
                              \/ serve[conn[g]] = "dumped" /\ serve'[conn[g]] = "registered"
  PROVE  Supplied(g)'
<1>1. \A v, q, k : Behind(v, q, k) => Behind(v, q, k)'
  BY DEF Behind, Owed, leaderVars
<1> QED
  BY <1>1 DEF Supplied, leaderVars

(***************************************************************************)
(* A command is executed: from now on it is owed to every replica.         *)
(***************************************************************************)
LEMMA ExecQuiet ==
  ASSUME OneWriter, IndInv, QuietInv, NEW c \in Clients, NEW op \in Ops, Exec(c, op)
  PROVE  QuietInv'
<1>1. /\ ~Handshaking /\ pc[c] = "idle" /\ UNCHANGED <<targets, linkVars, followerVars>>
      /\ op \in {"SET", "INCR"} /\ leaderDB' = Execute(leaderDB, cmd'[c])
  BY DEF Exec, OneWriter
<1>2. pc'[c] = "executed" /\ cmd'[c].op = op
  BY <1>1 DEF Exec, isWriteCommand, IndInv, TypeOK
<1>3. \A d : Execute(d, cmd'[c]) = applyReplicatedCommand(d, cmd'[c])
  BY <1>1, <1>2 DEF Execute, applyReplicatedCommand
<1>4. ASSUME NEW v, NEW q, NEW k, Behind(v, q, k) PROVE Behind(v, q, k)'
  <2>1. \A d \in Clients : ~Owed(d, k)
    BY <1>1 DEF OneWriter, Owed
  <2>2. PICK w \in Nat : Leads(v, q, w) /\ leaderDB = w
    BY <1>4, <2>1 DEF Behind
  <2>3. Owed(c, k)' /\ leaderDB' = applyReplicatedCommand(w, cmd'[c])
    BY <1>1, <1>2, <1>3, <2>2 DEF Owed
  <2> QED
    BY <2>2, <2>3 DEF Behind
<1>5. ~Handshaking'
  BY <1>1 DEF Handshaking, linkVars
<1>6. ASSUME NEW g \in Loops PROVE Supplied(g)'
  <2>1. Supplied(g)
    BY DEF QuietInv
  <2> QED
    BY <1>1, <1>4, <2>1 DEF Supplied, linkVars, followerVars
<1> QED
  BY <1>1, <1>5, <1>6 DEF QuietInv, linkVars, followerVars

(***************************************************************************)
(* The map of replicas is copied: one that has its snapshot is in it.      *)
(***************************************************************************)
LEMMA CopyReplicasQuiet ==
  ASSUME OneWriter, IndInv, QuietInv, NEW c \in Clients, CopyReplicas(c)
  PROVE  QuietInv'
<1>1. /\ pc[c] = "executed" /\ targets'[c] = Registered
      /\ pc'[c] = IF Registered = {} THEN "idle" ELSE "sending"
      /\ UNCHANGED <<leaderDB, cmd, linkVars, followerVars, countVars>>
  BY DEF CopyReplicas, IndInv, TypeOK
<1>2. ~Handshaking
  BY <1>1 DEF QuietInv
<1>3. ASSUME NEW v, NEW q, NEW k \in Registered, Behind(v, q, k) PROVE Behind(v, q, k)'
  <2>1. Owed(c, k) /\ Owed(c, k)'
    BY <1>1 DEF Owed
  <2>2. PICK w \in Nat : Leads(v, q, w) /\ leaderDB = applyReplicatedCommand(w, cmd[c])
    BY <1>3, <2>1 DEF Behind, OneWriter
  <2> QED
    BY <1>1, <2>1, <2>2 DEF Behind
<1>4. ~Handshaking'
  BY <1>1, <1>2 DEF Handshaking, linkVars
<1>5. ASSUME NEW g \in Loops PROVE Supplied(g)'
  <2>1. loop[g] \in {"await", "stream"} => conn[g] \in Conns
    BY QuietFacts
  <2>2. Supplied(g)
    BY DEF QuietInv
  <2>3. (loop[g] \in {"await", "stream"} /\ serve[conn[g]] \in {"dumped", "registered"}) => conn[g] \in Registered
    BY <1>2, <2>1 DEF Handshaking, Registered
  <2> QED
    BY <1>1, <1>3, <2>2, <2>3 DEF Supplied, linkVars, followerVars
<1> QED
  BY <1>1, <1>4, <1>5 DEF QuietInv, linkVars, followerVars

(***************************************************************************)
(* The command is sent to one replica, if its connection is up.            *)
(***************************************************************************)
LEMMA PropagateToQuiet ==
  ASSUME OneWriter, IndInv, QuietInv, NEW c \in Clients, NEW k \in Conns, PropagateTo(c, k)
  PROVE  QuietInv'
<1>1. /\ pc[c] = "sending" /\ k \in targets[c]
      /\ targets'[c] = targets[c] \ {k}
      /\ pc'[c] = IF targets[c] = {k} THEN "idle" ELSE "sending"
      /\ UNCHANGED <<leaderDB, cmd, serve, open, followerVars, countVars>>
  BY DEF PropagateTo, IndInv, TypeOK
<1>2. ~Handshaking /\ ~Handshaking'
  BY <1>1 DEF QuietInv, Handshaking
<1>3. PICK m : m = [kind |-> "command", value |-> cmd[c]]
  OBVIOUS
<1>4. m \in Messages /\ m.value = cmd[c] /\ m.value \in Commands
  BY <1>3 DEF Messages, IndInv, TypeOK
<1>5. stream \in [Conns -> Seq(Messages)]
  BY DEF IndInv, TypeOK
<1>6. /\ k \in open => stream'[k] = Append(stream[k], m)
      /\ \A l \in Conns \ {k} : stream'[l] = stream[l]
  BY <1>3, <1>5 DEF PropagateTo
<1>7. ASSUME NEW v \in Nat, NEW q \in Seq(Messages), Behind(v, q, k) PROVE Behind(v, Append(q, m), k)'
  <2>1. Owed(c, k) /\ ~Owed(c, k)'
    BY <1>1 DEF Owed
  <2>2. PICK w \in Nat : Leads(v, q, w) /\ leaderDB = applyReplicatedCommand(w, cmd[c])
    BY <1>7, <2>1 DEF Behind, OneWriter
  <2>3. Leads(v, Append(q, m), applyReplicatedCommand(w, m.value))
    BY <1>4, <2>2, LeadsAppend
  <2>4. applyReplicatedCommand(w, m.value) \in Nat
    BY <1>4, ApplyNat
  <2>5. PICK x \in Nat : x = applyReplicatedCommand(w, m.value)
    BY <2>4
  <2>6. Leads(v, Append(q, m), x) /\ leaderDB' = x /\ \A d \in Clients : ~Owed(d, k)'
    BY <1>1, <1>4, <2>1, <2>2, <2>3, <2>5 DEF OneWriter
  <2> QED
    BY <2>6 DEF Behind
<1>8. ASSUME NEW v, NEW q, NEW l, l # k, Behind(v, q, l) PROVE Behind(v, q, l)'
  <2>1. \A d \in Clients : Owed(d, l)' <=> Owed(d, l)
    <3>1. Owed(c, l)' <=> Owed(c, l)
      BY <1>1, <1>8 DEF Owed
    <3> QED
      BY <3>1 DEF OneWriter
  <2> QED
    BY <1>1, <1>8, <2>1 DEF Behind
<1>9. ASSUME NEW g \in Loops PROVE Supplied(g)'
  <2>0. UNCHANGED <<loop, conn, followerDB, serve, open>>
    BY <1>1 DEF followerVars
  <2>1. CASE conn[g] # k
    <3>1. Supplied(g)
      BY DEF QuietInv
    <3>2. loop[g] \in {"await", "stream"} => stream'[conn[g]] = stream[conn[g]]
      BY <1>6, <2>1, QuietFacts
    <3> QED
      BY <1>8, <2>0, <2>1, <3>1, <3>2 DEF Supplied
  <2>2. CASE conn[g] = k /\ k \in open /\ loop[g] = "stream"
    <3>1. serve[k] \in {"dumped", "registered"} /\ Behind(followerDB, stream[k], k)
      BY <2>2, QuietFacts
    <3>2. PICK v \in Nat : v = followerDB
      BY DEF IndInv, TypeOK
    <3>3. PICK q \in Seq(Messages) : q = stream[k]
      BY <1>5
    <3>4. Behind(v, Append(q, m), k)'
      BY <1>7, <3>1, <3>2, <3>3
    <3>5. followerDB' = v /\ stream'[k] = Append(q, m)
      BY <1>6, <2>0, <2>2, <3>2, <3>3
    <3>6. Behind(followerDB, stream[k], k)'
      BY <3>4, <3>5
    <3> QED
      BY <2>0, <2>2, <3>1, <3>6 DEF Supplied
  <2>3. CASE conn[g] = k /\ k \in open /\ loop[g] = "await"
    <3>0. serve[k] # "asked"
      BY <1>2 DEF Handshaking
    <3>1. /\ stream[k] # <<>> /\ serve[k] \in {"dumped", "registered"}
          /\ Head(stream[k]).value \in Nat /\ Tail(stream[k]) \in Seq(Messages)
          /\ Behind(Head(stream[k]).value, Tail(stream[k]), k)
      BY <2>3, <3>0, QuietFacts
    <3>2. PICK v \in Nat : v = Head(stream[k]).value
      BY <3>1
    <3>3. PICK q \in Seq(Messages) : q = Tail(stream[k])
      BY <3>1
    <3>4. Behind(v, Append(q, m), k)'
      BY <1>7, <3>1, <3>2, <3>3
    <3>5. PICK s \in Seq(Messages) : s = stream[k] /\ s # <<>>
      BY <1>5, <3>1
    <3>6. stream'[k] = Append(s, m) /\ stream'[k] # <<>> /\ Head(Append(s, m)) = Head(s)
      BY <1>4, <1>6, <2>3, <3>5, AppendAt
    <3>7. Tail(Append(s, m)) = Append(Tail(s), m)
      BY <1>4, <3>5
    <3>8. Head(stream'[k]).value = v /\ Tail(stream'[k]) = Append(q, m)
      BY <3>2, <3>3, <3>5, <3>6, <3>7
    <3>9. Behind(Head(stream[k]).value, Tail(stream[k]), k)'
      BY <3>4, <3>8
    <3> QED
      BY <2>0, <2>3, <3>1, <3>6, <3>9 DEF Supplied
  <2> QED
    BY <2>0, <2>1, <2>2, <2>3 DEF Supplied
<1> QED
  BY <1>1, <1>2, <1>9 DEF QuietInv, followerVars

(***************************************************************************)
(* The snapshot is sent: no command is under way, so it is what the leader *)
(* holds and will hold until the replica is registered.                    *)
(***************************************************************************)
LEMMA SendSnapshotQuiet ==
  ASSUME OneWriter, IndInv, QuietInv, NEW k \in Conns, SendSnapshot(k)
  PROVE  QuietInv'
<1>1. /\ serve[k] = "asked" /\ serve'[k] = "dumped" /\ \A l \in Conns \ {k} : serve'[l] = serve[l]
      /\ UNCHANGED <<open, sent, leaderVars, followerVars, countVars>>
  BY DEF SendSnapshot, IndInv, TypeOK
<1>2. \A c \in Clients : pc[c] = "idle" /\ pc'[c] = "idle"
  BY <1>1 DEF QuietInv, Handshaking, leaderVars
<1>3. stream \in [Conns -> Seq(Messages)] /\ stream[k] = <<>> /\ leaderDB \in Nat
  BY <1>1 DEF IndInv, TypeOK, ConnsInv
<1>4. PICK m : m = [kind |-> "snapshot", value |-> leaderDB]
  OBVIOUS
<1>5. /\ k \in open => stream'[k] = <<m>>
      /\ \A l \in Conns \ {k} : stream'[l] = stream[l]
  BY <1>3, <1>4 DEF SendSnapshot
<1>6. Behind(leaderDB, <<>>, k)'
  <2>1. PICK v \in Nat : v = leaderDB
    BY <1>3
  <2>2. PICK e : e = <<>>
    OBVIOUS
  <2>3. Leads(v, e, v)
    BY <2>2, LeadsNowhere
  <2>4. \A c \in Clients : ~Owed(c, k)'
    BY <1>2 DEF Owed
  <2>5. leaderDB' = v
    BY <1>1, <2>1 DEF leaderVars
  <2>6. Behind(v, e, k)'
    BY <2>3, <2>4, <2>5 DEF Behind
  <2> QED
    BY <2>2, <2>5, <2>6
<1>7. ASSUME NEW g \in Loops PROVE Supplied(g)'
  <2>0. UNCHANGED <<loop, conn, followerDB, open, leaderDB>>
    BY <1>1 DEF followerVars, leaderVars
  <2>1. CASE conn[g] # k /\ loop[g] \in {"await", "stream"}
    <3>1. conn[g] \in Conns /\ Supplied(g)
      BY <2>1, QuietFacts DEF QuietInv
    <3> QED
      BY <1>1, <1>5, <2>0, <2>1, <3>1, SuppliedStays
  <2>2. CASE conn[g] = k /\ loop[g] = "await" /\ k \in open
    <3>1. stream'[k] = <<m>> /\ m.value = leaderDB
      BY <1>4, <1>5, <2>2
    <3>2. stream'[k] # <<>> /\ Head(stream'[k]).value = leaderDB' /\ Tail(stream'[k]) = <<>>
      BY <2>0, <3>1
    <3>3. Behind(Head(stream[k]).value, Tail(stream[k]), k)'
      BY <1>6, <3>2
    <3> QED
      BY <1>1, <2>0, <2>2, <3>2, <3>3 DEF Supplied
  <2>3. ~(conn[g] = k /\ loop[g] = "stream" /\ k \in open)
    BY <1>1, QuietFacts
  <2> QED
    BY <2>0, <2>1, <2>2, <2>3 DEF Supplied
<1>8. \A l \in open' : serve'[l] # "gone"
  BY <1>1 DEF QuietInv, IndInv, TypeOK
<1> QED
  BY <1>1, <1>2, <1>7, <1>8 DEF QuietInv, followerVars

(***************************************************************************)
(* The leader's side of a connection moves on, or the connection breaks.   *)
(***************************************************************************)
LEMMA LinkQuiet ==
  ASSUME OneWriter, IndInv, QuietInv, NEW k \in Conns, AddReplica(k) \/ RemoveReplica(k) \/ Break(k)
  PROVE  QuietInv'
<1>1. /\ UNCHANGED <<stream, leaderVars, followerVars>> /\ open' \subseteq open
      /\ \A l \in Conns : l \in open' => \/ serve'[l] = serve[l]
                                         \/ serve[l] = "dumped" /\ serve'[l] = "registered"
      /\ \A l \in Conns : serve'[l] \in {"asked", "dumped"} => serve[l] \in {"asked", "dumped"}
  BY DEF AddReplica, RemoveReplica, Break, IndInv, TypeOK
<1>2. ASSUME NEW g \in Loops PROVE Supplied(g)'
  <2>0. UNCHANGED <<loop, conn, followerDB, leaderVars>>
    BY <1>1 DEF followerVars
  <2>1. CASE loop[g] \in {"await", "stream"}
    <3>1. conn[g] \in Conns /\ Supplied(g)
      BY <2>1, QuietFacts DEF QuietInv
    <3> QED
      BY <1>1, <2>0, <3>1, SuppliedStays
  <2>2. CASE loop[g] \notin {"await", "stream"}
    BY <2>0, <2>2 DEF Supplied
  <2> QED
    BY <2>1, <2>2
<1>3. Handshaking' => \A c \in Clients : pc'[c] = "idle"
  BY <1>1 DEF QuietInv, Handshaking, leaderVars
<1>4. \A l \in open' : serve'[l] # "gone"
  <2>1. open \subseteq Conns
    BY DEF IndInv, TypeOK
  <2> QED
    BY <1>1, <2>1 DEF QuietInv
<1> QED
  BY <1>1, <1>2, <1>3, <1>4 DEF QuietInv, followerVars

(***************************************************************************)
(* The one followLoop starts.                                              *)
(***************************************************************************)
LEMMA StartFollowingQuiet ==
  ASSUME OneWriter, IndInv, QuietInv, StartFollowing
  PROVE  QuietInv'
<1>1. /\ loops \in Nat /\ loops < MaxLoops /\ MaxLoops <= 1 /\ MaxLoops \in Nat
      /\ UNCHANGED <<leaderVars, linkVars, followerDB, conn>>
      /\ cancelled' = cancelled \cup 1..loops
      /\ loop' = [loop EXCEPT ![loops + 1] = "dial"]
  BY ReplicationAssumption DEF StartFollowing, IndInv, TypeOK, OneWriter
<1>2. loops = 0 /\ Loops = {1}
  BY <1>1 DEF Loops
<1>3. 1..loops = {}
  BY <1>2
<1>4. cancelled' = {}
  BY <1>1, <1>3 DEF QuietInv
<1>5. loop'[1] = "dial"
  BY <1>1, <1>2 DEF IndInv, TypeOK
<1>6. \A g \in Loops : Supplied(g)'
  BY <1>2, <1>5 DEF Supplied
<1> QED
  BY <1>1, <1>4, <1>6 DEF QuietInv, Handshaking, leaderVars, linkVars

(***************************************************************************)
(* A followLoop connects, while no command is under way.                   *)
(***************************************************************************)
LEMMA DialQuiet ==
  ASSUME OneWriter, IndInv, QuietInv, NEW g \in Loops, Dial(g)
  PROVE  QuietInv'
<1>1. /\ \A c \in Clients : pc[c] = "idle"
      /\ UNCHANGED <<leaderVars, followerDB, cancelled>>
  BY DEF Dial, OneWriter
<1>2. PICK k \in Conns : k = conns + 1
  BY ReplicationAssumption DEF Dial, IndInv, TypeOK, Conns
<1>3. /\ open' = open \cup {k} /\ serve'[k] = "asked" /\ \A l \in Conns \ {k} : serve'[l] = serve[l]
      /\ conn'[g] = k /\ loop'[g] = "await"
  BY <1>2, ReplicationAssumption DEF Dial, IndInv, TypeOK, Conns
<1>4. Supplied(g)'
  BY <1>3 DEF Supplied
<1>5. \A h \in Loops : Supplied(h)'
  BY <1>4, QuietFacts
<1>6. \A l \in open' : serve'[l] # "gone"
  BY <1>3 DEF QuietInv, IndInv, TypeOK
<1>7. \A c \in Clients : pc'[c] = "idle"
  BY <1>1 DEF leaderVars
<1> QED
  BY <1>1, <1>5, <1>6, <1>7 DEF QuietInv

(***************************************************************************)
(* A followLoop reads: the snapshot, a command, or the end of the          *)
(* connection.                                                             *)
(***************************************************************************)
LEMMA FollowQuiet ==
  ASSUME OneWriter, IndInv, QuietInv, NEW g \in Loops, LoadSnapshot(g) \/ ApplyNext(g) \/ ReadFails(g)
  PROVE  QuietInv'
<1>1. UNCHANGED <<serve, leaderVars, cancelled>> /\ open' \subseteq open /\ cancelled = {}
  BY DEF LoadSnapshot, ApplyNext, ReadFails, ReadOn, QuietInv
<1>2. \A v, q, k : Behind(v, q, k) => Behind(v, q, k)'
  BY <1>1 DEF Behind, Owed, leaderVars
<1>3. conn[g] \in Conns /\ stream[conn[g]] \in Seq(Messages)
  BY QuietFacts DEF LoadSnapshot, ApplyNext, ReadFails
<1>4. PICK k \in Conns : k = conn[g]
  BY <1>3
<1>5. PICK s \in Seq(Messages) : s = stream[k]
  BY <1>3, <1>4
<1>6. ASSUME LoadSnapshot(g) \/ ApplyNext(g)
      PROVE  /\ s # <<>> /\ stream'[k] = Tail(s) /\ loop'[g] = "stream" /\ conn'[g] = k /\ open' = open
  <2>1. s # <<>> /\ ReadOn(g)
    BY <1>4, <1>5, <1>6 DEF LoadSnapshot, ApplyNext
  <2> QED
    BY <1>1, <1>4, <1>5, <2>1 DEF ReadOn, IndInv, TypeOK
<1>7. ASSUME LoadSnapshot(g) PROVE Supplied(g)'
  <2>1. /\ s # <<>> /\ stream'[k] = Tail(s) /\ loop'[g] = "stream" /\ conn'[g] = k /\ open' = open
    BY <1>6, <1>7
  <2>2. loop[g] = "await" /\ followerDB' = Head(s).value
    BY <1>4, <1>5, <1>7 DEF LoadSnapshot
  <2>3. serve[k] # "asked"
    BY <1>5, <2>1 DEF IndInv, ConnsInv
  <2>4. k \in open => serve[k] \in {"dumped", "registered"} /\ Behind(Head(s).value, Tail(s), k)
    BY <1>4, <1>5, <2>2, <2>3, QuietFacts
  <2>5. k \in open => Behind(Head(s).value, Tail(s), k)'
    BY <1>2, <2>4
  <2>6. k \in open => Behind(followerDB, stream[k], k)'
    BY <2>1, <2>2, <2>5
  <2> QED
    BY <1>1, <2>1, <2>4, <2>6 DEF Supplied
<1>8. ASSUME ApplyNext(g) PROVE Supplied(g)'
  <2>1. /\ s # <<>> /\ stream'[k] = Tail(s) /\ loop'[g] = "stream" /\ conn'[g] = k /\ open' = open
    BY <1>6, <1>8
  <2>2. loop[g] = "stream" /\ followerDB' = applyReplicatedCommand(followerDB, Head(s).value)
    BY <1>4, <1>5, <1>8 DEF ApplyNext
  <2>3. k \in open => serve[k] \in {"dumped", "registered"} /\ Behind(followerDB, s, k)
    BY <1>4, <1>5, <2>2, QuietFacts
  <2>4. PICK v \in Nat : v = followerDB
    BY DEF IndInv, TypeOK
  <2>5. PICK x : x = applyReplicatedCommand(v, Head(s).value)
    OBVIOUS
  <2>6. k \in open => Behind(x, Tail(s), k)
    <3>1. ASSUME NEW w \in Nat, Leads(v, s, w) PROVE Leads(x, Tail(s), w)
      BY <2>1, <2>5, <3>1, LeadsTail
    <3>2. PICK t : t = Tail(s)
      OBVIOUS
    <3>3. k \in open => Behind(v, s, k)
      BY <2>3, <2>4
    <3>4. k \in open => Behind(x, t, k)
      BY <3>1, <3>2, <3>3 DEF Behind
    <3> QED
      BY <3>2, <3>4
  <2>7. k \in open => Behind(x, Tail(s), k)'
    BY <1>2, <2>6
  <2>8. k \in open => Behind(followerDB, stream[k], k)'
    BY <2>1, <2>2, <2>4, <2>5, <2>7
  <2> QED
    BY <1>1, <2>1, <2>3, <2>8 DEF Supplied
<1>9. ASSUME ReadFails(g) PROVE Supplied(g)'
  <2>1. loop'[g] = "dial"
    BY <1>1, <1>9 DEF ReadFails, IndInv, TypeOK
  <2> QED
    BY <2>1 DEF Supplied
<1>10. \A h \in Loops : Supplied(h)'
  BY <1>7, <1>8, <1>9, QuietFacts
<1>11. Handshaking' => \A c \in Clients : pc'[c] = "idle"
  BY <1>1 DEF QuietInv, Handshaking, leaderVars
<1> QED
  BY <1>1, <1>10, <1>11 DEF QuietInv

(***************************************************************************)
(* Every step keeps it: what the conditions exclude cannot happen.         *)
(***************************************************************************)
LEMMA NextQuiet ==
  ASSUME OneWriter
  PROVE  IndInv /\ QuietInv /\ [Next]_vars => QuietInv'
<1> SUFFICES ASSUME IndInv, QuietInv, [Next]_vars PROVE QuietInv'
  OBVIOUS
<1>1. ASSUME NEW c \in Clients, NEW op \in Ops, Exec(c, op) \/ execTransaction(c, op) PROVE QuietInv'
  BY <1>1, ExecQuiet DEF execTransaction, OneWriter
<1>2. ASSUME NEW c \in Clients, CopyReplicas(c) \/ \E k \in Conns : PropagateTo(c, k) PROVE QuietInv'
  BY <1>2, CopyReplicasQuiet, PropagateToQuiet
<1>3. ASSUME NEW k \in Conns, SendSnapshot(k) \/ AddReplica(k) \/ Break(k) \/ RemoveReplica(k)
      PROVE  QuietInv'
  BY <1>3, SendSnapshotQuiet, LinkQuiet
<1>4. CASE StartFollowing \/ StopFollowing
  BY <1>4, StartFollowingQuiet DEF StopFollowing, OneWriter
<1>5. ASSUME NEW g \in Loops,
             Dial(g) \/ LoadSnapshot(g) \/ ApplyNext(g) \/ ReadFails(g) \/ LoopEnds(g)
      PROVE  QuietInv'
  BY <1>5, DialQuiet, FollowQuiet DEF LoopEnds, QuietInv
<1>6. ASSUME NEW op \in Ops, NEW inMulti \in BOOLEAN, LocalWrite(op, inMulti) PROVE QuietInv'
  BY <1>6 DEF LocalWrite, OneWriter
<1>7. CASE UNCHANGED vars
  <2>1. \A v, q, k : Behind(v, q, k) => Behind(v, q, k)'
    BY <1>7 DEF vars, leaderVars, Behind, Owed
  <2>2. ASSUME NEW g \in Loops PROVE Supplied(g)'
    <3>1. Supplied(g)
      BY DEF QuietInv
    <3> QED
      BY <1>7, <2>1, <3>1 DEF vars, leaderVars, linkVars, followerVars, Supplied
  <2> QED
    BY <1>7, <2>2 DEF QuietInv, Handshaking, vars, leaderVars, linkVars, followerVars
<1> QED
  BY <1>1, <1>2, <1>3, <1>4, <1>5, <1>6, <1>7 DEF Next

(***************************************************************************)
(* "A follower connects, gets a full snapshot, then streams every write":  *)
(* with one client that sends SET and INCR, and no write during a          *)
(* handshake, a connected follower that has read everything holds what the *)
(* leader holds, however often its connection broke in the middle of       *)
(* dump, registration, propagation or reading.                             *)
(***************************************************************************)
THEOREM CaughtUpIsEqual ==
  ASSUME OneWriter
  PROVE  Spec => []InSync
<1>1. Init => QuietInv
  BY DEF Init, QuietInv, Handshaking, Supplied, Loops
<1>2. IndInv /\ QuietInv => InSync
  <2> SUFFICES ASSUME IndInv, QuietInv, \A c \in Clients : pc[c] = "idle", NEW g \in Loops, CaughtUp(g)
               PROVE  followerDB = leaderDB
    BY DEF InSync
  <2>1. Behind(followerDB, stream[conn[g]], conn[g]) /\ stream[conn[g]] = <<>>
    BY QuietFacts DEF CaughtUp
  <2>2. PICK w \in Nat : Leads(followerDB, <<>>, w) /\ leaderDB = w
    BY <2>1 DEF Behind, Owed
  <2>3. followerDB \in Nat
    BY DEF IndInv, TypeOK
  <2> QED
    BY <2>2, <2>3, LeadsNowhere
<1>3. IndInv /\ QuietInv /\ [Next]_vars => QuietInv'
  BY NextQuiet
<1> QED
  BY <1>1, <1>2, <1>3, Inductive, PTL DEF Spec
=============================================================================
