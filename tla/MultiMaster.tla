----------------------------- MODULE MultiMaster -----------------------------
(***************************************************************************)
(* The links of multi-master replication (internal/server/multimaster.go,  *)
(* handleReplPeer in replication.go, MULTIMASTER in server.go).            *)
(*                                                                         *)
(* A node takes in a peer's writes over a connection that it opens itself: *)
(* a peerLoop dials, asks for a snapshot with REPLPEER and then reads what *)
(* PropagateToReplicas sends.  The handler of REPLPEER on the other side   *)
(* connects back.  MultiMaster.peers keeps the loops apart; its entry for  *)
(* a peer is a placeholder until the loop has its snapshot.                *)
(*                                                                         *)
(* What flows over a link is the subject of Replication; here the links    *)
(* themselves are made, lost, made again and shut down.  What a node       *)
(* writes to a link it has opened itself (PropagateToAllPeers, PING) is    *)
(* read by handleReplPeer, which answers PING and ignores the rest.        *)
(***************************************************************************)
EXTENDS Naturals, FiniteSets

CONSTANTS
  Masters,       \* the nodes, all of them known to each other's Cluster
  MaxLoops,      \* bound: peerLoops started
  MaxLosses,     \* bound: dials that fail and connections that break
  MaxSwitches    \* bound: MULTIMASTER ENABLE and DISABLE, CLUSTER MEET

ASSUME MultiMasterAssumption ==
  IsFiniteSet(Masters) /\ MaxLoops \in Nat /\ MaxLosses \in Nat /\ MaxSwitches \in Nat

Loops == 1..MaxLoops
Links == {p \in Masters \X Masters : p[1] # p[2]}

VARIABLES
  enabled,       \* MultiMaster.enabled
  entry,         \* MultiMaster.peers: kind and loop of each link's entry
  loop,          \* each peerLoop: its link and where it is
  linked,        \* loops whose connection is open
  remote,        \* what handleReplPeer has done for the loop's connection
  stopping,      \* Stop: "no", "cancelled", "closed" or "waited"
  losses,        \* failed dials and broken connections so far
  switches,      \* MULTIMASTER ENABLE and DISABLE, CLUSTER MEET so far
  disabled       \* history: multi-master has been disabled somewhere

mmVars == <<enabled, entry, loop, linked, remote, stopping, losses, switches, disabled>>

NoEntry == [kind |-> "none", loop |-> 0]

MultiMasterInit ==
  /\ enabled = [n \in Masters |-> FALSE]
  /\ entry = [k \in Links |-> NoEntry]
  /\ loop = [l \in {} |-> 0]
  /\ linked = {}
  /\ remote = [l \in {} |-> "asked"]
  /\ stopping = [n \in Masters |-> "no"]
  /\ losses = 0 /\ switches = 0 /\ disabled = FALSE

Cancelled(n) == stopping[n] # "no"       \* mm.ctx is done until Stop replaces it

-----------------------------------------------------------------------------
(***************************************************************************)
(* ConnectToPeer for a set of links: nothing where there is an entry,      *)
(* otherwise a placeholder and a loop, which the WaitGroup counts a moment *)
(* later.                                                                  *)
(***************************************************************************)
NewLoop(k) == [link |-> k, at |-> "starting"]

Missing(ks) == {k \in ks : entry[k].kind = "none"}

Numbering(ks) == CHOOSE f \in [ks -> (Cardinality(DOMAIN loop) + 1)..
                                     (Cardinality(DOMAIN loop) + Cardinality(ks))] :
                   \A j, k \in ks : j # k => f[j] # f[k]

ConnectToPeers(ks) ==
  LET new == Numbering(Missing(ks)) IN
  /\ Cardinality(DOMAIN loop) + Cardinality(Missing(ks)) <= MaxLoops
  /\ entry' = [k \in Links |-> IF k \in Missing(ks) THEN [kind |-> "connecting", loop |-> 0]
                               ELSE entry[k]]
  /\ loop' = [l \in DOMAIN loop \cup {new[k] : k \in Missing(ks)} |->
                IF l \in DOMAIN loop THEN loop[l]
                ELSE NewLoop(CHOOSE k \in Missing(ks) : new[k] = l)]

(***************************************************************************)
(* MULTIMASTER ENABLE, and the --multimaster flag.                         *)
(***************************************************************************)
Enable(n) ==
  /\ switches < MaxSwitches /\ switches' = switches + 1
  /\ enabled' = [enabled EXCEPT ![n] = TRUE]
  /\ ConnectToPeers({k \in Links : k[1] = n})
  /\ UNCHANGED <<linked, remote, stopping, losses, disabled>>

(***************************************************************************)
(* CLUSTER MEET of a peer, also of one that is known already.              *)
(***************************************************************************)
MeetConnects(k) ==
  /\ enabled[k[1]]
  /\ switches < MaxSwitches /\ switches' = switches + 1
  /\ ConnectToPeers({k})
  /\ UNCHANGED <<enabled, linked, remote, stopping, losses, disabled>>

-----------------------------------------------------------------------------
(***************************************************************************)
(* peerLoop and syncWithPeer.                                              *)
(***************************************************************************)
At(l, where) == l \in DOMAIN loop /\ loop[l].at = where
Goes(l, where) == loop' = [loop EXCEPT ![l].at = where]
OwnerOf(l) == loop[l].link[1]
PeerOf(l) == loop[l].link[2]

LoopStarts(l) ==
  /\ At(l, "starting") /\ Goes(l, "top")
  /\ UNCHANGED <<enabled, entry, linked, remote, stopping, losses, switches, disabled>>

(***************************************************************************)
(* The top of the loop: look at the context, then dial.                    *)
(***************************************************************************)
LoopEnds(l) ==
  /\ At(l, "top") /\ Cancelled(OwnerOf(l)) /\ Goes(l, "ended")
  /\ UNCHANGED <<enabled, entry, linked, remote, stopping, losses, switches, disabled>>

AfterError(l) == IF Cancelled(OwnerOf(l)) THEN "ended" ELSE "pause"

DialFails(l) ==
  /\ At(l, "top") /\ ~Cancelled(OwnerOf(l)) /\ Goes(l, "pause")
  /\ losses < MaxLosses /\ losses' = losses + 1
  /\ UNCHANGED <<enabled, entry, linked, remote, stopping, switches, disabled>>

Dials(l) ==
  /\ At(l, "top") /\ ~Cancelled(OwnerOf(l)) /\ Goes(l, "asked")
  /\ linked' = linked \cup {l}
  /\ remote' = [x \in DOMAIN remote \cup {l} |-> IF x = l THEN "asked" ELSE remote[x]]
  /\ UNCHANGED <<enabled, entry, stopping, losses, switches, disabled>>

Registers(l) ==
  /\ At(l, "asked") /\ l \in linked /\ remote[l] # "asked" /\ Goes(l, "stream")
  /\ entry' = [entry EXCEPT ![loop[l].link] = [kind |-> "active", loop |-> l]]
  /\ UNCHANGED <<enabled, linked, remote, stopping, losses, switches, disabled>>

(***************************************************************************)
(* syncWithPeer returns: the deferred function closes the connection and   *)
(* removes the entry, whichever loop has put it there.                     *)
(***************************************************************************)
\* Mutant of Hangs: the entry is kept for the next attempt.
HangsUpOnly(l) ==
  /\ linked' = linked \ {l}
  /\ UNCHANGED entry

Hangs(l) ==
  /\ linked' = linked \ {l}
  /\ entry' = [entry EXCEPT ![loop[l].link] = NoEntry]

\* Mutant of SyncCancelled: the reading loop does not look at the context.
SyncDeaf(l) ==
  /\ At(l, "stream") /\ Cancelled(OwnerOf(l)) /\ l \notin linked /\ Goes(l, "top") /\ Hangs(l)
  /\ UNCHANGED <<enabled, remote, stopping, losses, switches, disabled>>

SyncCancelled(l) ==
  /\ At(l, "stream") /\ Cancelled(OwnerOf(l)) /\ Goes(l, "top") /\ Hangs(l)
  /\ UNCHANGED <<enabled, remote, stopping, losses, switches, disabled>>

SyncBroken(l) ==
  /\ At(l, "stream") \/ At(l, "asked")
  /\ l \notin linked /\ Goes(l, AfterError(l)) /\ Hangs(l)
  /\ UNCHANGED <<enabled, remote, stopping, losses, switches, disabled>>

PauseEnds(l) ==
  /\ At(l, "pause") /\ Goes(l, IF Cancelled(OwnerOf(l)) THEN "ended" ELSE "top")
  /\ UNCHANGED <<enabled, entry, linked, remote, stopping, losses, switches, disabled>>

Break(l) ==
  /\ l \in linked /\ losses < MaxLosses
  /\ losses' = losses + 1
  /\ linked' = linked \ {l}
  /\ UNCHANGED <<enabled, entry, loop, remote, stopping, switches, disabled>>

-----------------------------------------------------------------------------
(***************************************************************************)
(* handleReplPeer: send the snapshot, register the caller as a replica,    *)
(* look whether multi-master is enabled, connect back.                     *)
(***************************************************************************)
Handles(l, from, to) ==
  /\ l \in DOMAIN remote /\ remote[l] = from
  /\ remote' = [remote EXCEPT ![l] = to]

SendsSnapshot(l) ==
  /\ Handles(l, "asked", "replied")
  /\ UNCHANGED <<enabled, entry, loop, linked, stopping, losses, switches, disabled>>

AddReplica(l) ==
  /\ Handles(l, "replied", IF enabled[PeerOf(l)] THEN "reverse" ELSE "replica")
  /\ UNCHANGED <<enabled, entry, loop, linked, stopping, losses, switches, disabled>>

ConnectsBack(l) ==
  /\ Handles(l, "reverse", "replica")
  /\ ConnectToPeers({<<PeerOf(l), OwnerOf(l)>>})
  /\ UNCHANGED <<enabled, linked, stopping, losses, switches, disabled>>

RemoveReplica(l) ==
  /\ l \notin linked
  /\ Handles(l, "replica", "gone")
  /\ UNCHANGED <<enabled, entry, loop, linked, stopping, losses, switches, disabled>>

-----------------------------------------------------------------------------
(***************************************************************************)
(* MULTIMASTER DISABLE and Stop: cancel the context, close the connections *)
(* of the entries, wait for the loops, start afresh.                       *)
(***************************************************************************)
StopStep(n, from, to) == stopping[n] = from /\ stopping' = [stopping EXCEPT ![n] = to]

Disable(n) ==
  /\ switches < MaxSwitches /\ switches' = switches + 1
  /\ StopStep(n, "no", "cancelled") /\ disabled' = TRUE
  /\ enabled' = [enabled EXCEPT ![n] = FALSE]
  /\ UNCHANGED <<entry, loop, linked, remote, losses>>

StopCloses(n) ==
  /\ StopStep(n, "cancelled", "closed")
  /\ linked' = linked \ {entry[k].loop : k \in {j \in Links : j[1] = n}}
  /\ UNCHANGED <<enabled, entry, loop, remote, losses, switches, disabled>>

Counted(n) == {l \in DOMAIN loop : OwnerOf(l) = n /\ loop[l].at \notin {"starting", "ended"}}

StopWaits(n) ==
  /\ Counted(n) = {}
  /\ StopStep(n, "closed", "waited")
  /\ UNCHANGED <<enabled, entry, loop, linked, remote, losses, switches, disabled>>

StopResets(n) ==
  /\ StopStep(n, "waited", "no")
  /\ entry' = [k \in Links |-> IF k[1] = n THEN NoEntry ELSE entry[k]]
  /\ UNCHANGED <<enabled, loop, linked, remote, losses, switches, disabled>>

LoopStep(l) ==
  \/ LoopStarts(l) \/ LoopEnds(l) \/ Dials(l) \/ Registers(l)
  \/ SyncCancelled(l) \/ SyncBroken(l) \/ PauseEnds(l)
StopperStep(n) == StopCloses(n) \/ StopWaits(n) \/ StopResets(n)

MultiMasterNext ==
  \/ \E n \in Masters : Enable(n) \/ Disable(n) \/ StopCloses(n) \/ StopWaits(n) \/ StopResets(n)
  \/ \E k \in Links : MeetConnects(k)
  \/ \E l \in Loops :
       \/ LoopStarts(l) \/ LoopEnds(l) \/ DialFails(l) \/ Dials(l) \/ Registers(l)
       \/ SyncCancelled(l) \/ SyncBroken(l) \/ PauseEnds(l) \/ Break(l)
       \/ SendsSnapshot(l) \/ AddReplica(l) \/ ConnectsBack(l) \/ RemoveReplica(l)

(***************************************************************************)
(* Goroutines run, a peer that is reachable answers REPLPEER.  Reading the *)
(* snapshot has no deadline, so Stop too waits for that answer.            *)
(***************************************************************************)
MultiMasterFairness ==
  /\ \A l \in Loops : /\ WF_mmVars(LoopStep(l))
                      /\ WF_mmVars(SendsSnapshot(l))
  /\ \A n \in Masters : WF_mmVars(StopperStep(n))

MultiMasterSpec == MultiMasterInit /\ [][MultiMasterNext]_mmVars /\ MultiMasterFairness

-----------------------------------------------------------------------------
(***************************************************************************)
(* Types; an open connection belongs to a loop that uses it.               *)
(***************************************************************************)
MultiMasterTypeOK ==
  /\ enabled \in [Masters -> BOOLEAN]
  /\ entry \in [Links -> [kind : {"none", "connecting", "active"}, loop : 0..MaxLoops]]
  /\ DOMAIN loop \subseteq Loops /\ linked \subseteq DOMAIN loop
  /\ \A l \in DOMAIN loop :
       /\ loop[l].link \in Links
       /\ loop[l].at \in {"starting", "top", "asked", "stream", "pause", "ended"}
  /\ \A l \in linked : loop[l].at \in {"asked", "stream"}

Live(k) == {l \in DOMAIN loop : loop[l].link = k /\ loop[l].at # "ended"}

(***************************************************************************)
(* An entry in MultiMaster.peers has a loop behind it.  Otherwise every    *)
(* later ConnectToPeer would think the peer connected, and the node would  *)
(* never take in that peer's writes again; and what STATUS counts as a     *)
(* peer is a loop that is reading.                                         *)
(***************************************************************************)
EntryBacked ==
  \A k \in Links :
    /\ entry[k].kind = "active" => At(entry[k].loop, "stream")
    /\ (entry[k].kind = "connecting" /\ ~Cancelled(k[1])) => Live(k) # {}

(***************************************************************************)
(* As long as no connection has been lost and multi-master has not been    *)
(* switched off, a peer has one loop: ENABLE and the connection back from  *)
(* REPLPEER do not both start one.                                         *)
(***************************************************************************)
OneLoopPerPeer ==
  (losses = 0 /\ ~disabled) =>
    \A k \in Links : Cardinality(Live(k)) <= 1

(***************************************************************************)
(* DISABLE returns, whatever the loops are doing when it is called.        *)
(***************************************************************************)
StopReturns == \A n \in Masters : []<>~Cancelled(n)

(***************************************************************************)
(* A loop does not go on for ever without a connection: it gets one, or is *)
(* told to end.                                                            *)
(***************************************************************************)
LoopsRecover ==
  \A l \in Loops : []<>~(At(l, "top") \/ At(l, "asked") \/ At(l, "pause"))

(***************************************************************************)
(* Types, connections that are in use, entries with a loop, and no second  *)
(* loop before anything went wrong.                                        *)
(***************************************************************************)
MultiMasterInv == MultiMasterTypeOK /\ EntryBacked /\ OneLoopPerPeer

(***************************************************************************)
(* DISABLE returns, and lost links are made again.                         *)
(***************************************************************************)
MultiMasterLive == StopReturns /\ LoopsRecover
=============================================================================
