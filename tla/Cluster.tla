------------------------------- MODULE Cluster -------------------------------
(***************************************************************************)
(* Cluster membership, slots and heartbeats (internal/server/cluster.go,   *)
(* CLUSTER and ensureOwns in server.go).                                   *)
(*                                                                         *)
(* Every server has a view of its own: nothing is exchanged but PING and   *)
(* CLUSTER MYID.  Meet keeps the view's write lock while it asks the other *)
(* server for its ID, and answering that question takes the read lock of   *)
(* the other server's view.  A heartbeat copies the peers and writes each  *)
(* result back when it comes.                                              *)
(*                                                                         *)
(* Servers are told apart by address when they are met and by ID           *)
(* everywhere else: a server that is reached at two addresses has two      *)
(* entries with one ID, and so has one that its own --peers list.  IDs are *)
(* taken to be stable (--node-id) and those in --peers to be the servers'  *)
(* own; a peer that is listed without one goes by its address, and is not  *)
(* modelled.                                                               *)
(***************************************************************************)
EXTENDS Integers, Sequences, FiniteSets, SequencesExt

CONSTANTS
  NodeOrder,     \* the node IDs in the order of their names
  ServerAt,      \* ServerAt[a]: the server that is reached at address a
  Viewers,       \* the servers whose views are modelled
  OwnAddr,       \* OwnAddr[n]: the --addr of server n
  StaticPeers,   \* StaticPeers[n]: the addresses in the --peers of server n
  SlotCount,     \* 16384 in the code
  MaxCommands,   \* bound: CLUSTER MEET, FORGET and RESET
  MaxCrashes     \* bound: crashes of servers

Nodes == Range(NodeOrder)
Addresses == DOMAIN ServerAt
Slots == 0..(SlotCount - 1)

ASSUME ClusterAssumption ==
  /\ NodeOrder \in Seq(Nodes) /\ IsInjective(NodeOrder) /\ Viewers \subseteq Nodes
  /\ \A a \in Addresses : ServerAt[a] \in Nodes
  /\ \A n \in Viewers : /\ OwnAddr[n] \in Addresses /\ ServerAt[OwnAddr[n]] = n
                        /\ StaticPeers[n] \in Seq(Addresses)
  /\ SlotCount \in Nat \ {0} /\ MaxCommands \in Nat /\ MaxCrashes \in Nat

VARIABLES
  view,          \* Cluster.nodes of each server
  self,          \* Cluster.self: a copy of the server's own entry
  meeting,       \* <<>>, or <<the address that Meet is asking>>
  flying,        \* results of pings that are not written back yet
  up,            \* servers that are running
  commands,      \* CLUSTER commands so far
  crashes        \* crashes so far

clusterVars == <<view, self, meeting, flying, up, commands, crashes>>

IDsIn(v) == {v[i].id : i \in DOMAIN v}

\* The first and the last entry with an ID.
IsFirst(v, id, i) == v[i].id = id /\ \A k \in 1..(i - 1) : v[k].id # id
IsLast(v, id, i) == v[i].id = id /\ \A k \in DOMAIN v : v[k].id = id => k <= i

EntryOf(v, id) == v[CHOOSE i \in DOMAIN v : IsLast(v, id, i)]

(***************************************************************************)
(* The order of entries: by the names of the IDs.  Entries with one ID     *)
(* stay as they were, as sort.Slice leaves them in a list of up to 12.     *)
(***************************************************************************)
Sooner(a, b) == \E x, y \in DOMAIN NodeOrder : x < y /\ NodeOrder[x] = a /\ NodeOrder[y] = b
Earlier(v, i, k) == Sooner(v[i].id, v[k].id) \/ (v[i].id = v[k].id /\ i < k)
Rank(v, S, k) == Cardinality({i \in S : Earlier(v, i, k)})
Sorted(v) == [k \in DOMAIN v |-> v[CHOOSE i \in DOMAIN v : Rank(v, DOMAIN v, i) = k - 1]]

(***************************************************************************)
(* assignSlots and rebalanceSlots: equal ranges for the entries in S, in   *)
(* their order; the last one takes what is left.  Entries that are neither *)
(* online nor the server's own get none.                                   *)
(***************************************************************************)
RangeOf(v, S, i) ==
  LET width == SlotCount \div Cardinality(S)
      j == Rank(v, S, i) IN
  IF i \notin S THEN [start |-> -1, end |-> -1]
  ELSE [start |-> j * width,
        end |-> IF j = Cardinality(S) - 1 THEN SlotCount - 1 ELSE (j + 1) * width - 1]

Active(n, v) == {i \in DOMAIN v : v[i].id = n \/ v[i].state = "online"}

\* Mutant of rebalanceSlots: the ranges follow the order of the list.
rebalanceUnsorted(n, v) ==
  LET act == Active(n, v)
      width == SlotCount \div Cardinality(act)
      before(i) == Cardinality({k \in act : k < i}) IN
  [i \in DOMAIN v |->
     IF i \notin act THEN [v[i] EXCEPT !.start = -1, !.end = -1]
     ELSE [v[i] EXCEPT !.start = before(i) * width,
                       !.end = IF before(i) = Cardinality(act) - 1 THEN SlotCount - 1
                               ELSE (before(i) + 1) * width - 1]]

rebalanceSlots(n, v) ==
  [i \in DOMAIN v |->
     LET r == RangeOf(v, Active(n, v), i) IN
     [v[i] EXCEPT !.start = r.start, !.end = r.end]]

Entry(a) ==
  [id |-> ServerAt[a], addr |-> a, start |-> 0, end |-> 0, state |-> "online", recent |-> TRUE]

NewCluster(n) ==
  LET addrs == <<OwnAddr[n]>> \o StaticPeers[n] IN
  rebalanceSlots(n, Sorted([i \in DOMAIN addrs |-> Entry(addrs[i])]))

ClusterInit ==
  /\ view = [n \in Viewers |-> NewCluster(n)]
  /\ self = [n \in Viewers |-> EntryOf(NewCluster(n), n)]
  /\ meeting = [n \in Viewers |-> <<>>]
  /\ flying = [n \in Viewers |-> {}]
  /\ up = Nodes
  /\ commands = 0 /\ crashes = 0

Unlocked(n) == n \in up /\ meeting[n] = <<>>

-----------------------------------------------------------------------------
(***************************************************************************)
(* CLUSTER MEET: an address that is known already is done with at once;    *)
(* otherwise ask for the ID, whoever has it.  No answer within the         *)
(* deadline is an error, so that a server never meets itself: the answer   *)
(* would need the lock that Meet holds.                                    *)
(***************************************************************************)
MeetAsks(n, a) ==
  /\ Unlocked(n) /\ commands < MaxCommands
  /\ \A i \in DOMAIN view[n] : view[n][i].addr # a
  /\ commands' = commands + 1
  /\ meeting' = [meeting EXCEPT ![n] = <<a>>]
  /\ UNCHANGED <<view, self, flying, up, crashes>>

SelfSnapshot(n, v) == [self EXCEPT ![n] = EntryOf(v, n)]

MeetAnswered(n) ==
  /\ n \in up /\ meeting[n] # <<>>
  /\ LET a == Head(meeting[n])
         m == ServerAt[a]
         v == rebalanceSlots(n, Append(view[n], Entry(a))) IN
     /\ m \in up /\ (m \in Viewers => meeting[m] = <<>>)
     /\ view' = [view EXCEPT ![n] = v]
     /\ self' = SelfSnapshot(n, v)
  /\ meeting' = [meeting EXCEPT ![n] = <<>>]
  /\ UNCHANGED <<flying, up, commands, crashes>>

MeetTimesOut(n) ==
  /\ n \in up /\ meeting[n] # <<>>
  /\ meeting' = [meeting EXCEPT ![n] = <<>>]
  /\ UNCHANGED <<view, self, flying, up, commands, crashes>>

(***************************************************************************)
(* CLUSTER FORGET, which keeps the entries with another ID in order, and   *)
(* CLUSTER RESET.                                                          *)
(***************************************************************************)
Others(v, m) ==
  LET kept == {i \in DOMAIN v : v[i].id # m} IN
  [k \in 1..Cardinality(kept) |->
     v[CHOOSE i \in kept : Cardinality({j \in kept : j < i}) = k - 1]]

Forget(n, m) ==
  /\ Unlocked(n) /\ m # n /\ m \in IDsIn(view[n]) /\ commands < MaxCommands
  /\ commands' = commands + 1
  /\ LET v == rebalanceSlots(n, Others(view[n], m)) IN
     /\ view' = [view EXCEPT ![n] = v]
     /\ self' = SelfSnapshot(n, v)
  /\ UNCHANGED <<meeting, flying, up, crashes>>

Reset(n) ==
  /\ Unlocked(n) /\ commands < MaxCommands
  /\ commands' = commands + 1
  /\ self' = [self EXCEPT ![n].start = 0, ![n].end = SlotCount - 1, ![n].state = "online"]
  /\ view' = [view EXCEPT ![n] = <<self'[n]>>]
  /\ UNCHANGED <<meeting, flying, up, crashes>>

-----------------------------------------------------------------------------
(***************************************************************************)
(* Heartbeat: ping the address of every entry that is not the server's     *)
(* own, write each result back when it arrives, to the first entry that    *)
(* has the ID by then.  "recent" says that the last answer is at most 30   *)
(* seconds old; a ping fails within four seconds, so that an entry without *)
(* an answer for that long is failing already.                             *)
(***************************************************************************)
pingPeers(n) ==
  /\ Unlocked(n)
  /\ flying' = [flying EXCEPT ![n] = @ \cup
                   {[addr |-> view[n][i].addr, id |-> view[n][i].id, ok |-> view[n][i].id \in up] :
                      i \in {k \in DOMAIN view[n] : view[n][k].id # n}}]
  /\ UNCHANGED <<view, self, meeting, up, commands, crashes>>

\* Mutant of Health: a node that was given up stays so.
HealthSticky(e, ok) ==
  IF e.state = "offline" THEN e
  ELSE IF ok THEN [e EXCEPT !.state = "online", !.recent = TRUE]
  ELSE [e EXCEPT !.state = IF e.recent THEN "failing" ELSE "offline"]

Health(e, ok) ==
  IF ok THEN [e EXCEPT !.state = "online", !.recent = TRUE]
  ELSE [e EXCEPT !.state = IF e.recent THEN "failing" ELSE "offline"]

PingLands(n, r) ==
  /\ Unlocked(n) /\ r \in flying[n]
  /\ flying' = [flying EXCEPT ![n] = @ \ {r}]
  /\ view' = [view EXCEPT ![n] = [i \in DOMAIN @ |-> IF IsFirst(@, r.id, i) THEN Health(@[i], r.ok)
                                                     ELSE @[i]]]
  /\ UNCHANGED <<self, meeting, up, commands, crashes>>

TimePasses(n, i) ==
  /\ n \in up /\ view[n][i].recent /\ view[n][i].state = "failing"
  /\ view' = [view EXCEPT ![n][i].recent = FALSE]
  /\ UNCHANGED <<self, meeting, flying, up, commands, crashes>>

(***************************************************************************)
(* A server stops; when it is started again it knows its static peers.     *)
(***************************************************************************)
Crash(n) ==
  /\ n \in up /\ crashes < MaxCrashes
  /\ up' = up \ {n}
  /\ crashes' = crashes + 1
  /\ meeting' = [m \in Viewers |-> IF m = n THEN <<>> ELSE meeting[m]]
  /\ flying' = [m \in Viewers |-> IF m = n THEN {} ELSE flying[m]]
  /\ UNCHANGED <<view, self, commands>>

Restart(n) ==
  /\ n \notin up
  /\ up' = up \cup {n}
  /\ view' = [m \in Viewers |-> IF m = n THEN NewCluster(m) ELSE view[m]]
  /\ self' = [m \in Viewers |-> IF m = n THEN EntryOf(NewCluster(m), m) ELSE self[m]]
  /\ UNCHANGED <<meeting, flying, commands, crashes>>

ClusterNext ==
  \/ \E n \in Viewers :
       \/ \E a \in Addresses : MeetAsks(n, a)
       \/ \E m \in Nodes : Forget(n, m)
       \/ \E i \in DOMAIN view[n] : TimePasses(n, i)
       \/ MeetAnswered(n) \/ MeetTimesOut(n) \/ Reset(n) \/ pingPeers(n)
       \/ \E r \in flying[n] : PingLands(n, r)
  \/ \E n \in Nodes : Crash(n) \/ Restart(n)

(***************************************************************************)
(* The ticker ticks, pings have deadlines, and so has Meet.                *)
(***************************************************************************)
ClusterFairness ==
  \A n \in Viewers :
    /\ WF_clusterVars(pingPeers(n))
    /\ \A m \in Nodes : WF_clusterVars(\E r \in flying[n] : r.id = m /\ PingLands(n, r))
    /\ WF_clusterVars(MeetAnswered(n) \/ MeetTimesOut(n))

ClusterSpec == ClusterInit /\ [][ClusterNext]_clusterVars /\ ClusterFairness

-----------------------------------------------------------------------------
Holds(e, slot) == e.start <= slot /\ slot <= e.end

(***************************************************************************)
(* Owner: the first entry that holds the slot, self if there is none; and  *)
(* SelfOwns: serve the key if the owner's ID is our own.  Owner and Self   *)
(* take the lock one after the other, but the ID that Self returns never   *)
(* changes (SelfAgrees).  The MOVED of ensureOwns looks the owner up again *)
(* and may find another one than SelfOwns did, or the server itself:       *)
(* MovedEnds is about that look-up, in whatever state it comes.            *)
(***************************************************************************)
Owner(n, slot) ==
  IF \E i \in DOMAIN view[n] : Holds(view[n][i], slot)
  THEN view[n][CHOOSE i \in DOMAIN view[n] : /\ Holds(view[n][i], slot)
                                            /\ \A k \in 1..(i - 1) : ~Holds(view[n][k], slot)].id
  ELSE self[n].id

SelfOwns(n, slot) == Owner(n, slot) = self[n].id

\* How often each node stands among those that the slots were divided among.
Shares(n) ==
  [id \in Nodes |->
     Cardinality({i \in DOMAIN view[n] : view[n][i].id = id /\ view[n][i].start # -1})]

(***************************************************************************)
(* Types.                                                                  *)
(***************************************************************************)
ClusterTypeOK ==
  /\ \A n \in Viewers :
       /\ view[n] \in Seq([id : Nodes, addr : Addresses,
                           start : -1..(SlotCount - 1), end : -1..(SlotCount - 1),
                           state : {"online", "failing", "offline"}, recent : BOOLEAN])
       /\ meeting[n] \in Seq(Addresses)
       /\ flying[n] \subseteq [addr : Addresses, id : Nodes, ok : BOOLEAN]
  /\ up \subseteq Nodes

(***************************************************************************)
(* Through joins, departures, resets and failing peers every slot has      *)
(* exactly one owner in a server's view, also when the number of slots is  *)
(* not a multiple of the number of entries, or a server has several.       *)
(***************************************************************************)
OneOwner ==
  \A n \in Viewers : \A slot \in Slots :
    Cardinality({i \in DOMAIN view[n] : Holds(view[n][i], slot)}) = 1

(***************************************************************************)
(* The copy of its own entry that a server keeps has the server's ID and   *)
(* the slots of the entry: Owner and Self, read one after the other, speak *)
(* of one cluster.                                                         *)
(***************************************************************************)
SelfAgrees ==
  \A n \in Viewers : LET e == EntryOf(view[n], n) IN
    self[n].id = n /\ e.start = self[n].start /\ e.end = self[n].end

(***************************************************************************)
(* The server that a MOVED names serves the slot itself, provided the two  *)
(* servers divided the slots among the same nodes, each of them as often:  *)
(* in whichever order and at whichever addresses they came to know them,   *)
(* they then give every node the same slots.                               *)
(***************************************************************************)
MovedEnds ==
  \A n, m \in Viewers : \A slot \in Slots :
    (Shares(n) = Shares(m) /\ Owner(n, slot) = m) => SelfOwns(m, slot)

(***************************************************************************)
(* CLUSTER MEET returns, also when two servers meet each other at once and *)
(* each holds the lock that the other's question needs.                    *)
(***************************************************************************)
MeetReturns == \A n \in Viewers : []<>(meeting[n] = <<>>)

(***************************************************************************)
(* No peer that stays up is forever seen as failing or offline by a server *)
(* that knows it, whatever late results of earlier pings say.              *)
(***************************************************************************)
SeenOnline(n, m) == \A i \in DOMAIN view[n] : view[n][i].id = m => view[n][i].state = "online"

HealthSettles ==
  \A n \in Viewers : \A m \in Nodes :
    []<>(SeenOnline(n, m) \/ n \notin up \/ m \notin up)

(***************************************************************************)
(* Views are sound: types, one owner per slot, a true copy of the server's *)
(* own entry, and redirections that end.                                   *)
(***************************************************************************)
ClusterInv == ClusterTypeOK /\ OneOwner /\ SelfAgrees /\ MovedEnds

(***************************************************************************)
(* MEET returns, and live peers are seen to be alive.                      *)
(***************************************************************************)
ClusterLive == MeetReturns /\ HealthSettles
=============================================================================
