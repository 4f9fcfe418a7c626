------------------------------- MODULE Streams -------------------------------
(***************************************************************************)
(* Streams, consumer groups and the reads that block on them               *)
(* (internal/store/store.go; handlers in internal/server/server.go).       *)
(*                                                                         *)
(* The handlers of XADD, XREADGROUP and their kin hold Server.persistMu    *)
(* over several critical sections of Store.mu; the variable busy is the    *)
(* handler that holds it and has more to do.  Expiry, HTTP writes and the  *)
(* commands a replication link applies take Store.mu alone and come in     *)
(* between.  A blocking read lets go of persistMu, registers a waiter in a *)
(* critical section of its own and sleeps; a connection has one call at a  *)
(* time, so a waiter is named after its caller.                            *)
(*                                                                         *)
(* A stream has one group at most: groups share nothing but the entries.   *)
(* A call asks for new entries of all its streams, or reads its pending    *)
(* ones again in all of them; only the first kind blocks.                  *)
(* How long an entry has been pending is not kept: any of them may be idle *)
(* for long enough to be claimed ("ripe").                                 *)
(* An ID is a pair of milliseconds and sequence number.  The clock may be  *)
(* set back, so that the automatic ID takes any of Millis.                 *)
(***************************************************************************)
EXTENDS Naturals, Sequences, FiniteSets, SequencesExt

CONSTANTS
  StreamOrder,   \* the stream keys, in the order of their names
  Consumers,     \* connections that use XREADGROUP
  Callers,       \* the ones among them that use XREADGROUP and XREAD with BLOCK
  Millis,        \* what the clock may show
  ExplicitIDs,   \* IDs that clients choose
  ReadArgs,      \* the streams and the COUNT of XREADGROUP
  XReadKeys,     \* the streams of XREAD
  Counts,        \* the COUNT of XAUTOCLAIM
  TrimLens,      \* the MAXLEN of XTRIM
  MaxEntries,    \* bound: XADDs begun
  MaxLapses      \* bound: keys expired, deleted or overwritten, and XACKs of a
                 \* replication link

ASSUME StreamsAssumption ==
  /\ StreamOrder \in Seq(STRING) /\ IsInjective(StreamOrder)
  /\ Callers \subseteq Consumers /\ Consumers \cap {"nobody", "lost"} = {}
  /\ Millis \subseteq Nat /\ ExplicitIDs \subseteq Nat \X Nat
  /\ ReadArgs \subseteq [streams : SUBSET Range(StreamOrder) \ {{}}, count : Nat \ {0}]
  /\ XReadKeys \subseteq SUBSET Range(StreamOrder)
  /\ Counts \subseteq Nat \ {0} /\ TrimLens \subseteq Nat
  /\ MaxEntries \in Nat /\ MaxLapses \in Nat

StreamKeys == Range(StreamOrder)
Entries == 1..MaxEntries
IDs == Nat \X Nat

VARIABLES
  st,         \* what the store holds under each key
  busy,       \* the handler that holds persistMu
  waits,      \* Store.waits: the callers to wake, by stream
  pc,         \* callers: "idle"; "gap" (nothing to read, not yet registered);
              \* "asleep"; "awake" (woken); "back" (waiter removed)
  call,       \* a caller's streams, COUNT and IDs
  added,      \* XADDs begun
  lapses,     \* keys expired, deleted or overwritten, XACKs of a link
  handed,     \* history: how often each entry was delivered as new
  knows,      \* history: the consumer whose reply contained an entry last, or
              \* "lost" if the call that delivered the entry then failed
  seen,       \* history: entries that were there when a caller registered
  crossed     \* history: entries acknowledged by a replication link while an
              \* XREADGROUP was reading them again

histVars == <<handed, knows, seen, crossed>>
callVars == <<waits, pc, call>>
vars == <<st, busy, callVars, added, lapses, histVars>>

Zero == <<0, 0>>
Star == <<>>         \* the argument "*"
Nobody == [exists |-> FALSE, last |-> Zero, pending |-> <<>>]
Absent == [made |-> FALSE, entries |-> <<>>, seq |-> 0, group |-> Nobody,
           other |-> FALSE, expired |-> FALSE]
Free == [op |-> "none"]
NoCall == [group |-> FALSE, streams |-> {}, count |-> 1, after |-> <<>>]

Init ==
  /\ st = [s \in StreamKeys |-> Absent]
  /\ busy = Free
  /\ waits = [s \in StreamKeys |-> {}]
  /\ pc = [c \in Callers |-> "idle"]
  /\ call = [c \in Callers |-> NoCall]
  /\ added = 0 /\ lapses = 0
  /\ handed = [e \in Entries |-> 0]
  /\ knows = [e \in Entries |-> "nobody"]
  /\ seen = [c \in Callers |-> {}]
  /\ crossed = {}

-----------------------------------------------------------------------------
(***************************************************************************)
(* IDs.  lastSeq survives XTRIM, and it is not reset in a new millisecond. *)
(***************************************************************************)
compareID(a, b) == a[1] < b[1] \/ (a[1] = b[1] /\ a[2] < b[2])

lastIDLocked(x) == IF x.entries = <<>> THEN Zero ELSE Last(x.entries).id

NewID(x, arg, ms) ==
  LET last == lastIDLocked(x) IN
  IF arg # Star THEN arg
  ELSE IF ms <= last[1] THEN <<last[1], last[2] + 1>>
  ELSE <<ms, x.seq + 1>>

Prepared(x, arg) == arg # Star => compareID(lastIDLocked(x), arg)

expiredKeyLocked(x) == IF x.expired THEN Absent ELSE x

(***************************************************************************)
(* The entries of a stream after an ID, from the first of them on.         *)
(***************************************************************************)
searchStreamStart(q, id) ==
  CHOOSE i \in 1..(Len(q) + 1) :
    /\ i <= Len(q) => compareID(id, q[i].id)
    /\ \A k \in 1..(i - 1) : ~compareID(id, q[k].id)

After(q, id) == SubSeq(q, searchStreamStart(q, id), Len(q))

(***************************************************************************)
(* A loop over q that keeps the elements at some of its positions.         *)
(***************************************************************************)
Filtered(q, keep) ==
  LET kept[i \in 0..Len(q)] ==
        IF i = 0 THEN <<>>
        ELSE IF i \in keep THEN Append(kept[i - 1], q[i]) ELSE kept[i - 1]
  IN  kept[Len(q)]

(***************************************************************************)
(* Appending wakes every caller registered for the stream and empties its  *)
(* list of waiters.                                                        *)
(***************************************************************************)
WithEntry(x, id, e) ==
  [x EXCEPT !.made = TRUE, !.seq = id[2], !.entries = Append(@, [id |-> id, val |-> e])]

\* Mutant of WakeAll: the waiters are left to their timeouts.
WakeNone(s) == UNCHANGED <<waits, pc>>

WakeAll(s) ==
  /\ waits' = [waits EXCEPT ![s] = {}]
  /\ pc' = [c \in Callers |-> IF c \in waits[s] /\ pc[c] = "asleep" THEN "awake" ELSE pc[c]]

-----------------------------------------------------------------------------
(***************************************************************************)
(* XADD: NextStreamID, the log, XAddPrepared.  The second section checks   *)
(* the ID again, but not the key's kind.                                   *)
(***************************************************************************)
NextStreamID(s, arg, ms) ==
  LET x == expiredKeyLocked(st[s]) IN
  /\ busy = Free /\ added < MaxEntries
  /\ ~x.other /\ Prepared(x, arg)
  /\ st' = [st EXCEPT ![s] = [x EXCEPT !.seq = NewID(x, arg, ms)[2]]]
  /\ busy' = [op |-> "xadd", stream |-> s, id |-> NewID(x, arg, ms), val |-> added + 1]
  /\ added' = added + 1
  /\ UNCHANGED <<callVars, lapses, histVars>>

Refused(s) == st[s].expired \/ ~compareID(lastIDLocked(st[s]), busy.id)

\* Mutant of XAddPrepared: the ID is not compared again.
XAddUnchecked ==
  /\ busy.op = "xadd"
  /\ st' = [st EXCEPT ![busy.stream] = WithEntry(@, busy.id, busy.val)]
  /\ WakeAll(busy.stream)
  /\ busy' = Free
  /\ UNCHANGED <<call, added, lapses, histVars>>

XAddPrepared ==
  /\ busy.op = "xadd"
  /\ LET s == busy.stream IN
     \/ /\ Refused(s)
        /\ st' = [st EXCEPT ![s] = expiredKeyLocked(@)]
        /\ UNCHANGED <<waits, pc>>
     \/ /\ ~Refused(s)
        /\ st' = [st EXCEPT ![s] = WithEntry(@, busy.id, busy.val)]
        /\ WakeAll(s)
  /\ busy' = Free
  /\ UNCHANGED <<call, added, lapses, histVars>>

(***************************************************************************)
(* XAdd of a replication link: one critical section, and no persistMu.     *)
(***************************************************************************)
XAdd(s, arg, ms) ==
  LET x == expiredKeyLocked(st[s]) IN
  /\ added < MaxEntries
  /\ ~x.other /\ Prepared(x, arg)
  /\ st' = [st EXCEPT ![s] = WithEntry(x, NewID(x, arg, ms), added + 1)]
  /\ WakeAll(s)
  /\ added' = added + 1
  /\ UNCHANGED <<busy, call, lapses, histVars>>

-----------------------------------------------------------------------------
(***************************************************************************)
(* XGROUP CREATE.  MKSTREAM does not enter the key in Store.streams.       *)
(***************************************************************************)
XGroupCreate(s, start, mkstream) ==
  LET x == expiredKeyLocked(st[s]) IN
  /\ busy = Free
  /\ ~x.other /\ (x.made \/ mkstream) /\ ~x.group.exists
  /\ st' = [st EXCEPT ![s] = [x EXCEPT !.group =
              [exists |-> TRUE, pending |-> <<>>,
               last |-> IF start = "$" THEN lastIDLocked(x) ELSE Zero]]]
  /\ UNCHANGED <<busy, callVars, added, lapses, histVars>>

XGroupExists(s) == ~st[s].expired /\ st[s].group.exists

(***************************************************************************)
(* XReadGroupPlan.  "new" stands for the ID ">", anything else asks for    *)
(* the consumer's own pending entries once more.  An expired key counts as *)
(* empty, a key without the group is an error.                             *)
(***************************************************************************)
Unread(x) == After(x.entries, x.group.last)

Pending(x, c) ==
  Filtered(x.entries, {i \in DOMAIN x.entries :
                         LET id == x.entries[i].id IN
                         id \in DOMAIN x.group.pending /\ x.group.pending[id] = c})

FirstOf(q, n) == SubSeq(q, 1, IF Len(q) < n THEN Len(q) ELSE n)

XReadGroupPlan(c, keys, n, new) ==
  [s \in keys |-> IF st[s].expired THEN <<>>
                  ELSE FirstOf(IF new THEN Unread(st[s]) ELSE Pending(st[s], c), n)]

PlanFails(keys) == \E s \in keys : ~st[s].expired /\ ~st[s].group.exists

Found(plan) == {s \in DOMAIN plan : plan[s] # <<>>}
Vals(q) == {q[i].val : i \in DOMAIN q}
ToIDs(q) == {q[i].id : i \in DOMAIN q}
ValsAt(x, ids) == {x.entries[i].val : i \in {k \in DOMAIN x.entries : x.entries[k].id \in ids}}

Delivery(c, plan, new) ==
  [op |-> "deliver", consumer |-> c, plan |-> plan, new |-> new,
   todo |-> Filtered(StreamOrder, {i \in DOMAIN StreamOrder : StreamOrder[i] \in Found(plan)})]

(***************************************************************************)
(* XREADGROUP up to its first delivery: it finds something, it is to wait, *)
(* or it returns empty-handed, which changes nothing.                      *)
(***************************************************************************)
XReadGroup(c, keys, n, new) ==
  LET plan == XReadGroupPlan(c, keys, n, new) IN
  /\ busy = Free /\ (c \in Callers => pc[c] = "idle")
  /\ ~PlanFails(keys) /\ Found(plan) # {}
  /\ busy' = Delivery(c, plan, new)
  /\ UNCHANGED <<st, callVars, added, lapses, histVars>>

XReadGroupBlocks(c, keys, n) ==
  /\ pc[c] = "idle" /\ busy = Free
  /\ ~PlanFails(keys) /\ Found(XReadGroupPlan(c, keys, n, TRUE)) = {}
  /\ pc' = [pc EXCEPT ![c] = "gap"]
  /\ call' = [call EXCEPT ![c] = [group |-> TRUE, streams |-> keys, count |-> n, after |-> <<>>]]
  /\ UNCHANGED <<st, busy, waits, added, lapses, histVars>>

(***************************************************************************)
(* After the wait: plan once more, then deliver or return.                 *)
(***************************************************************************)
XReadGroupResumes(c) ==
  LET plan == XReadGroupPlan(c, call[c].streams, call[c].count, TRUE) IN
  /\ pc[c] = "back" /\ call[c].group /\ busy = Free
  /\ busy' = IF PlanFails(call[c].streams) \/ Found(plan) = {} THEN Free
             ELSE Delivery(c, plan, TRUE)
  /\ pc' = [pc EXCEPT ![c] = "idle"]
  /\ call' = [call EXCEPT ![c] = NoCall]
  /\ UNCHANGED <<st, waits, added, lapses, histVars>>

(***************************************************************************)
(* One XGroupDeliver of the loop over the streams that were found.  It     *)
(* looks at the group only, not at expiry or at the stream.                *)
(***************************************************************************)
Take(pending, ids, c) ==
  [i \in DOMAIN pending \cup ids |->
     IF i \in ids THEN c ELSE pending[i]]

Later(a, b) == IF compareID(a, b) THEN b ELSE a

\* Mutant of XGroupDeliver: the group's last ID stays where it is.
DeliverUnmoved(x, c, q) == [x EXCEPT !.group.pending = Take(@, ToIDs(q), c)]

XGroupDeliver(x, c, q) ==
  [x EXCEPT !.group.pending = Take(@, ToIDs(q), c), !.group.last = Later(@, Last(q).id)]

Planned(keys) == UNION {Vals(busy.plan[s]) : s \in keys}

Learned(c, es) == [e \in Entries |-> IF e \in es THEN c ELSE knows[e]]

\* Mutant of Fail: an error path that forgets to release persistMu.
FailLocked ==
  /\ knows' = Learned("lost", Planned(Found(busy.plan) \ Range(busy.todo)))
  /\ busy' = [busy EXCEPT !.op = "stuck"]
  /\ UNCHANGED <<st, handed>>

Fail ==
  /\ knows' = Learned("lost", Planned(Found(busy.plan) \ Range(busy.todo)))
  /\ busy' = Free
  /\ UNCHANGED <<st, handed>>

DeliverNext ==
  /\ busy.op = "deliver"
  /\ LET s == Head(busy.todo)
         q == busy.plan[s]
         c == busy.consumer IN
     \/ ~st[s].group.exists /\ Fail
     \/ /\ st[s].group.exists
        /\ st' = [st EXCEPT ![s] = XGroupDeliver(@, c, q)]
        /\ handed' = [e \in Entries |-> IF busy.new /\ e \in Vals(q) THEN handed[e] + 1
                                        ELSE handed[e]]
        /\ \/ /\ Len(busy.todo) > 1
              /\ busy' = [busy EXCEPT !.todo = Tail(@)]
              /\ UNCHANGED knows
           \/ /\ Len(busy.todo) = 1
              /\ busy' = Free
              /\ knows' = Learned(c, Planned(Found(busy.plan)))
  /\ UNCHANGED <<callVars, added, lapses, seen, crossed>>

(***************************************************************************)
(* The log refuses an entry: XADD has an ID and returns an error,          *)
(* XREADGROUP stops before the next stream.                                *)
(***************************************************************************)
AppendFails ==
  /\ \/ busy.op = "xadd" /\ busy' = Free /\ UNCHANGED <<st, handed, knows>>
     \/ busy.op = "deliver" /\ Fail
  /\ UNCHANGED <<callVars, added, lapses, seen, crossed>>

-----------------------------------------------------------------------------
(***************************************************************************)
(* XACK, XCLAIM, XAUTOCLAIM and XTRIM, under persistMu.  Claims and        *)
(* trimming look at neither expiry nor each other: an entry that was       *)
(* trimmed stays pending, may be claimed, and is missing from the reply.   *)
(***************************************************************************)
Forget(x, ids) ==
  [x EXCEPT !.group.pending = [i \in DOMAIN @ \ ids |-> @[i]]]

XAck(s, ids) ==
  /\ st[s].group.exists /\ ~st[s].expired
  /\ st' = [st EXCEPT ![s] = Forget(@, ids)]
  /\ UNCHANGED <<busy, callVars, added, handed, knows, seen>>

Pendings(s) == SUBSET DOMAIN st[s].group.pending \ {{}}

XAckHandler(s, ids) ==
  /\ busy = Free /\ XGroupExists(s) /\ XAck(s, ids)
  /\ UNCHANGED <<lapses, crossed>>

(***************************************************************************)
(* XACK of a replication link, which may come between the two halves of an *)
(* XREADGROUP that reads the entry again.                                  *)
(***************************************************************************)
Rereading(s) ==
  IF busy.op = "deliver" /\ ~busy.new /\ s \in Range(busy.todo) THEN ToIDs(busy.plan[s]) ELSE {}

PeerXAck(s, ids) ==
  /\ XAck(s, ids) /\ lapses < MaxLapses /\ lapses' = lapses + 1
  /\ crossed' = crossed \cup ValsAt(st[s], ids \cap Rereading(s))

\* Mutant of Claim: the owner changes before the idle time is looked at.
ClaimHasty(s, c, ids, ripe) ==
  /\ st' = [st EXCEPT ![s].group.pending = Take(@, ids, c)]
  /\ knows' = Learned(c, ValsAt(st[s], ids \cap ripe))

Claim(s, c, ids, ripe) ==
  /\ st' = [st EXCEPT ![s].group.pending = Take(@, ids \cap ripe, c)]
  /\ knows' = Learned(c, ValsAt(st[s], ids \cap ripe))

XClaim(s, c, ids, ripe) ==
  /\ busy = Free /\ st[s].group.exists
  /\ Claim(s, c, ids, ripe)
  /\ UNCHANGED <<busy, callVars, added, lapses, handed, seen, crossed>>

(***************************************************************************)
(* The loop visits the pending IDs from start on, in order, until count    *)
(* entries are claimed; an ID that is not idle for long enough, or not in  *)
(* the stream any more, does not count.                                    *)
(***************************************************************************)
Visited(x, start, n, ripe) ==
  LET from == {i \in DOMAIN x.group.pending : ~compareID(i, start)}
      counted == {i \in from \cap ripe : ValsAt(x, {i}) # {}} IN
  {i \in from : Cardinality({j \in counted : compareID(j, i)}) < n}

XAutoClaim(s, c, start, n, ripe) ==
  /\ busy = Free /\ st[s].group.exists
  /\ Claim(s, c, Visited(st[s], start, n, ripe), ripe)
  /\ UNCHANGED <<busy, callVars, added, lapses, handed, seen, crossed>>

XTrim(s, n) ==
  /\ busy = Free /\ Len(st[s].entries) > n
  /\ st' = [st EXCEPT ![s].entries = SubSeq(@, Len(@) - n + 1, Len(@))]
  /\ UNCHANGED <<busy, callVars, added, lapses, histVars>>

-----------------------------------------------------------------------------
(***************************************************************************)
(* XREAD: read, wait once, read again; "$" is resolved before the first    *)
(* read.  A read that finds something, or does not block, changes nothing. *)
(***************************************************************************)
EntriesAfter(s, id) ==
  IF st[s].expired THEN <<>>
  ELSE After(st[s].entries, id)

LastID(s) == IF st[s].expired THEN Zero ELSE lastIDLocked(st[s])

XReadBlocks(c, keys) ==
  /\ pc[c] = "idle"
  /\ pc' = [pc EXCEPT ![c] = "gap"]
  /\ call' = [call EXCEPT ![c] = [group |-> FALSE, streams |-> keys, count |-> 1,
                                  after |-> [s \in keys |-> LastID(s)]]]
  /\ UNCHANGED <<st, busy, waits, added, lapses, histVars>>

XReadReturns(c) ==
  /\ pc[c] = "back" /\ ~call[c].group
  /\ pc' = [pc EXCEPT ![c] = "idle"]
  /\ call' = [call EXCEPT ![c] = NoCall]
  /\ UNCHANGED <<st, busy, waits, added, lapses, histVars>>

(***************************************************************************)
(* What a sleeping caller would be given if it looked now.                 *)
(***************************************************************************)
Wanted(c, s) ==
  IF ~call[c].group THEN Vals(EntriesAfter(s, call[c].after[s]))
  ELSE IF st[s].expired \/ ~st[s].group.exists THEN {}
  ELSE Vals(Unread(st[s]))

(***************************************************************************)
(* Wait: register, sleep until woken or timed out, remove the waiter.      *)
(***************************************************************************)
Wait(c) ==
  /\ pc[c] = "gap"
  /\ waits' = [s \in StreamKeys |-> IF s \in call[c].streams THEN waits[s] \cup {c}
                                    ELSE waits[s]]
  /\ pc' = [pc EXCEPT ![c] = "asleep"]
  /\ seen' = [seen EXCEPT ![c] = UNION {Vals(st[s].entries) : s \in call[c].streams}]
  /\ UNCHANGED <<st, busy, call, added, lapses, handed, knows, crossed>>

(***************************************************************************)
(* The call was woken, or its time is up.                                  *)
(***************************************************************************)
removeWaiter(c) ==
  /\ pc[c] \in {"asleep", "awake"}
  /\ waits' = [s \in StreamKeys |-> waits[s] \ {c}]
  /\ pc' = [pc EXCEPT ![c] = "back"]
  /\ seen' = [seen EXCEPT ![c] = {}]
  /\ UNCHANGED <<st, busy, call, added, lapses, handed, knows, crossed>>

-----------------------------------------------------------------------------
(***************************************************************************)
(* The rest of the server: a key's expiry time passes, a key is deleted,   *)
(* it is overwritten by SET (which leaves the group behind), the database  *)
(* is flushed (which drops the waiters).  HTTP requests do each of these   *)
(* without persistMu, so also while a handler holds it.                    *)
(***************************************************************************)
Lapse(s) ==
  /\ (st[s].made \/ st[s].other) /\ ~st[s].expired /\ lapses < MaxLapses
  /\ st' = [st EXCEPT ![s].expired = TRUE]
  /\ lapses' = lapses + 1
  /\ UNCHANGED <<busy, callVars, added, histVars>>

deleteKeyLocked(s) ==
  /\ st[s].expired \/ (st[s] # Absent /\ lapses < MaxLapses)
  /\ lapses' = IF st[s].expired THEN lapses ELSE lapses + 1
  /\ st' = [st EXCEPT ![s] = Absent]
  /\ UNCHANGED <<busy, callVars, added, histVars>>

Set(s) ==
  /\ lapses < MaxLapses
  /\ lapses' = lapses + 1
  /\ st' = [st EXCEPT ![s] = [Absent EXCEPT !.other = TRUE, !.group = st[s].group]]
  /\ UNCHANGED <<busy, callVars, added, histVars>>

FlushDB ==
  /\ lapses < MaxLapses
  /\ lapses' = lapses + 1
  /\ st' = [s \in StreamKeys |-> Absent]
  /\ waits' = [s \in StreamKeys |-> {}]
  /\ UNCHANGED <<busy, pc, call, added, histVars>>

IDArgs == ExplicitIDs \cup {Star}

Next ==
  \/ \E s \in StreamKeys, arg \in IDArgs, ms \in Millis :
       NextStreamID(s, arg, ms) \/ XAdd(s, arg, ms)
  \/ XAddPrepared
  \/ DeliverNext
  \/ AppendFails
  \/ \E s \in StreamKeys :
       \/ \E start \in {"0", "$"}, mkstream \in BOOLEAN : XGroupCreate(s, start, mkstream)
       \/ \E ids \in Pendings(s) : XAckHandler(s, ids) \/ PeerXAck(s, ids)
       \/ \E c \in Consumers, ripe \in Pendings(s) :
            \/ \E ids \in Pendings(s) : XClaim(s, c, ids, ripe)
            \/ \E start \in DOMAIN st[s].group.pending, n \in Counts :
                 XAutoClaim(s, c, start, n, ripe)
       \/ \E n \in TrimLens : XTrim(s, n)
       \/ Lapse(s) \/ deleteKeyLocked(s) \/ Set(s)
  \/ \E c \in Consumers, a \in ReadArgs :
       \/ \E new \in BOOLEAN : XReadGroup(c, a.streams, a.count, new)
       \/ c \in Callers /\ XReadGroupBlocks(c, a.streams, a.count)
  \/ \E c \in Callers, keys \in XReadKeys : XReadBlocks(c, keys)
  \/ \E c \in Callers :
       \/ Wait(c) \/ removeWaiter(c)
       \/ XReadGroupResumes(c) \/ XReadReturns(c)
  \/ FlushDB

(***************************************************************************)
(* A handler that holds persistMu finishes, a woken goroutine runs, and a  *)
(* Go mutex does not starve a caller that waits for persistMu.             *)
(***************************************************************************)
Fairness ==
  /\ WF_vars(XAddPrepared) /\ WF_vars(DeliverNext)
  /\ \A c \in Callers :
       /\ WF_vars(Wait(c)) /\ WF_vars(pc[c] = "awake" /\ removeWaiter(c))
       /\ SF_vars(XReadGroupResumes(c)) /\ WF_vars(XReadReturns(c))

Spec == Init /\ [][Next]_vars /\ Fairness

-----------------------------------------------------------------------------
(***************************************************************************)
(* Types of what the store holds and of the callers' state.                *)
(***************************************************************************)
TypeOK ==
  /\ \A s \in StreamKeys :
       /\ st[s].made \in BOOLEAN /\ st[s].other \in BOOLEAN /\ st[s].expired \in BOOLEAN
       /\ st[s].entries \in Seq([id : IDs, val : Entries])
       /\ st[s].seq \in Nat
       /\ st[s].group.exists \in BOOLEAN /\ st[s].group.last \in IDs
       /\ DOMAIN st[s].group.pending \subseteq IDs
       /\ \A i \in DOMAIN st[s].group.pending :
            st[s].group.pending[i] \in Consumers
  /\ busy.op \in {"none", "xadd", "deliver"}
  /\ waits \in [StreamKeys -> SUBSET Callers]
  /\ pc \in [Callers -> {"idle", "gap", "asleep", "awake", "back"}]
  /\ added \in 0..MaxEntries /\ lapses \in 0..MaxLapses
  /\ handed \in [Entries -> Nat]
  /\ crossed \subseteq Entries /\ knows \in [Entries -> Consumers \cup {"nobody", "lost"}]

(***************************************************************************)
(* The IDs of a stream rise strictly, which the binary searches of XREAD,  *)
(* XRANGE and XREADGROUP rely on, although an ID is chosen in one critical *)
(* section and used in another.                                            *)
(***************************************************************************)
IDsRise ==
  \A s \in StreamKeys : \A i, j \in DOMAIN st[s].entries :
    i < j => compareID(st[s].entries[i].id, st[s].entries[j].id)

(***************************************************************************)
(* A pending entry that is still in the stream has been sent to the        *)
(* consumer it is assigned to, except when the XREADGROUP that delivered   *)
(* it failed on a later stream.                                            *)
(***************************************************************************)
OwnersKnow ==
  busy.op # "deliver" =>
    \A s \in StreamKeys : \A i \in DOMAIN st[s].group.pending :
      \A e \in ValsAt(st[s], {i}) : knows[e] \in {st[s].group.pending[i], "lost"}

(***************************************************************************)
(* A registered sleeper has nothing to read but what was there when it     *)
(* registered: no XADD after that goes unnoticed.                          *)
(***************************************************************************)
SleepersNoticed ==
  \A s \in StreamKeys : \A c \in waits[s] :
    pc[c] = "asleep" => Wanted(c, s) \subseteq seen[c]

(***************************************************************************)
(* Only calls that are inside Wait have waiters: none is left behind by a  *)
(* timeout or by a wake-up on another stream.                              *)
(***************************************************************************)
NoStaleWaiter == \A s \in StreamKeys : \A c \in waits[s] : pc[c] \in {"asleep", "awake"}

(***************************************************************************)
(* A woken or timed-out reader gets persistMu and returns: no path of a    *)
(* handler keeps the lock.                                                 *)
(***************************************************************************)
WokenReturn == \A c \in Callers : pc[c] \in {"awake", "back"} ~> pc[c] = "idle"

(***************************************************************************)
(* The group's view of an entry, and the promise of EntryDelivery: read as *)
(* new at most once, none skipped, acknowledged for good.                  *)
(***************************************************************************)
StatusIn(x, e) ==
  IF ~x.group.exists THEN "outside"
  ELSE IF e.id \in DOMAIN x.group.pending
       THEN IF e.val \in crossed THEN "reopened" ELSE "held"
  ELSE IF compareID(x.group.last, e.id) THEN "unread"
  ELSE "done"

Home(v) == {s \in StreamKeys : v \in Vals(st[s].entries)}
Entering(v) == v > added \/ (busy.op = "xadd" /\ busy.val = v)

StatusOf(v) ==
  IF Home(v) # {} THEN LET s == CHOOSE s \in Home(v) : TRUE IN
                       LET e == CHOOSE e \in Range(st[s].entries) : e.val = v IN
                       StatusIn(st[s], e)
  ELSE IF Entering(v) THEN "absent" ELSE "gone"

Delivered == INSTANCE EntryDelivery WITH status <- [v \in Entries |-> StatusOf(v)]

DeliveredOnce == Delivered!Spec

(***************************************************************************)
(* Types, and a registry of waiters that misses no XADD and keeps nobody   *)
(* whose call is over.                                                     *)
(***************************************************************************)
Inv == TypeOK /\ SleepersNoticed /\ NoStaleWaiter
=============================================================================
