# A TLA+ model of Vole

Vole is an in-memory data server in Go: Redis-style commands over RESP, an HTTP
API, a reliable queue, blocking lists, streams, an append-only file (AOF) with
snapshots, leader-follower and multi-master replication, a slot-based cluster
and a number of smaller services. This directory holds TLA+ modules that model
its concurrent and failure-prone parts, TLC configurations that check them on
small instances, and TLAPS proofs about every module of the code. Paths below are
relative to `src/`.

## 1. Inventory

| Component | State | Operations | Interacts with | What is hard | What makes it correct |
|---|---|---|---|---|---|
| Reliable queue (`internal/store/queue.go`) | `Queue{Pending, Processing, DeadLetter}`, `queueWaits` | ENQUEUE, DEQUEUE (blocking), QACK, QNACK, the sweep of overdue messages | `Store.mu`; DEL, expiry, FLUSHDB | deadlines racing acknowledgements; blocked calls; a waiter left behind by a timeout | a message is in one place, is delivered at most `MaxRetries` times, in order, never early, and settles |
| Lists and blocking pops (`store.go`) | `lists`, `listWaits`, one channel per blocked call | LPUSH, RPUSH, LPOP, RPOP, LMOVE, BLPOP, BRPOP | `Store.mu`; RENAME, DEL, FLUSHDB; shutdown | a pusher serves sleepers itself; one waiter under several keys; timeout against hand-over | at most once, no stale waiter, sleepers are served, calls return |
| Persistence (`aof.go`, `snapshot.go`, handlers) | the store, the AOF, its synced prefix, the snapshot file, `persistMu` | every write, SAVE, BGSAVE, snapshot loop, startup | every handler | crashes between steps, torn lines, handlers that hold the lock over only one of log and store | a restart brings back the store |
| Leader-follower replication (`replication.go`) | role, replica map, connections, follow loops | REPLICAOF, REPLSYNC, propagation | `handleConn`, `Store.Dump` and `Load` | snapshot against stream, propagation order, cancelled loops, dropped connections | a caught-up follower equals the leader |
| Multi-master (`multimaster.go`) | peers, one loop and connection per link | MULTIMASTER ENABLE, DISABLE, CLUSTER MEET, REPLPEER | replication, cluster | the other side connects back; loops that end while they are replaced; Stop waits for all of them | every entry has a loop, one per link until a link is lost, lost links return, Stop returns |
| Keyspace (`store.go`) | typed maps, `expires`, `notBefore`, `version`, `keyVersion` | every writing command, lazy and sampled expiry, eviction, FLUSHDB, Load | everything | a key's kind is spread over nine maps that each command checks or clears in its own way; expiry times that outlive a key | one kind per key, no expiry without a key, a new version for every change (not kept by SREM) |
| Transactions (`handleConn`) | per-connection queue and watched versions | MULTI, EXEC, WATCH, UNWATCH, DISCARD | keyspace versions | EXEC holds no lock over its commands | no watched change goes unnoticed |
| Streams and groups (`store.go`) | entries, groups, pending lists, waiters | XADD, XREADGROUP, XREAD BLOCK, XACK, XCLAIM, XAUTOCLAIM, XTRIM | persistence, replication links, expiry, FLUSHDB | handlers are several critical sections; keys change kind in between; a wake-up between read and registration | IDs rise, an entry is read as new once and not skipped, woken readers return |
| Pub/sub, key events (`pubsub.go`, `store.go`) | subscriber channels, forwarding goroutines, event queue | SUBSCRIBE, PSUBSCRIBE, PUBLISH, events, shutdown | every write, HTTP event stream | send on a channel that is being closed; full buffers | what was accepted arrives in order, goroutines end |
| Cluster (`cluster.go`) | nodes, slots, liveness, one view per server | MEET, FORGET, RESET, heartbeat, Owner | every keyed command | slots move while a command checks ownership; a server is met by address and known by ID; Meet asks over the network under its lock | every slot has one owner, MOVED ends when views agree, health becomes true |
| Rate limiter (`store.go`) | times of requests in the window | RATELIMIT, RATELIMITRESET, cleanup | deletion of keys, the sampler | boundaries of the window, units | never more than the limit in a window; a refused caller is told the truth |
| Eviction (`store.go`) | access times, cached estimate, policy | EvictIfNeeded, CONFIG SET | every write, Get | the estimate is out of date, access times outlive keys | the loop ends, evicts enough and no more than needed |
| Deque (`deque.go`) | slots, head, count | push, pop, set, insert | lists | wrap-around, growing | it is a sequence, freed slots hold nothing |
| Sorted sets (`sortedset.go`) | scores, ordered slice | Add, Remove, PopMin, PopMax, ranges | keyspace | bisection on two sort keys | the slice is the map in order |
| Namespaces, key tags, cron | small | see source | keyspace | boundaries | not planned |
| Geo, HyperLogLog, JSON, time series, scripting, schema, webhooks, audit, slow log, metrics, clients, RESP, CLI | small | see source | | parsing, floating point, reporting | not planned |

The hazards, each at its line and with the properties that cover it, are in
`PROJECT.json`.

## 2. Plan

Done, in this order: **MessageLifecycle** (abstract) and **ReliableQueue**
(refines it), **ReliableQueueProofs**, **BlockingList**, **Persistence**,
**Replication**, **Keyspace** with transactions, **EntryDelivery** (abstract)
and **Streams** (refines it), **PubSub**, **Cluster**, **MultiMaster**,
**RateLimiter**, **SequenceDeque** (abstract) and **Deque** (refines it),
**SortedSet**, **Eviction**.

Proofs, in this order: **ReliableQueueProofs**, **ReplicationProofs**,
**KeyspaceProofs**, **PubSubProofs**, **PersistenceProofs**,
**BlockingListProofs**, **StreamsProofs**, **ServicesProofs** (section 5).

Left, most important first: the data on multi-master links (Replication in both
directions), the list commands LSET, LINSERT and LREM, namespaces. Every
invariant and every refinement that a passing run checks is proved; what remains
with TLC is listed at the end of section 5.

The runs stay few: one passing run per module where that is possible, one for
all small components together, and a violation run only where the documentation
is contradicted.

## 3. Modules

Every module begins with a comment that says how its state and steps correspond
to the code. Definitions carry the names of the functions they model where
there is one; `PROJECT.json` maps each to its lines. Operators marked
"Mutant of ..." are deliberately wrong variants of the definition that follows
them, used to see that each property can fail; no specification uses them.

**MessageLifecycle** is what the queue promises about one message: absent,
pending, processing, then acknowledged, dead or dropped, with at most
`MaxRetries` deliveries. A step moves any number of messages because one sweep
of the code does.

**ReliableQueue** models one named queue. A step is one critical section of
`Store.mu`; a blocking DEQUEUE is three (scan and register, select, scan again).
Deadlines and delays are kept as the time that is left. The order in which the
sweep visits `Processing`, a Go map, is arbitrary (`Orders`). QACK and QNACK of
an id that is not in processing change nothing and have no action.

**BlockingList** models lists, the pops that block on several of them, and the
hand-over inside the pusher's critical section. Elements are distinct values,
so "the same element twice" can be told from "an equal element". A waiter is
named after its consumer. `lost` collects elements that left a list for a call
that can no longer return them. The loop of `removeListWaiter` is the recursive
function `Kept`.

**Persistence** models one integer key and one list under three kinds of
writers: RESP handlers that hold `persistMu` over log and store (log first, or
store first for SET NX), HTTP handlers that release it in between, and BLPOP
that logs afterwards. Values are told apart by what the format of a line does
to them: plain ones come back as they were, one with a backslash before a `t` or
an `n` comes back as another (`unescapeLine` undoes `\n` and `\t` before
`\\`), one beyond the 64 KiB of `bufio.Scanner` makes replay return an error, so
that the server never starts again. `Crash` keeps a prefix that includes what
was synced, and of the last line perhaps a part (`Remains`): without its newline,
so that the next process continues it and both entries fail the checksum
(`Joined`); cut inside the checksum or the last argument, which replay accepts as
a line in the old format; or a part that does nothing. `Restart` is
`NewWithOptions`. Replay is modelled for the cases SETABS, SET, INCR, LPUSH and
LPOP; the other cases of its switch have the same form.
Under `always` an entry of a log-first RESP handler is written in one step and
synced in the next, so a crash in between can tear it. The snapshot's rename is
taken to be durable and disks do not fail.

**Replication** models a leader with its client connections, one follower, and
the connections between them as sequences of messages. A client's command is
executed, the replica map is copied, and the copies are written one by one, as
three kinds of steps. `applyReplicatedCommand` is modelled for SET and INCR, and
for commands it does not know. A follow loop looks at its context only before it dials
and before it reads. `Break` stands for a failing network and for the leader's
60-second read deadline.

**Keyspace** models which typed maps hold a key, its expiry, its delay and its
version. A command is an operator from the store it finds to the store it
leaves, one critical section of `Store.mu`; the actions are sets of commands.
Contents are abstracted to a small number per map, enough to see them change
and become empty. Time is "not set, ahead, past", moved by `Lapse` and
`Appear`. A connection's EXEC is the check of the versions (`Exec` or
`ExecAbort`), then any commands, then `ExecDone`, because the code runs the
queue without a lock. The history variable `altered` collects watched keys whose
contents a step changed, whatever it was (`Command`, `Restart` for FLUSHDB and
Load), but for the members that SREM removes (`SilentCommand`); `stray` holds the
keys on which SORT STORE of an expired source left an expiry time (`SortCommand`);
`plain[k]` says that since its last deletion only commands on strings, hashes,
lists, sets and sorted sets touched `k`, without a delay.

**EntryDelivery** is what a consumer group promises about one entry: outside
any group, unread, held by a consumer, done, gone from the stream, read as new
at most once and never skipped. "Reopened" is the one way back, see Streams.

**Streams** models two streams with a group each. XADD is `NextStreamID`, the
log entry (which may fail) and `XAddPrepared`; XREADGROUP is a plan under the
read lock and one delivery per stream; both hold `persistMu` over their steps
(`busy`). Expiry, DEL, SET, FLUSHDB (which over HTTP is not under `persistMu`) and
a replication link's XACK take `Store.mu` alone and come in between, so the stream may be gone or another
kind of value when the second half runs. A blocking read that found nothing
registers in a step of its own, sleeps, is woken by an XADD or by its timeout,
and reads again. IDs are pairs of numbers and the clock may be set back.

**PubSub** models each subscription as a bounded channel, its forwarding
goroutine, and the merged channel its handler reads. Publish copies the
registered subscriptions and sends one by one; leaving closes channels one by
one; key changes go through the change queue to the goroutine that publishes
them. A send on a closed channel panics: `fallen` ends the behaviour.

**Cluster** models one view per server: its node list with addresses, slots and
liveness, the copy of its own entry, the question that Meet asks under its lock,
the pings in flight. Meet compares addresses, everything else IDs: a server met
at a second address has two entries, both get slots, and pings are written to
the first of them; a server that is in its own `--peers` has two entries of its
own. Entries with one ID stay in the order they had when they are sorted, as
`sort.Slice` leaves lists of up to 12. `SelfOwns` reads the owner and the server's
own ID under two locks; the ID never changes, so that one state tells the
answer. The MOVED of `ensureOwns` looks the owner up once more; `MovedEnds` is
about that look-up, in any state. Crashed servers restart with their `--peers`
and the same ID (`--node-id`). IDs in `--peers` are the servers' own; a peer
listed without one, which goes by its address, is not modelled.

**MultiMaster** models the links: each peer loop from its dial through the
snapshot to its end, the entry in `MultiMaster.peers` it owns, what
`handleReplPeer` did on the other side (including connecting back), and Stop
in its three stages. The data on a link is Replication's.

**RateLimiter** models one limiter with a clock finer than the milliseconds the
caller is told. **Deque** is the ring buffer slot by slot and refines **SequenceDeque**, a sequence:
not just some step of a sequence, but the operation of the same name, at the same
end or position. **SortedSet** is the map and the slice, with
`sort.Search` as a recursive function. **Eviction** is one step per evicted
key, with the cached estimate, the sampled access times and a Get that touches
its key late. `EvictIfNeeded` looks at `maxMemory` without a lock and takes
`Store.mu` in a step of its own (`TakesLock`), so that CONFIG SET falls in between.

**MCServices** joins the components that share no state into one specification:
its variable `part` says which of them runs, and the fairness of each applies
to the part that runs. Nothing is learned about them together.

In every module the state predicates are small and named; `Inv` (in the modules
of MCServices `PubSubInv`, `ClusterInv` and so on) joins the types with the
predicates that belong together, and `...Live` joins liveness properties of one
component. These conjunctions are what the runs check.

## 4. Runs

| Run | Shows | Bounds |
|---|---|---|
| `ReliableQueue` | one place, retry budget, order of first deliveries, no hasty redelivery, refinement of MessageLifecycle; blocked calls return, messages settle | 2 messages, 2 consumers, 2 blocked calls, 2 retries, delays 0 and 1 |
| `BlockingList` | types, at most once, no stale waiter, a push or a move serves all it can; blocked calls return | 2 keys, 2 consumers, 3 elements, pushes of 1 and 2 |
| `Persistence` | disk agrees with memory and a restart keeps what was answered, unless the log holds an entry that is misread (`Exact`) or an unlocked write or a FLUSHDB has parted the two (`strayed`); a snapshot heals the files | 2 RESP clients, an HTTP and a blocking client, all commands, snapshots, values plain, escaped and too long, cut lines, 3 commands, 2 crashes, `always` |
| `Replication` | snapshot first, a client's writes once each and in its order, at most one late message | 2 clients, 2 writes, 2 follow loops, 2 connections, 1 break |
| `ReplicationQuiet` | a caught-up follower equals the leader, and it catches up | 1 client, 3 writes, 3 connections, 2 breaks; no write during a handshake |
| `Keyspace` | types, one kind per key, no expiry without a key but for the one SORT leaves, EXEC notices every change but SREM's | 2 keys, 1 connection with WATCH, commands until version 4 is reached |
| `Streams` | types, IDs rise, a pending entry is known to its consumer, an XADD wakes registered sleepers, no waiter outlives its call, refinement of EntryDelivery; woken readers return | 2 streams, 2 consumers of which 1 blocks, 2 XADDs, 1 expiry, deletion, overwriting or XACK by a link, COUNT 1, MAXLEN 1 |
| `Services` | PubSub: registered channels are open, messages of one source in order, accepted ones arrive, forwarders end. Cluster: one owner per slot, own entry agrees, MOVED ends between servers that divide the slots among the same nodes, MEET returns, health settles. MultiMaster: entries have a loop, one loop per link before anything is lost, Stop returns, lost links return. RateLimiter: window respected, waiting time honest. Deque: each operation that of a sequence, freed slots blank, ranges exact. SortedSet: index and score ranges exact. Eviction: at most one key wasted, the loop ends, evicts enough | 1 connection with a channel and a pattern, 2 messages, buffers of 1; 2 servers and a third node, one of them with two addresses and listed in its own peers, 5 slots, 2 commands, 1 crash; 2 masters, 3 loops, 1 loss, 3 switches; limit 2 in a window of 4 ticks; 5 elements from capacity 2; 3 members, 2 scores; 2 keys of sizes 1 and 3 under limit 2 |

Two messages or elements are needed for order and for doubling, a third for one
that is retried or moved between them; two consumers race for everything one
queue or list shares; two retries distinguish "again" from "for the last time".
Two commands are needed to see order in the log, a third to follow a snapshot
or a crash. Two follow loops are needed for a cancelled one beside a new one.
Four versions let a key be created, given an expiry, moved or copied over
another and created again, or a store be flushed and refilled under a watch.
In Streams the second XADD can be the first of a key that was lost after the
first, and one interference falls between any two halves of a handler. Buffers
of one are full after one message and empty after one read. Five slots do not
divide by two or three nodes, so the remainder of `rebalanceSlots` matters. Three
loops are an original, the connection back, and one started while an old one
ends. Five elements take the ring buffer through two growths with the head
anywhere; three members with two scores meet every tie of the two sort keys.
Two keys, one within the limit and one beyond it, are enough for an eviction
too many on an old estimate.

Four runs expect a violation. Each checks one property that repeats a sentence
of the documentation or a comment, which `PROJECT.json` quotes.

| Run | What TLC finds |
|---|---|
| `BlockingListVanish` | an element is popped for a call that has just timed out |
| `PersistenceSnapshotCrash` | crash between rename and truncation: INCR counts twice |
| `ReplicationGap` | a write between dump and registration reaches no replica |
| `KeyspaceSRem` | SREM changes a set and gives it no version: no event, and EXEC of a watcher goes ahead |

Deadlock is checked for the queue. The other systems may stop: after shutdown,
or when the bounds on commands, crashes and connections are used up.

### Other departures met while modelling

The modules contain these behaviours; the properties are stated so that they
hold beside them, and no run is spent on them.

- Queue: the waiter of a timed-out DEQUEUE stays in `queueWaits` and swallows
  a later wake-up; a second blocked call then sleeps until its own timeout.
- Lists: FLUSHDB drops the waiters, so blocked calls sleep through later pushes.
- Persistence (the history `strayed` marks it, and `DiskAgrees` and
  `RestartKeepsAnswered` are stated for the time before): HTTP handlers release `persistMu` between log and store, so
  log order and store order differ, a refused NX is logged, and a snapshot can
  truncate a write that is not applied yet; FLUSHDB leaves the snapshot file,
  and its replay is ignored; BLPOP is logged late.
- Persistence, whoever writes (`Misread` names the four ways, and `DiskAgrees` and
  `RestartKeepsAnswered` are stated for logs without them): an entry appended
  behind a cut line is lost with it; a line cut inside its checksum or its last
  argument is taken for a whole one; a value with a backslash before a `t` or an
  `n` changes; a line beyond 64 KiB keeps the server from starting.
- Replication (`Replication.cfg` with `InSync`): propagation is not ordered
  like execution, a refused NX is propagated, MSET and FLUSHDB are not applied
  by followers, EXEC propagates nothing, a follower accepts writes inside
  MULTI, and a cancelled follow loop may still load one snapshot.
- Keyspace: SET leaves a JSON document, a time series and a delay in place (a
  value SET over a delayed key stays hidden); DEL does not see a delayed key;
  COPY onto a delayed key, PFMERGE onto anything, and LMOVE or JSON.SET onto a
  kind they do not check give a key two kinds; RENAME and COPY leave JSON and
  time series behind but carry the expiry over; RENAME or COPY REPLACE of a key
  onto itself deletes it; SORT STORE of an expired source leaves the
  destination's expiry; keys found expired by a command send "del", only the
  sampler sends "expired"; FLUSHDB and Load give version 0 back to every key,
  which a WATCH at version 0 cannot see; EXEC isolates nothing; SREM gives no
  new version and sends no event (run `KeyspaceSRem`), and FLUSHDB sends none.
  `WatchNoticed` counts every change but SREM's and the one a WATCH at version 0
  cannot see.
- SINTERSTORE and its siblings read their sources before they take `persistMu`,
  and delete and refill the destination in two critical sections.
- Streams: an XADD between a blocking read and its registration wakes nobody,
  so XREAD BLOCK 0 can sleep beside an entry; FLUSHDB drops the waiters; XREADGROUP with BLOCK and explicit IDs also blocks, which is left out; the
  key may be of another kind when `XAddPrepared` writes; XTRIM MAXLEN 0 forgets
  the last ID; SET leaves a stream's group behind; delivery, claims and trims
  do not look at expiry; an XREADGROUP over several streams that fails at a
  later one leaves entries pending that nobody was told of; a link's XACK
  between plan and delivery of a re-read makes the entry pending again; XTRIM,
  XCLAIM and XAUTOCLAIM are neither logged nor propagated, and `XADD s *` is
  propagated with its star.
- PubSub: a publish beside an unsubscribe, and a write beside StopExpiry, may
  send on a closed channel, which panics; full buffers drop messages that
  PUBLISH has counted; a pattern that matches both event channels gets each
  change twice; order holds for subscriptions with one source only (`OneSource`:
  one channel matches, and clients do not publish on it beside the key events).
- Cluster: two servers that MEET each other at the same time both wait for the
  deadline and fail; views are one-sided, and with different views MOVED can
  go round; a node that comes back gets slots only at the next MEET or FORGET;
  a server met at two addresses gets two shares, and pings reach only one of its
  entries; the second look-up of ensureOwns may name the server itself.
- MultiMaster: what PropagateToAllPeers writes to a link is ignored by the
  other side, so writes flow only towards the node that dialled; after a
  DISABLE during an ENABLE, or once a broken loop has deleted its entry, a
  second loop for the same peer can run and writes are applied twice
  (`OneLoopPerPeer` is stated for the time before, and says nothing of the second
  loop afterwards); a non-empty store skips the
  snapshot, so writes made while a link was down are lost, and a write between
  the look and the load is overwritten; the read of the snapshot has no
  deadline and Stop waits for it.
- Rate limiter: a limit of 0 is an index out of range, so `Limit` is positive
  here; deleting a key of the same name drops the limiter.
- Eviction: deleted keys come back into `accessTime`, and LRU then spends
  samples on keys that are gone; evictions are not logged; under noeviction
  DEL itself is refused; when CONFIG SET takes the limit away between
  `EvictIfNeeded`'s look and its lock, it evicts every key it can.

### Fairness

*ReliableQueue*: time passes (`Tick`); `time.After` fires and a woken goroutine
gets `Store.mu` (Go's mutex hands over to waiters that starve). That consumers
go on polling is an assumption on clients, and it is needed: the code looks at
overdue messages only inside DEQUEUE.
*BlockingList*: a select with a ready case proceeds, the deferred
`removeListWaiter` runs. Nobody is assumed to push, and shutdown is not assumed.
*Replication*: goroutines in the middle of a command or of a connection's
protocol go on, a broken connection is noticed (TCP error or read deadline) and
redialled (`followLoop` retries every five seconds). Clients need not write.
*Streams*: a handler that holds `persistMu` finishes, a woken goroutine runs
(weak), and a caller that waits for `persistMu` gets it though others take it
in between (strong: Go's mutex does not starve a waiter).
*PubSub*: forwarding goroutines and handlers run, and a handler notices a dead
connection. A client that stays must read what it is sent: the handler's Flush
has no write deadline, so one that neither reads nor leaves blocks its handler,
and the messages that were accepted for it. Publishers owe nothing.
*Cluster*: the heartbeat ticker fires, every ping returns by its deadline, and
Meet is answered or reaches its own.
*MultiMaster*: loops and stoppers go on, and a connected peer sends its
snapshot, which is an assumption on the peer, since that read has no deadline.
*Eviction*: the loop goes on; it holds `Store.mu`.

## 5. Proofs

The proofs hold for every value of the constants that satisfies the named
assumption of the module: any number of clients, keys, messages, connections,
crashes and so on. The assumptions only say what kind of thing a constant is.
Those worth naming: the keys of Keyspace and of Eviction and the masters of
MultiMaster are finitely many; the servers of Cluster are listed once each, in the order of their IDs, each with
any number of addresses, and there is at least one slot; the members of
SortedSet are numbers, standing for strings in their order; the limit and the
window of RateLimiter and the initial capacity of Deque are not 0; buffers and the change queue of PubSub have room for at least
one message, and each subscriber's names are subscribed once each; in
Persistence the three kinds of clients are different ones. Every module of
proofs extends the modules it is about; **ServicesProofs** has one part for each
component of MCServices but PubSub. "Run" names the run that checks the same
formula on a small instance.

| Module | Theorem | Statement | Run |
|---|---|---|---|
| ReliableQueueProofs | `QueueTypeCorrect` | `Spec => []TypeOK` | |
| | `NoMessageLost` | `Spec => []OnePlace` | ReliableQueue |
| | `RetriesAreCounted` | `Spec => []RetryBudget` | ReliableQueue |
| | `FirstDeliveriesInOrder` | `Spec => []FirstDeliveryFIFO` | ReliableQueue |
| | `RedeliveryIsDue` | `Spec => NoHastyRedelivery` | ReliableQueue |
| | `QueueImplementsLifecycle` | `Spec => ImplementsLifecycle` | ReliableQueue |
| BlockingListProofs | `NobodyLeftWaiting` | `Spec => []Inv` | BlockingList |
| | `ElementsAtMostOnce` | `Spec => []AtMostOnce` | BlockingList |
| | `PushesServeAll` | `Spec => PushServesAll` | BlockingList |
| PersistenceProofs | `LockMatchesProgress` | `Spec => []TypeOK` | |
| | `SnapshotHeals` | `Spec => SaveHeals` | Persistence |
| | `LockedWritesAreOnDisk` | `Spec => []Inv` | Persistence |
| | `AnsweredWritesSurvive` | `Fsync = "always"` gives `Spec => RestartKeepsAnswered` | Persistence |
| ReplicationProofs | `SnapshotComesFirst` | `Spec => []Inv` | Replication |
| | `WritesAreSentOnceInOrder` | `Spec => []SentOnceInOrder` | Replication |
| | `CancelledLoopTakesOne` | `Spec => []OneLateMessage` | Replication |
| | `CaughtUpIsEqual` | `OneWriter` gives `Spec => []InSync` | ReplicationQuiet |
| KeyspaceProofs | `KeysLiveInOneMap` | `Spec => []Inv` | Keyspace |
| | `NoExpiryWithoutKey` | `Spec => []ExpiryHasKey` | Keyspace |
| | `ExecNoticesChanges` | `Spec => WatchNoticed` | Keyspace |
| PubSubProofs | `MessagesStayInOrder` | `PubSubSpec => []PubSubInv` | Services |
| StreamsProofs | `StreamsSafe` | `Spec => []Inv` | Streams |
| | `StreamsOrdered` | `Spec => []IDsRise` | Streams |
| | `StreamsOwned` | `0 \notin TrimLens` gives `Spec => []OwnersKnow` | Streams |
| | `StreamsDelivered` | `0 \notin TrimLens` gives `Spec => DeliveredOnce` | Streams |
| ServicesProofs | `EntriesHaveLoops` | `MultiMasterSpec => []MultiMasterInv` | Services |
| | `ClusterIsSound` | `ClusterSpec => []ClusterInv` | Services |
| | `SortedSetIsExact` | `SortedSetSpec => []SortedSetInv` | Services |
| | `RingIsSound` | `DequeSpec => []DequeInv` | Services |
| | `RingIsSequence` | `DequeSpec => DequeIsSequence` | Services |
| | `RateIsLimited` | `RateSpec => []RateInv` | Services |
| | `EvictionWastesOne` | `EvictionSpec => []EvictionInv` | Services |
| | `EvictionIsEnough` | `EvictionSpec => EvictedEnough` | Services |

Where a run's specification adds fairness, the theorem is about the
specification without it and holds all the more with it. Each proof is an
inductive invariant, one lemma per action (or per command), and a last step by
temporal logic. The larger inductive invariants were themselves model-checked on
the runs' instances before they were proved.

**Queue.** `Inv` joins the types, `OnePlace` and `RetryBudget`, which need each
other (a message is counted by the place it is in), with three facts on the
history: identities not used yet have no deliveries, acknowledged messages were
delivered, and messages enqueued without a delay are ready and keep their order
in `pending` until they are first delivered. The last one is what makes the
order of first deliveries inductive, since retried messages re-enter the same
list. `RedeliveryIsDue` adds that a delivered message is in `pending` only when
its deadline has passed or it was given back. The refinement uses that a
message's place determines its abstract status (`PlaceGivesStatus`) and that
each step is a legal move of every message (`StepMoves`).

**Lists.** `IndInv` is at-most-once and the absence of stale waiters, together
with one fact on the channels: a waiter whose once has not fired has nothing in
its channel. Without it a hand-over could overwrite a value that is on its way.
The work is in one step, a push that serves any number of waiters from both ends
of the list: `Positions` and `HandOver` show that the j-th waiter's element is
at a place of its own and that the places of all waiters and of the remaining
list make up the whole list, by counting the waiters that pop on the left;
`Wakes` turns this into a partition of the elements into those that remain, are
on their way, or are lost. `KeptWaiters` is what the loop of `removeListWaiter`
leaves; that nothing stays under a key the call does not name needs
`NoStaleWaiter` itself.

**Persistence.** `Running` says who holds `persistMu`, and that every command
and every line of the log names an operation, so that replay gives a store.
`Undisturbed` follows a snapshot: while no unlocked write is under way the dump
that was taken is the store. Both hold in every configuration and give
`SnapshotHeals`. For the other two `FilesMatch` says what the files recover at
each point of a command under `persistMu` and of a snapshot, and `SyncedMatch`
the same for every log that a crash may leave, cut or not, when every entry is
synced. They hold while not `strayed`: an HTTP write, a BLPOP or a FLUSHDB ends
them, a restart and an undisturbed snapshot bring them back (`KeptSteps`,
`HealedFilesMatch`, for which `Undisturbed` is needed again). What the files
recover is claimed as long as no entry is misread (`Exact`), and the log becomes
exact again with the next snapshot. Neither condition can be dropped: section 4
lists what goes wrong without them. All this rests on lemmas about replay: what
it makes of one more line, of an empty log, and of two logs that agree. The run
has `always` only; the other policies are covered by the first two theorems.

**Replication.** Connections: nothing is sent on one before the leader serves
it, no command before it is registered. Loops: a loop that awaits its snapshot
has it first on its connection or still to come, one that streams finds commands
only, a cancelled one has taken one message at most and is done. Identities:
commands under way have different numbers, and only numbers given out are on a
connection, which is why copies of the replica map send nothing twice; a
command still to be sent is later than all of its client's on the connection,
which keeps the order.
`CaughtUpIsEqual` assumes `OneWriter`: one client, SET and INCR, one follow loop,
no write during a handshake, none without propagation. Each of these leaves out
a departure of section 4; the run `ReplicationGap` shows one of them. Its
invariant `QuietInv` says that on every open connection the snapshot, the
commands on their way and the one still owed to that replica lead from what the
follower holds to what the leader holds (`Leads`: a sequence of stores, each the
result of one command), and that no command is under way during a handshake.

**Keyspace.** `GoodKey`: a key that only core commands touched holds at most
one kind, is not delayed, and has an expiry only if it exists or is in `stray`. Every command
operator is shown to keep it (`GoodStore`), through lemmas on the few helpers
all commands use, and to trace its changes (`Traced`): a key whose version is not
new has the contents it had. `WatchInv` ties the history to the versions: a
watched key that was altered has a newer version, or was reset to version 0 from
a higher one.

**MultiMaster.** An active entry has a streaming loop of its link; a connecting
one, unless its node is being stopped, has a loop that has not ended. Before the
first loss or DISABLE every link with a loop has exactly one and an entry, so
nobody starts a second one.

**PubSub.** A subscription's message travels from the publisher's list of
targets through its buffer, its forwarder and the merged channel to the client.
`PipesInv` says that this whole pipe, read from the client's end, is in order
and that what a publisher still has to send comes after everything in it.

**Streams.** `CoreInv` holds in every configuration: the types, rising IDs,
sleepers that have seen every entry of the streams they wait for, no waiter
without its call, and a list of streams still to visit that names each once. It
gives `StreamsSafe` and `StreamsOrdered`. The other two theorems assume that no
XTRIM has MAXLEN 0, which empties a stream and so forgets its last ID (section
4): an ID could then be given out twice and the group would skip its entry.
Under it `DeepInv` is inductive. `GroupsBehind` and `XAddAhead` place the group's
last ID between what was read and what an XADD under way will write.
`Distinct` puts an entry in one place at most. `PlanInOrder`, `PlanHolds`,
`NewUnread` and `RereadsPending` say what an XREADGROUP may rely on when it
delivers what it planned before other writers came in between: an entry it
planned has not moved, one planned as new has not been read, and no unread one
is skipped. `OwnersTold` and `DoneHeld` are `OwnersKnow` for the part of a call
that is still under way. For the refinement `PlacedOnce` shows that an entry's
abstract status is determined by the one place it is in, and `NextAdvances`
that every step is a legal move of every entry; `Uncrossed` says that only the
race with a link's XACK reopens an acknowledged one.

**Cluster.** `ViewSound`: the slots of a server's view are divided among some set A
of its entries that contains all of the server's own, entries outside A hold
nothing, and the copy of the own entry is that of the last with the server's ID.
A is not always the set
of entries now seen online: a failed ping changes a state and divides nothing
until the next rebalancing, which is why the invariant must say "some set". That
every slot then has one owner is arithmetic on `SlotCount \div k` with the
remainder in the last share, and `Rank` being a bijection from A to 0..k-1: entries
with one ID are told apart by their positions. MOVED ends because what an entry
gets depends on how many entries of A have a smaller ID, and how many have its
own: equal `Shares` give a node the same slots altogether, however they are split
among its entries.

**SortedSet.** `ListsAll`: the slice lists exactly the map's members with their
scores, in strictly rising order of score and then member. It is inductive as
it stands, but each step uses the bisection: `Search` is shown to return
the first index that satisfies a condition which, once true, stays true, for
every length, and removal and insertion are shown to find their places with it.
Ranks are then counted by `PairedOff` (two finite sets paired one to one are
equally large), which turns a place in the slice into a number of members, for
ZRANK as for offset and count of LIMIT.

**Deque.** `RingHolds(buf, head, c, q)`: the c slots, read from the head on
around the end of the buffer, hold the sequence q and then blanks. The invariant
is that some q of length `count` is held. Every operation maps it to the ring of
the sequence after the same operation, which gives both theorems, the second for
each operation by name. The work is in
the wrap-around: the slot of a position and the position of a slot are inverse
(`SlotFacts`), a growing buffer is copied from the head on, and `Insert` shifts
whichever side is shorter (`LeftHolds`, `RightHolds`).

**RateLimiter.** The allowed requests are in order; the limiter records the
latest of them, and those it does not record, because they were cut off or
because the cleanup dropped the whole limiter, have left the window; a request
comes at least a window after the one `Limit` before it. The last fact is what
`WindowRespected` says of the history, and is not inductive without the second.

**Eviction.** Outside of its loop nothing is evicted, and once a key was evicted
the estimate is unknown, so that the next round counts anew. So only the first
round of a call can act on an old number, which is the one key that can be
wasted, and every later decision to stop is made on the memory as it is.

Induction over data is done inside the proofs where it is needed: the library's
induction theorems take an operator as a parameter, which the provers cannot
instantiate, so `LeastNumber` derives from well-foundedness of inclusion that a
nonempty set of numbers has a least one, and `CountUp` restates induction with a
set in the place of the predicate. Replay of the log, the count of left pops and
`Kept` are handled that way, and in ServicesProofs bisection, sorting and the cut
of the limiter.

Only model-checked:

- all liveness properties (BlockedCallsReturn and the like): the proof system
  has no rules for fairness that the installed provers can use;
- the actions' enabledness, and so the absence of deadlock.

## 6. Not modelled

Parsing and formatting, the HTTP layer beyond its writes and its event stream,
geo and HyperLogLog arithmetic, scripting, cron, schemas, webhooks, the command
line client and reporting services are outside the model: they are sequential
or pure input and output, or their arithmetic is out of TLC's reach. Namespaces
are a prefix in front of the keys of some commands, and key tags are labels
beside them; both add names and no new interleaving. Within the modelled parts:
failing disks, the durability of directory entries, the effect of a replayed
ENQUEUE (which gets a new id, so that a replayed QACK never matches it),
followers of followers, and, in Keyspace, streams, tags and rate limiters, the
memory estimate (which Eviction has), and composite commands such as
SINTERSTORE, whose halves are separate steps; in Streams, idle times and more
than one group, and re-reading pending entries with BLOCK; in Cluster, IDs that
change at a restart or that `--peers` gives wrongly; in RateLimiter, a limit or
window that changes from call to call; in Persistence, strings that the JSON of
the snapshot does not bring back; in MultiMaster, a second Stop during a Stop and the Lamport clock, which nothing reads; in SortedSet,
NaN scores and lexicographic ranges.
