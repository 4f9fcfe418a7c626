---------------------------- MODULE ReliableQueue ----------------------------
(***************************************************************************)
(* The reliable queue of internal/store/queue.go: one named queue, its     *)
(* messages, and the consumers that take messages from it, block for them, *)
(* acknowledge them or give them back.  Queues of different names share    *)
(* only the store's lock, so one queue stands for each of them.            *)
(*                                                                         *)
(* Every step is one critical section of Store.mu.  A Dequeue that finds   *)
(* nothing releases the lock, sleeps on its waiter's channel and looks     *)
(* again, so it takes three steps: Dequeue, Wake or TimeOut, and Rescan.   *)
(*                                                                         *)
(* Time is kept as the time that is left: delay[m] until CreatedAt is      *)
(* reached, lease[m] until AckDeadline; lease[m] = -1 means the deadline   *)
(* has passed.                                                             *)
(***************************************************************************)
EXTENDS Integers, Sequences, FiniteSets, SequencesExt

CONSTANTS Consumers,    \* the connections that issue DEQUEUE
          MaxMsgs,      \* bound: messages enqueued in a behaviour
          MaxWaiters,   \* bound: Dequeue calls that block in a behaviour
          MaxRetries,   \* Queue.MaxRetries (3 in the code)
          AckTimeout,   \* Queue.AckTimeout, in ticks of the clock
          Delays        \* the DELAY arguments of ENQUEUE, in ticks

ASSUME QueueAssumption ==
  /\ MaxMsgs \in Nat
  /\ MaxWaiters \in Nat
  /\ MaxRetries \in Nat \ {0}
  /\ AckTimeout \in Nat
  /\ Delays \subseteq Nat

Messages == 1..MaxMsgs
Waiters == 1..MaxWaiters

VARIABLES
  pending,      \* Queue.Pending: message ids, oldest entry first
  processing,   \* Queue.Processing: ids of the messages handed out
  deadLetter,   \* Queue.DeadLetter
  retries,      \* QueueMessage.Retries
  delay,        \* time until QueueMessage.CreatedAt
  lease,        \* time until QueueMessage.AckDeadline
  nextID,       \* queueSeq: messages enqueued so far
  queueWaits,   \* Store.queueWaits: waiters in arrival order
  closed,       \* waiters whose channel has been closed
  nextWaiter,   \* waiters created so far
  pc,           \* where each consumer's Dequeue call is
  waiter,       \* the waiter of each consumer's blocked call
  acked,        \* history: messages a QACK removed
  dropped,      \* history: messages removed with the whole queue
  deliveries,   \* history: how often each message was handed out
  nacked,       \* history: messages given back since they were last handed out
  prompt        \* history: messages enqueued without a delay

queueVars == <<pending, processing, deadLetter, retries, delay, lease, nextID>>
waitVars == <<queueWaits, closed, nextWaiter, pc, waiter>>
historyVars == <<acked, dropped, deliveries, nacked, prompt>>
vars == <<queueVars, waitVars, historyVars>>

MessagesTypeOK ==
  /\ pending \in Seq(Messages)
  /\ processing \subseteq Messages
  /\ deadLetter \in Seq(Messages)
  /\ retries \in [Messages -> 0..MaxRetries]
  /\ delay \in [Messages -> Nat]
  /\ lease \in [Messages -> -1..AckTimeout]
  /\ nextID \in 0..MaxMsgs
  /\ acked \subseteq Messages
  /\ dropped \subseteq Messages
  /\ deliveries \in [Messages -> 0..MaxRetries]
  /\ nacked \subseteq Messages
  /\ prompt \subseteq Messages

WaitersTypeOK ==
  /\ queueWaits \in Seq(Waiters)
  /\ closed \subseteq Waiters
  /\ nextWaiter \in 0..MaxWaiters
  /\ pc \in [Consumers -> {"idle", "select", "rescan"}]
  /\ waiter \in [Consumers -> 0..MaxWaiters]

(***************************************************************************)
(* Type correctness of the queue's fields and of the waiters: counters     *)
(* stay within their bounds and waiters are only ever created ones.        *)
(***************************************************************************)
TypeOK == MessagesTypeOK /\ WaitersTypeOK

Init ==
  /\ pending = <<>> /\ processing = {} /\ deadLetter = <<>>
  /\ retries = [m \in Messages |-> 0]
  /\ delay = [m \in Messages |-> 0]
  /\ lease = [m \in Messages |-> -1]
  /\ nextID = 0
  /\ queueWaits = <<>> /\ closed = {} /\ nextWaiter = 0
  /\ pc = [c \in Consumers |-> "idle"]
  /\ waiter = [c \in Consumers |-> 0]
  /\ acked = {} /\ dropped = {} /\ nacked = {} /\ prompt = {}
  /\ deliveries = [m \in Messages |-> 0]

-----------------------------------------------------------------------------
(***************************************************************************)
(* Enqueue: append the message, then close the channel of the waiter that  *)
(* has been in queueWaits longest, whoever it belongs to.                  *)
(***************************************************************************)
Enqueue(d) ==
  /\ nextID < MaxMsgs
  /\ nextID' = nextID + 1
  /\ pending' = Append(pending, nextID + 1)
  /\ delay' = [delay EXCEPT ![nextID + 1] = d]
  /\ IF queueWaits = <<>>
     THEN UNCHANGED <<queueWaits, closed>>
     ELSE /\ queueWaits' = Tail(queueWaits)
          /\ closed' = closed \cup {Head(queueWaits)}
  /\ prompt' = IF d = 0 THEN prompt \cup {nextID + 1} ELSE prompt
  /\ UNCHANGED <<processing, deadLetter, retries, lease,
                 nextWaiter, pc, waiter, acked, dropped, deliveries, nacked>>

-----------------------------------------------------------------------------
(***************************************************************************)
(* requeueExpiredLocked ranges over a Go map, so the overdue messages come *)
(* out in any order.                                                       *)
(***************************************************************************)
\* Mutants of Expired: deadlines that count as passed a tick early; no sweep at all.
ExpiredEarly == {m \in processing : lease[m] <= 0}
NoneExpired == {}

Expired == {m \in processing : lease[m] < 0}

\* Mutant of Exhausted: one delivery too few.
ExhaustedEarly(m) == retries[m] + 2 >= MaxRetries

Exhausted(m) == retries[m] + 1 >= MaxRetries

\* Mutant of ToRetry: no "continue" after a message is dead-lettered.
RetryBuriedToo == Expired

ToRetry == {m \in Expired : ~Exhausted(m)}
ToBury == {m \in Expired : Exhausted(m)}

Orders(S) ==
  {s \in [1..Cardinality(S) -> S] :
     /\ \A m \in S : \E i \in 1..Cardinality(S) : s[i] = m
     /\ \A i, j \in 1..Cardinality(S) : s[i] = s[j] => i = j}

\* Mutant of requeueExpiredLocked: a missed deadline is not counted.
requeueUncounted(buried) ==
  /\ deadLetter' = deadLetter \o buried
  /\ delay' = [m \in Messages |-> IF m \in ToRetry THEN 0 ELSE delay[m]]
  /\ UNCHANGED retries

requeueExpiredLocked(buried) ==
  /\ deadLetter' = deadLetter \o buried
  /\ retries' = [m \in Messages |->
                   IF m \in Expired THEN retries[m] + 1 ELSE retries[m]]
  /\ delay' = [m \in Messages |-> IF m \in ToRetry THEN 0 ELSE delay[m]]

(***************************************************************************)
(* The scan of Dequeue: position i of p holds the first message whose      *)
(* CreatedAt is not in the future.                                         *)
(***************************************************************************)
Ready(m) == m \in ToRetry \/ delay[m] = 0

\* Mutant of FirstReady: any ready message, not the first.
SomeReady(p, i) == Ready(p[i])

FirstReady(p, i) == Ready(p[i]) /\ \A j \in 1..(i - 1) : ~Ready(p[j])

(***************************************************************************)
(* One pass under the lock, first or second: requeue what is overdue, then *)
(* hand out the first message that is ready ...                            *)
(***************************************************************************)
TakeFirst ==
  \E back \in Orders(ToRetry), buried \in Orders(ToBury) :
    LET p == pending \o back IN
    \E i \in 1..Len(p) :
      /\ FirstReady(p, i)
      /\ requeueExpiredLocked(buried)
      /\ pending' = RemoveAt(p, i)
      /\ processing' = (processing \ Expired) \cup {p[i]}
      /\ lease' = [lease EXCEPT ![p[i]] = AckTimeout]
      /\ deliveries' = [deliveries EXCEPT ![p[i]] = @ + 1]
      /\ nacked' = nacked \ {p[i]}
      /\ UNCHANGED <<nextID, acked, dropped, prompt>>

(***************************************************************************)
(* ... or find none.  A requeued message is ready at once, so then every   *)
(* overdue message went to the dead-letter list.                           *)
(***************************************************************************)
TakeNone ==
  \E buried \in Orders(ToBury) :
    /\ ToRetry = {}
    /\ \A i \in 1..Len(pending) : ~Ready(pending[i])
    /\ requeueExpiredLocked(buried)
    /\ processing' = processing \ Expired
    /\ UNCHANGED <<pending, lease, nextID, historyVars>>

(***************************************************************************)
(* Dequeue up to its first unlock: hand out a message, give up at once     *)
(* (timeout <= 0), or register a waiter and go to sleep.                   *)
(***************************************************************************)
DequeueTakes(c) ==
  /\ pc[c] = "idle"
  /\ TakeFirst
  /\ UNCHANGED waitVars

DequeueGivesUp(c) ==
  /\ pc[c] = "idle"
  /\ TakeNone
  /\ UNCHANGED waitVars

DequeueBlocks(c) ==
  /\ pc[c] = "idle"
  /\ nextWaiter < MaxWaiters
  /\ TakeNone
  /\ nextWaiter' = nextWaiter + 1
  /\ waiter' = [waiter EXCEPT ![c] = nextWaiter + 1]
  /\ queueWaits' = Append(queueWaits, nextWaiter + 1)
  /\ pc' = [pc EXCEPT ![c] = "select"]
  /\ UNCHANGED closed

(***************************************************************************)
(* The select of a blocked call: its channel was closed, or time.After     *)
(* fired.  The timeout leaves the waiter in queueWaits.                    *)
(***************************************************************************)
Wake(c) ==
  /\ pc[c] = "select"
  /\ waiter[c] \in closed
  /\ pc' = [pc EXCEPT ![c] = "rescan"]
  /\ UNCHANGED <<queueVars, queueWaits, closed, nextWaiter, waiter, historyVars>>

\* Mutant of TimeOut: a select without its time.After case.
TimeOutOnlyWhenClosed(c) ==
  /\ pc[c] = "select" /\ waiter[c] \in closed
  /\ pc' = [pc EXCEPT ![c] = "rescan"]
  /\ UNCHANGED <<queueVars, queueWaits, closed, nextWaiter, waiter, historyVars>>

TimeOut(c) ==
  /\ pc[c] = "select"
  /\ pc' = [pc EXCEPT ![c] = "rescan"]
  /\ UNCHANGED <<queueVars, queueWaits, closed, nextWaiter, waiter, historyVars>>

(***************************************************************************)
(* After the select: one more pass under the lock, whatever woke the call. *)
(***************************************************************************)
Rescan(c) ==
  /\ pc[c] = "rescan"
  /\ TakeFirst \/ TakeNone
  /\ pc' = [pc EXCEPT ![c] = "idle"]
  /\ waiter' = [waiter EXCEPT ![c] = 0]
  /\ UNCHANGED <<queueWaits, closed, nextWaiter>>

-----------------------------------------------------------------------------
(***************************************************************************)
(* QAck and QNack take any client's word for any message id; an id that is *)
(* not in processing is answered 0 and changes nothing.                    *)
(***************************************************************************)
QAck(m) ==
  /\ m \in processing
  /\ processing' = processing \ {m}
  /\ acked' = acked \cup {m}
  /\ UNCHANGED <<pending, deadLetter, retries, delay, lease, nextID,
                 waitVars, dropped, deliveries, nacked, prompt>>

QNack(m) ==
  /\ m \in processing
  /\ processing' = processing \ {m}
  /\ retries' = [retries EXCEPT ![m] = @ + 1]
  /\ IF Exhausted(m)
     THEN /\ deadLetter' = Append(deadLetter, m)
          /\ UNCHANGED <<pending, delay>>
     ELSE /\ pending' = Append(pending, m)
          /\ delay' = [delay EXCEPT ![m] = 0]
          /\ UNCHANGED deadLetter
  /\ nacked' = nacked \cup {m}
  /\ UNCHANGED <<lease, nextID, waitVars, acked, dropped, deliveries, prompt>>

-----------------------------------------------------------------------------
(***************************************************************************)
(* The queue disappears when a key of its name is deleted, renamed over or *)
(* expires (deleteKeyLocked), its waiters stay; FlushDB also forgets the   *)
(* waiters, whose calls sleep on until their own timeout.                  *)
(***************************************************************************)
Held == ToSet(pending) \cup processing \cup ToSet(deadLetter)

ClearQueue ==
  /\ dropped' = dropped \cup Held
  /\ pending' = <<>> /\ processing' = {} /\ deadLetter' = <<>>
  /\ UNCHANGED <<retries, delay, lease, nextID, acked, deliveries,
                 nacked, prompt>>

deleteKeyLocked == ClearQueue /\ UNCHANGED waitVars

FlushDB == ClearQueue /\ queueWaits' = <<>>
                      /\ UNCHANGED <<closed, nextWaiter, pc, waiter>>

(***************************************************************************)
(* The clock moves on.                                                     *)
(***************************************************************************)
Tick ==
  /\ \E m \in Messages : delay[m] > 0 \/ lease[m] > -1
  /\ delay' = [m \in Messages |-> IF delay[m] > 0 THEN delay[m] - 1 ELSE 0]
  /\ lease' = [m \in Messages |-> IF lease[m] > -1 THEN lease[m] - 1 ELSE -1]
  /\ UNCHANGED <<pending, processing, deadLetter, retries, nextID,
                 waitVars, historyVars>>

Next ==
  \/ \E d \in Delays : Enqueue(d)
  \/ \E c \in Consumers :
       \/ DequeueTakes(c) \/ DequeueGivesUp(c) \/ DequeueBlocks(c)
       \/ Wake(c) \/ TimeOut(c) \/ Rescan(c)
  \/ \E m \in Messages : QAck(m) \/ QNack(m)
  \/ deleteKeyLocked
  \/ FlushDB
  \/ Tick

Spec == Init /\ [][Next]_vars

(***************************************************************************)
(* Fairness.  Time passes; time.After fires and a woken goroutine gets the *)
(* lock (the Go scheduler and sync.RWMutex do not starve it); and consumers *)
(* keep polling, which is the clients' part of the bargain: overdue        *)
(* messages are looked at only inside Dequeue.                             *)
(***************************************************************************)
Fairness ==
  /\ WF_vars(Tick)
  /\ \A c \in Consumers :
       /\ WF_vars(Wake(c) \/ TimeOut(c))
       /\ WF_vars(Rescan(c))
       /\ WF_vars(DequeueTakes(c) \/ DequeueGivesUp(c))

FairSpec == Spec /\ Fairness

-----------------------------------------------------------------------------
NoDuplicates(s) == \A i, j \in 1..Len(s) : s[i] = s[j] => i = j

(***************************************************************************)
(* Every message that was enqueued is in exactly one place, once: pending, *)
(* handed out, dead-lettered, acknowledged or dropped with its queue.      *)
(* Nothing is lost or doubled however deadlines, acknowledgements and      *)
(* blocked calls interleave (queue.go, all of its critical sections).      *)
(***************************************************************************)
OnePlace ==
  /\ Held \cup acked \cup dropped = 1..nextID
  /\ ToSet(pending) \cap processing = {}
  /\ ToSet(pending) \cap ToSet(deadLetter) = {}
  /\ processing \cap ToSet(deadLetter) = {}
  /\ Held \cap (acked \cup dropped) = {}
  /\ acked \cap dropped = {}
  /\ NoDuplicates(pending)
  /\ NoDuplicates(deadLetter)

(***************************************************************************)
(* A message is handed out at most MaxRetries times, it is dead-lettered   *)
(* exactly when that budget is used up, and its Retries counter is the     *)
(* number of deliveries that failed (QNack and requeueExpiredLocked agree  *)
(* on the comparison).                                                     *)
(***************************************************************************)
RetryBudget ==
  \A m \in Messages :
    /\ m \in ToSet(pending) => retries[m] = deliveries[m] /\ retries[m] < MaxRetries
    /\ m \in processing => retries[m] + 1 = deliveries[m]
    /\ m \in ToSet(deadLetter) => retries[m] = MaxRetries /\ deliveries[m] = MaxRetries

(***************************************************************************)
(* A message enqueued without a delay is first handed out before any       *)
(* message enqueued after it, although retried messages re-enter the same  *)
(* list and delayed ones sit in front of it (the scan of Dequeue).         *)
(***************************************************************************)
FirstDeliveryFIFO ==
  \A m \in prompt, n \in Messages :
    (m < n /\ deliveries[n] > 0) => (deliveries[m] > 0 \/ m \in dropped)

(***************************************************************************)
(* A message that was handed out is handed out again only after its        *)
(* acknowledgement deadline has passed or somebody gave it back: a holder  *)
(* that is in time never shares its message because the queue was hasty.   *)
(***************************************************************************)
NoHastyRedelivery ==
  [][\A m \in Messages :
       (deliveries'[m] > deliveries[m] /\ deliveries[m] > 0)
         => (lease[m] < 0 \/ m \in nacked)]_vars

(***************************************************************************)
(* A blocked Dequeue always comes back.                                    *)
(***************************************************************************)
BlockedCallsReturn == \A c \in Consumers : pc[c] # "idle" ~> pc[c] = "idle"

(***************************************************************************)
(* While consumers poll, every message is eventually acknowledged,         *)
(* dead-lettered or dropped: requeueing cannot go on for ever.             *)
(***************************************************************************)
EventuallySettled ==
  \A m \in Messages :
    m <= nextID ~> m \in acked \cup dropped \cup ToSet(deadLetter)

-----------------------------------------------------------------------------
(***************************************************************************)
(* The queue implements the life of a message.                             *)
(***************************************************************************)
status ==
  [m \in Messages |->
     IF m > nextID THEN "absent"
     ELSE IF m \in processing THEN "processing"
     ELSE IF m \in acked THEN "acked"
     ELSE IF m \in dropped THEN "dropped"
     ELSE IF m \in ToSet(deadLetter) THEN "dead"
     ELSE "pending"]

Lifecycle == INSTANCE MessageLifecycle WITH attempts <- deliveries

ImplementsLifecycle == Lifecycle!Spec
=============================================================================
