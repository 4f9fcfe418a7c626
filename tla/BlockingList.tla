---------------------------- MODULE BlockingList ----------------------------
(***************************************************************************)
(* Lists and the blocking pops on them (internal/store/store.go, pushList, *)
(* popList, LMove, BPop, wakeListWaitersLocked, removeListWaiter).         *)
(*                                                                         *)
(* A BPop that finds its lists empty registers one waiter on each of its   *)
(* keys, releases Store.mu and sleeps in a select on the waiter's channel, *)
(* its timeout and the store's shutdown; when the select returns, a        *)
(* deferred removeListWaiter takes the waiter out again.  The pusher hands *)
(* elements to waiters itself.  A connection has one call at a time and a  *)
(* call has one waiter, so a waiter is named by its consumer.              *)
(*                                                                         *)
(* Every element pushed has a value of its own, and keys hold lists only.  *)
(***************************************************************************)
EXTENDS Integers, Sequences, FiniteSets, SequencesExt

CONSTANTS Keys,        \* list keys
          Consumers,   \* connections that issue BLPOP or BRPOP
          KeyArgs,     \* the key arguments of BLPOP/BRPOP: sequences over Keys
          PushSizes,   \* how many values one LPUSH or RPUSH carries
          MaxVals      \* bound: elements pushed in a behaviour

ASSUME ListAssumption ==
  /\ KeyArgs \subseteq Seq(Keys)
  /\ PushSizes \subseteq Nat \ {0}
  /\ MaxVals \in Nat

Values == 1..MaxVals

VARIABLES
  lists,       \* Store.lists, a missing key as the empty list
  listWaits,   \* Store.listWaits: waiters per key in arrival order
  pc,          \* "idle", "select" (asleep) or "leave" (select has returned)
  call,        \* the arguments of the call: keys, left, forever (timeout <= 0)
  served,      \* listWaiter.once has fired
  chan,        \* listWaiter.ch, a buffer of one value
  stopped,     \* Store.stopExpiry is closed
  nextVal,     \* elements pushed so far
  returned,    \* history: elements returned to a client
  lost,        \* history: elements popped for a call that cannot return them
  dropped      \* history: elements deleted with their key

waitVars == <<listWaits, pc, call, served, chan>>
vars == <<lists, waitVars, stopped, nextVal, returned, lost, dropped>>

Calls == [keys : KeyArgs \cup {<<>>}, left : BOOLEAN, forever : BOOLEAN]
NoCall == [keys |-> <<>>, left |-> TRUE, forever |-> FALSE]

(***************************************************************************)
(* Type correctness of the lists, the waiters and their channels.          *)
(***************************************************************************)
TypeOK ==
  /\ lists \in [Keys -> Seq(Values)]
  /\ listWaits \in [Keys -> Seq(Consumers)]
  /\ pc \in [Consumers -> {"idle", "select", "leave"}]
  /\ call \in [Consumers -> Calls]
  /\ served \in [Consumers -> BOOLEAN]
  /\ chan \in [Consumers -> Seq(Values)] /\ \A c \in Consumers : Len(chan[c]) <= 1
  /\ stopped \in BOOLEAN
  /\ nextVal \in 0..MaxVals
  /\ returned \subseteq Values /\ lost \subseteq Values /\ dropped \subseteq Values

Init ==
  /\ lists = [k \in Keys |-> <<>>]
  /\ listWaits = [k \in Keys |-> <<>>]
  /\ pc = [c \in Consumers |-> "idle"]
  /\ call = [c \in Consumers |-> NoCall]
  /\ served = [c \in Consumers |-> FALSE]
  /\ chan = [c \in Consumers |-> <<>>]
  /\ stopped = FALSE
  /\ nextVal = 0
  /\ returned = {} /\ lost = {} /\ dropped = {}

-----------------------------------------------------------------------------
(***************************************************************************)
(* wakeListWaitersLocked on a key whose list has become d.  Waiters are    *)
(* taken in arrival order while elements last; the j-th one takes its      *)
(* element from its own side, before looking whether its once has fired.   *)
(***************************************************************************)
\* Mutant of Handed: one waiter per push.
HandedOne(k, d) == IF d = <<>> \/ listWaits[k] = <<>> THEN 0 ELSE 1

Handed(k, d) == IF Len(d) < Len(listWaits[k]) THEN Len(d) ELSE Len(listWaits[k])

LeftsBefore(k, j) ==
  Cardinality({i \in 1..(j - 1) : call[listWaits[k][i]].left})

Popped(k, d, j) ==
  IF call[listWaits[k][j]].left THEN d[LeftsBefore(k, j) + 1]
  ELSE d[Len(d) - ((j - 1) - LeftsBefore(k, j))]

\* Mutant of Remaining: elements handed over stay in the list.
RemainingAll(k, d) == d

Remaining(k, d) ==
  LET n == Handed(k, d)
      l == LeftsBefore(k, n + 1)
  IN  SubSeq(d, l + 1, Len(d) - (n - l))

(***************************************************************************)
(* The once of waiter j fires now: it is the first entry of its waiter.    *)
(***************************************************************************)
Fires(k, j) ==
  LET ws == listWaits[k] IN
  ~served[ws[j]] /\ \A i \in 1..(j - 1) : ws[i] # ws[j]

(***************************************************************************)
(* Popped elements that no call will return: the once had fired already,   *)
(* or the call has left its select and does not read the channel again.    *)
(***************************************************************************)
Vanishing(k, d) ==
  {Popped(k, d, j) : j \in {i \in 1..Handed(k, d) :
                              ~Fires(k, i) \/ pc[listWaits[k][i]] = "leave"}}

wakeListWaitersLocked(k, d) ==
  LET winners == {j \in 1..Handed(k, d) : Fires(k, j)}
      slot(c) == {j \in winners : listWaits[k][j] = c}
  IN
  /\ listWaits' = [listWaits EXCEPT ![k] = SubSeq(@, Handed(k, d) + 1, Len(@))]
  /\ served' = [c \in Consumers |-> served[c] \/ slot(c) # {}]
  /\ chan' = [c \in Consumers |->
                IF slot(c) = {} THEN chan[c]
                ELSE <<Popped(k, d, CHOOSE j \in slot(c) : TRUE)>>]
  /\ lost' = lost \cup Vanishing(k, d)
  /\ UNCHANGED <<pc, call>>

-----------------------------------------------------------------------------
(***************************************************************************)
(* pushList: LPUSH puts its values in front one by one, so the last ends   *)
(* up first; then the waiters of the key are served.                       *)
(***************************************************************************)
pushList(k, n, left) ==
  /\ ~stopped
  /\ nextVal + n <= MaxVals
  /\ nextVal' = nextVal + n
  /\ LET new == [i \in 1..n |-> nextVal + i]
         d == IF left THEN Reverse(new) \o lists[k] ELSE lists[k] \o new
     IN  /\ lists' = [lists EXCEPT ![k] = Remaining(k, d)]
         /\ wakeListWaitersLocked(k, d)
  /\ UNCHANGED <<stopped, returned, dropped>>

End(d, left) == IF left THEN Head(d) ELSE Last(d)
WithoutEnd(d, left) == IF left THEN Tail(d) ELSE Front(d)

(***************************************************************************)
(* popList; on an empty list it returns nothing and changes nothing.       *)
(***************************************************************************)
popList(k, left) ==
  /\ ~stopped
  /\ lists[k] # <<>>
  /\ returned' = returned \cup {End(lists[k], left)}
  /\ lists' = [lists EXCEPT ![k] = WithoutEnd(@, left)]
  /\ UNCHANGED <<waitVars, stopped, nextVal, lost, dropped>>

(***************************************************************************)
(* LMove: take from one list, put into another (or the same), and serve    *)
(* the waiters of the destination.                                         *)
(***************************************************************************)
LMove(src, dst, srcLeft, dstLeft) ==
  /\ ~stopped
  /\ lists[src] # <<>>
  /\ LET v == End(lists[src], srcLeft)
         rest == [lists EXCEPT ![src] = WithoutEnd(@, srcLeft)]
         d == IF dstLeft THEN <<v>> \o rest[dst] ELSE rest[dst] \o <<v>>
     IN  /\ lists' = [rest EXCEPT ![dst] = Remaining(dst, d)]
         /\ wakeListWaitersLocked(dst, d)
  /\ UNCHANGED <<stopped, nextVal, returned, dropped>>

-----------------------------------------------------------------------------
(***************************************************************************)
(* BPop up to its unlock: pop from the first key that has elements, or     *)
(* register the waiter on every key.                                       *)
(***************************************************************************)
FirstNonEmpty(ks, i) ==
  lists[ks[i]] # <<>> /\ \A j \in 1..(i - 1) : lists[ks[j]] = <<>>

BPopTakes(c, ks, left) ==
  /\ ~stopped /\ pc[c] = "idle"
  /\ \E i \in 1..Len(ks) :
       /\ FirstNonEmpty(ks, i)
       /\ returned' = returned \cup {End(lists[ks[i]], left)}
       /\ lists' = [lists EXCEPT ![ks[i]] = WithoutEnd(@, left)]
  /\ UNCHANGED <<waitVars, stopped, nextVal, lost, dropped>>

BPopBlocks(c, ks, left, forever) ==
  /\ ~stopped /\ pc[c] = "idle"
  /\ \A i \in 1..Len(ks) : lists[ks[i]] = <<>>
  /\ listWaits' = [k \in Keys |->
       listWaits[k] \o [i \in 1..Cardinality({j \in 1..Len(ks) : ks[j] = k}) |-> c]]
  /\ pc' = [pc EXCEPT ![c] = "select"]
  /\ call' = [call EXCEPT ![c] = [keys |-> ks, left |-> left, forever |-> forever]]
  /\ served' = [served EXCEPT ![c] = FALSE]
  /\ chan' = [chan EXCEPT ![c] = <<>>]
  /\ UNCHANGED <<lists, stopped, nextVal, returned, lost, dropped>>

(***************************************************************************)
(* The select: a value, the timeout or the shutdown.  With several ready   *)
(* Go picks one at random, so a value already sent may be left behind.     *)
(***************************************************************************)
Receive(c) ==
  /\ pc[c] = "select" /\ chan[c] # <<>>
  /\ pc' = [pc EXCEPT ![c] = "leave"]
  /\ returned' = returned \cup {Head(chan[c])}
  /\ chan' = [chan EXCEPT ![c] = <<>>]
  /\ UNCHANGED <<lists, listWaits, call, served, stopped, nextVal, lost, dropped>>

\* Mutant of GiveUp: a select without its stopExpiry case.
GiveUpOnTimeoutOnly(c) ==
  /\ pc[c] = "select" /\ ~call[c].forever
  /\ pc' = [pc EXCEPT ![c] = "leave"]
  /\ lost' = lost \cup ToSet(chan[c])
  /\ UNCHANGED <<lists, listWaits, call, served, chan, stopped, nextVal,
                 returned, dropped>>

GiveUp(c) ==
  /\ pc[c] = "select" /\ (~call[c].forever \/ stopped)
  /\ pc' = [pc EXCEPT ![c] = "leave"]
  /\ lost' = lost \cup ToSet(chan[c])
  /\ UNCHANGED <<lists, listWaits, call, served, chan, stopped, nextVal,
                 returned, dropped>>

(***************************************************************************)
(* The loop of removeListWaiter: the other waiters are kept in their order.*)
(***************************************************************************)
Kept(ws, c) ==
  LET kept[i \in 0..Len(ws)] ==
        IF i = 0 THEN <<>>
        ELSE IF ws[i] = c THEN kept[i - 1] ELSE Append(kept[i - 1], ws[i])
  IN  kept[Len(ws)]

(***************************************************************************)
(* The deferred removeListWaiter, then the call returns.                   *)
(***************************************************************************)
\* Mutant of removeListWaiter: looks at the first key only.
removeFirstOnly(c) ==
  /\ pc[c] = "leave"
  /\ listWaits' = [listWaits EXCEPT ![Head(call[c].keys)] = Kept(@, c)]
  /\ pc' = [pc EXCEPT ![c] = "idle"]
  /\ call' = [call EXCEPT ![c] = NoCall]
  /\ chan' = [chan EXCEPT ![c] = <<>>]
  /\ served' = [served EXCEPT ![c] = FALSE]
  /\ UNCHANGED <<lists, stopped, nextVal, returned, lost, dropped>>

removeListWaiter(c) ==
  /\ pc[c] = "leave"
  /\ listWaits' = [k \in Keys |->
                     IF k \in ToSet(call[c].keys)
                     THEN Kept(listWaits[k], c)
                     ELSE listWaits[k]]
  /\ pc' = [pc EXCEPT ![c] = "idle"]
  /\ call' = [call EXCEPT ![c] = NoCall]
  /\ chan' = [chan EXCEPT ![c] = <<>>]
  /\ served' = [served EXCEPT ![c] = FALSE]
  /\ UNCHANGED <<lists, stopped, nextVal, returned, lost, dropped>>

-----------------------------------------------------------------------------
(***************************************************************************)
(* Keys go away and move without any waiter being served: DEL (also by     *)
(* expiry), RENAME, which first deletes the new name, and FLUSHDB, which   *)
(* forgets the waiters too.                                                *)
(***************************************************************************)
deleteKeyLocked(k) ==
  /\ ~stopped /\ lists[k] # <<>>
  /\ dropped' = dropped \cup ToSet(lists[k])
  /\ lists' = [lists EXCEPT ![k] = <<>>]
  /\ UNCHANGED <<waitVars, stopped, nextVal, returned, lost>>

Rename(k, newkey) ==
  /\ ~stopped /\ lists[k] # <<>>
  /\ dropped' = dropped \cup ToSet(lists[newkey])
  /\ lists' = IF k = newkey THEN [lists EXCEPT ![k] = <<>>]
              ELSE [lists EXCEPT ![newkey] = lists[k], ![k] = <<>>]
  /\ UNCHANGED <<waitVars, stopped, nextVal, returned, lost>>

FlushDB ==
  /\ ~stopped
  /\ dropped' = dropped \cup UNION {ToSet(lists[k]) : k \in Keys}
  /\ lists' = [k \in Keys |-> <<>>]
  /\ listWaits' = [k \in Keys |-> <<>>]
  /\ UNCHANGED <<pc, call, served, chan, stopped, nextVal, returned, lost>>

(***************************************************************************)
(* StopExpiry at shutdown.  It also closes onChangeQueue, on which every   *)
(* later touchKeyLocked would send: commands do not complete after it.     *)
(***************************************************************************)
StopExpiry ==
  /\ ~stopped
  /\ stopped' = TRUE
  /\ UNCHANGED <<lists, waitVars, nextVal, returned, lost, dropped>>

Next ==
  \/ \E k \in Keys :
       \/ \E n \in PushSizes, left \in BOOLEAN : pushList(k, n, left)
       \/ \E left \in BOOLEAN : popList(k, left)
       \/ deleteKeyLocked(k)
       \/ \E newkey \in Keys : Rename(k, newkey)
       \/ \E dst \in Keys, sl, dl \in BOOLEAN : LMove(k, dst, sl, dl)
  \/ \E c \in Consumers :
       \/ \E ks \in KeyArgs, left, forever \in BOOLEAN :
            BPopTakes(c, ks, left) \/ BPopBlocks(c, ks, left, forever)
       \/ Receive(c) \/ GiveUp(c) \/ removeListWaiter(c)
  \/ FlushDB
  \/ StopExpiry

Spec == Init /\ [][Next]_vars

(***************************************************************************)
(* A goroutine whose select can go on gets to run, and Store.mu does not   *)
(* starve it.  Shutdown is not assumed, nor that anybody pushes.           *)
(***************************************************************************)
FairSpec ==
  Spec /\ \A c \in Consumers : WF_vars(Receive(c) \/ GiveUp(c))
                               /\ WF_vars(removeListWaiter(c))

-----------------------------------------------------------------------------
InLists == UNION {ToSet(lists[k]) : k \in Keys}
InFlight == UNION {ToSet(chan[c]) : c \in {d \in Consumers : pc[d] = "select"}}

(***************************************************************************)
(* At-most-once: an element pushed is in one list, in the channel of one   *)
(* sleeping call, returned to one client, deleted or lost, never in two of *)
(* these (pops and hand-overs of pushList, popList, LMove and BPop).       *)
(***************************************************************************)
AtMostOnce ==
  /\ InLists \cup InFlight \cup returned \cup lost \cup dropped = 1..nextVal
  /\ InLists \cap (InFlight \cup returned \cup lost \cup dropped) = {}
  /\ InFlight \cap (returned \cup lost \cup dropped) = {}
  /\ returned \cap (lost \cup dropped) = {}
  /\ lost \cap dropped = {}
  /\ \A k, l \in Keys : \A i \in DOMAIN lists[k], j \in DOMAIN lists[l] :
       lists[k][i] = lists[l][j] => k = l /\ i = j
  /\ \A c, d \in Consumers :
       (pc[c] = "select" /\ pc[d] = "select" /\ chan[c] # <<>> /\ chan[c] = chan[d])
         => c = d

(***************************************************************************)
(* No waiter outlives its call: every entry of listWaits belongs to a call *)
(* in progress on that key, whichever way the call ended.                  *)
(***************************************************************************)
NoStaleWaiter ==
  \A k \in Keys : \A c \in ToSet(listWaits[k]) :
    pc[c] # "idle" /\ k \in ToSet(call[c].keys)

(***************************************************************************)
(* A push leaves no sleeper behind: a step that ends with an element, new  *)
(* or old, in a list somebody still waits for is no pushList or LMove into *)
(* that list (the loop of wakeListWaitersLocked).                          *)
(***************************************************************************)
PutsInto(k) ==
  \/ \E n \in PushSizes, left \in BOOLEAN : pushList(k, n, left)
  \/ \E src \in Keys, sl, dl \in BOOLEAN : LMove(src, k, sl, dl)

PushServesAll ==
  [][\A k \in Keys : lists'[k] # <<>> /\ listWaits'[k] # <<>> => ~PutsInto(k)]_vars

(***************************************************************************)
(* A blocked call with a timeout returns, and at shutdown every one does.  *)
(***************************************************************************)
BlockedCallsReturn ==
  \A c \in Consumers :
    (pc[c] = "select" /\ (~call[c].forever \/ stopped)) ~> pc[c] = "idle"

(***************************************************************************)
(* What BPop's comment says it does with an element: it pops it to return  *)
(* it.  An element taken from a list reaches the client it was taken for.  *)
(***************************************************************************)
NoElementVanishes == lost = {}

(***************************************************************************)
(* The waiters and their channels are sound: types and capacities, and     *)
(* nobody is registered who is not inside a blocking pop.                  *)
(***************************************************************************)
Inv == TypeOK /\ NoStaleWaiter
=============================================================================
