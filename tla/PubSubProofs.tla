---------------------------- MODULE PubSubProofs ----------------------------
(***************************************************************************)
(* Proofs about PubSub for any subscribers, names and channels and any     *)
(* capacities of the buffers and the change queue.                         *)
(***************************************************************************)
EXTENDS PubSub, TLAPS

(***************************************************************************)
(* What a client is told, and what publishers have to send.                *)
(***************************************************************************)
Notes == (DOMAIN Matching) \X Messages
(***************************************************************************)
(* What can be on its way: a channel and a message.                        *)
(***************************************************************************)
Posts == [channel : Channels \cup Range(EventChannels), message : Messages]

(***************************************************************************)
(* The types of the variables.                                             *)
(***************************************************************************)
StateTypes ==
  /\ registered \subseteq Subscriptions /\ closed \subseteq Subscriptions
  /\ buffer \in [Subscriptions -> Seq(Messages)]
  /\ forwarder \in [Subscriptions -> Seq(Messages)]
  /\ merged \in [Subscribers -> Seq(Notes)]
  /\ told \in [Subscribers -> Seq(Notes)]
  /\ handler \in [Subscribers -> {"subscribing", "serving", "leaving", "gone"}]
  /\ names \in [Subscribers -> Seq(DOMAIN Matching)]
  /\ alive \subseteq Subscribers
  /\ sending \in [Publishers -> Seq(Posts)]
  /\ targets \in [Publishers -> Seq(SUBSET Subscriptions)]
  /\ changes \in Seq(Messages) /\ Len(changes) <= QueueSize
  /\ sent \in 0..MaxMessages /\ stopped \in BOOLEAN /\ fallen \in BOOLEAN

(***************************************************************************)
(* The capacities of the Go channels.                                      *)
(***************************************************************************)
Capacities ==
  /\ \A s \in Subscriptions : Len(buffer[s]) <= BufferSize /\ Len(forwarder[s]) <= 1
  /\ \A c \in Subscribers : Len(merged[c]) <= BufferSize

(***************************************************************************)
(* A handler that subscribes or serves has closed nothing yet; one that    *)
(* leaves has still to unsubscribe whatever is registered.                 *)
(***************************************************************************)
HandlerInv ==
  /\ registered \cap closed = {}
  /\ \A s \in registered : s[2] \in Range(Names[s[1]])
  /\ \A c \in Subscribers : \A i \in DOMAIN names[c] : names[c][i] \in Range(Names[c])
  /\ \A s \in Subscriptions :
       /\ handler[s[1]] \in {"subscribing", "serving"} => s \notin closed
       /\ (handler[s[1]] = "leaving" /\ s \in registered) => s[2] \in Range(names[s[1]])
       /\ handler[s[1]] = "gone" => s \notin registered

(***************************************************************************)
(* What is on its way to Publish: a client has one message, the drainer    *)
(* one event, on channels that differ; the queue behind it holds later     *)
(* ones in order.                                                          *)
(***************************************************************************)
SourcesInv ==
  /\ sending["client"] = <<>>
     \/ \E ch \in Channels, m \in Messages : sending["client"] = <<[channel |-> ch, message |-> m]>>
  /\ \/ sending["drainer"] = <<>>
     \/ \E m \in Messages :
          \/ sending["drainer"] = <<[channel |-> EventChannels[1], message |-> m],
                                    [channel |-> EventChannels[2], message |-> m]>>
          \/ sending["drainer"] = <<[channel |-> EventChannels[2], message |-> m]>>
  /\ \A p \in Publishers :
       \/ targets[p] = <<>>
       \/ /\ sending[p] # <<>> /\ Len(targets[p]) = 1
          /\ \A s \in Head(targets[p]) : Head(sending[p]).channel \in Matching[s[2]]
  /\ \A p \in Publishers : \A i \in DOMAIN sending[p] : sending[p][i].message <= sent
  /\ \A j \in DOMAIN changes : changes[j] <= sent
  /\ \A i, j \in DOMAIN changes : i < j => changes[i] < changes[j]
  /\ \A i \in DOMAIN sending["drainer"] : \A j \in DOMAIN changes :
       sending["drainer"][i].message < changes[j]

(***************************************************************************)
(* The notes t and g of a connection that bear the name n, the message f   *)
(* held by the goroutine and the buffer b: everything in t comes before    *)
(* everything in g, and so on, and within each the messages rise.          *)
(***************************************************************************)
InOrder(n, t, g, f, b) ==
  /\ \A i, j \in DOMAIN t : (i < j /\ t[i][1] = n /\ t[j][1] = n) => t[i][2] < t[j][2]
  /\ \A i, j \in DOMAIN g : (i < j /\ g[i][1] = n /\ g[j][1] = n) => g[i][2] < g[j][2]
  /\ \A i \in DOMAIN t, j \in DOMAIN g : (t[i][1] = n /\ g[j][1] = n) => t[i][2] < g[j][2]
  /\ \A i \in DOMAIN t : t[i][1] = n => /\ \A j \in DOMAIN f : t[i][2] < f[j]
                                        /\ \A j \in DOMAIN b : t[i][2] < b[j]
  /\ \A i \in DOMAIN g : g[i][1] = n => /\ \A j \in DOMAIN f : g[i][2] < f[j]
                                        /\ \A j \in DOMAIN b : g[i][2] < b[j]
  /\ \A i \in DOMAIN f, j \in DOMAIN b : f[i] < b[j]
  /\ \A i, j \in DOMAIN b : i < j => b[i] < b[j]

(***************************************************************************)
(* All that the four of them hold for the name n.                          *)
(***************************************************************************)
Passed(n, t, g, f, b) ==
  {t[i][2] : i \in {j \in DOMAIN t : t[j][1] = n}} \cup
  {g[i][2] : i \in {j \in DOMAIN g : g[j][1] = n}} \cup
  {f[i] : i \in DOMAIN f} \cup {b[i] : i \in DOMAIN b}

(***************************************************************************)
(* What has been taken off the way of subscription s at any of its stages. *)
(***************************************************************************)
PassedTo(s) == Passed(s[2], told[s[1]], merged[s[1]], forwarder[s], buffer[s])

(***************************************************************************)
(* The i-th message of publisher p is still to be sent to s.               *)
(***************************************************************************)
Due(p, i, s) ==
  /\ sending[p][i].channel \in Matching[s[2]]
  /\ i > 1 \/ targets[p] = <<>> \/ s \in Head(targets[p])

(***************************************************************************)
(* The pipe of a subscription is in order, and whatever is still to come   *)
(* is later than all that it has taken in.                                 *)
(***************************************************************************)
Before(s, m) ==
  /\ m <= sent
  /\ \A p \in Publishers : \A i \in DOMAIN sending[p] : Due(p, i, s) => m < sending[p][i].message
  /\ Matching[s[2]] \subseteq Range(EventChannels) => \A j \in DOMAIN changes : m < changes[j]

(***************************************************************************)
(* For a name with one publisher, what is on its way to a subscriber is in *)
(* order at and across all stages, and was published before what is to     *)
(* come.                                                                   *)
(***************************************************************************)
PipesInv ==
  \A s \in Subscriptions : OneSource(s[2]) =>
    /\ InOrder(s[2], told[s[1]], merged[s[1]], forwarder[s], buffer[s])
    /\ \A m \in PassedTo(s) : Before(s, m)

(***************************************************************************)
(* The inductive invariant of publishers, forwarders and subscribers.      *)
(***************************************************************************)
IndInv == StateTypes /\ Capacities /\ HandlerInv /\ SourcesInv /\ PipesInv

-----------------------------------------------------------------------------
(***************************************************************************)
(* A note moves from the merged channel to the client, or is dropped       *)
(* because the client has gone: the order stays.                           *)
(***************************************************************************)
LEMMA WriteKeepsOrder ==
  ASSUME NEW n, NEW t \in Seq(Notes), NEW g \in Seq(Notes),
         NEW f \in Seq(Messages), NEW b \in Seq(Messages),
         InOrder(n, t, g, f, b), g # <<>>
  PROVE  /\ InOrder(n, Append(t, Head(g)), Tail(g), f, b)
         /\ InOrder(n, t, Tail(g), f, b)
         /\ Passed(n, Append(t, Head(g)), Tail(g), f, b) \subseteq Passed(n, t, g, f, b)
         /\ Passed(n, t, Tail(g), f, b) \subseteq Passed(n, t, g, f, b)
<1>1. PICK h : h = Tail(g)
  OBVIOUS
<1>2. PICK u : u = Append(t, Head(g))
  OBVIOUS
<1>3. /\ h \in Seq(Notes) /\ Len(g) \in Nat /\ Len(g) > 0 /\ Len(h) = Len(g) - 1
      /\ DOMAIN g = 1..Len(g) /\ DOMAIN h = 1..Len(h)
      /\ \A i \in DOMAIN h : i + 1 \in DOMAIN g /\ h[i] = g[i + 1] /\ 1 < i + 1 /\ i \in Nat
      /\ Head(g) = g[1] /\ 1 \in DOMAIN g
  BY <1>1
<1>4. /\ Len(t) \in Nat /\ Len(u) = Len(t) + 1 /\ DOMAIN u = 1..(Len(t) + 1) /\ DOMAIN t = 1..Len(t)
      /\ \A i \in DOMAIN u : i \in DOMAIN t \/ i = Len(t) + 1
      /\ \A i \in DOMAIN t : i \in DOMAIN u /\ u[i] = t[i]
      /\ u[Len(t) + 1] = g[1]
  BY <1>2, <1>3
<1>5. InOrder(n, t, h, f, b)
  <2>1. ASSUME NEW i \in DOMAIN h, NEW j \in DOMAIN h, i < j, h[i][1] = n, h[j][1] = n
        PROVE  h[i][2] < h[j][2]
    <3>1. i + 1 < j + 1
      BY <1>3, <2>1
    <3> QED
      BY <1>3, <2>1, <3>1 DEF InOrder
  <2>2. \A i \in DOMAIN t, j \in DOMAIN h : (t[i][1] = n /\ h[j][1] = n) => t[i][2] < h[j][2]
    BY <1>3 DEF InOrder
  <2>3. \A i \in DOMAIN h : h[i][1] = n => /\ \A j \in DOMAIN f : h[i][2] < f[j]
                                           /\ \A j \in DOMAIN b : h[i][2] < b[j]
    BY <1>3 DEF InOrder
  <2> QED
    BY <2>1, <2>2, <2>3 DEF InOrder
<1>6. InOrder(n, u, h, f, b)
  <2>1. \A i, j \in DOMAIN u : (i < j /\ u[i][1] = n /\ u[j][1] = n) => u[i][2] < u[j][2]
    <3> SUFFICES ASSUME NEW i \in DOMAIN u, NEW j \in DOMAIN u, i < j, u[i][1] = n, u[j][1] = n
                 PROVE  u[i][2] < u[j][2]
      OBVIOUS
    <3>1. i \in DOMAIN t
      BY <1>4
    <3>2. CASE j \in DOMAIN t
      BY <1>4, <3>1, <3>2 DEF InOrder
    <3>3. CASE j = Len(t) + 1
      <4>1. u[i] = t[i] /\ u[j] = g[1] /\ 1 \in DOMAIN g
        BY <1>3, <1>4, <3>1, <3>3
      <4> QED
        BY <3>1, <4>1 DEF InOrder
    <3> QED
      BY <1>4, <3>2, <3>3
  <2>2. \A i \in DOMAIN h : (g[1][1] = n /\ h[i][1] = n) => g[1][2] < h[i][2]
    <3>1. ASSUME NEW i \in DOMAIN h, g[1][1] = n, h[i][1] = n PROVE g[1][2] < h[i][2]
      BY <1>3, <3>1 DEF InOrder
    <3> QED
      BY <3>1
  <2>3. \A i \in DOMAIN u, j \in DOMAIN h : (u[i][1] = n /\ h[j][1] = n) => u[i][2] < h[j][2]
    BY <1>4, <1>5, <2>2 DEF InOrder
  <2>4. \A i \in DOMAIN u : u[i][1] = n => /\ \A j \in DOMAIN f : u[i][2] < f[j]
                                           /\ \A j \in DOMAIN b : u[i][2] < b[j]
    BY <1>3, <1>4 DEF InOrder
  <2> QED
    BY <1>5, <2>1, <2>3, <2>4 DEF InOrder
<1>7. Passed(n, u, h, f, b) \subseteq Passed(n, t, g, f, b)
  <2>1. ASSUME NEW i \in DOMAIN u, u[i][1] = n PROVE u[i][2] \in Passed(n, t, g, f, b)
    <3>1. CASE i \in DOMAIN t
      BY <1>4, <2>1, <3>1 DEF Passed
    <3>2. CASE i = Len(t) + 1
      BY <1>3, <1>4, <2>1, <3>2 DEF Passed
    <3> QED
      BY <1>4, <3>1, <3>2
  <2>2. ASSUME NEW i \in DOMAIN h, h[i][1] = n PROVE h[i][2] \in Passed(n, t, g, f, b)
    BY <1>3, <2>2 DEF Passed
  <2> QED
    BY <2>1, <2>2 DEF Passed
<1>8. Passed(n, t, h, f, b) \subseteq Passed(n, t, g, f, b)
  BY <1>3 DEF Passed
<1> QED
  BY <1>1, <1>2, <1>5, <1>6, <1>7, <1>8

(***************************************************************************)
(* The goroutine takes the first message of the buffer.                    *)
(***************************************************************************)
LEMMA ReceiveKeepsOrder ==
  ASSUME NEW n, NEW t \in Seq(Notes), NEW g \in Seq(Notes), NEW b \in Seq(Messages),
         InOrder(n, t, g, <<>>, b), b # <<>>
  PROVE  /\ InOrder(n, t, g, <<Head(b)>>, Tail(b))
         /\ Passed(n, t, g, <<Head(b)>>, Tail(b)) \subseteq Passed(n, t, g, <<>>, b)
<1>1. PICK h : h = Tail(b)
  OBVIOUS
<1>2. PICK f : f = <<Head(b)>>
  OBVIOUS
<1>3. /\ h \in Seq(Messages) /\ Len(b) \in Nat /\ Len(b) > 0 /\ Len(h) = Len(b) - 1
      /\ DOMAIN b = 1..Len(b) /\ DOMAIN h = 1..Len(h)
      /\ \A i \in DOMAIN h : i + 1 \in DOMAIN b /\ h[i] = b[i + 1] /\ 1 < i + 1
      /\ Head(b) = b[1] /\ 1 \in DOMAIN b
  BY <1>1
<1>4. DOMAIN f = {1} /\ f[1] = b[1]
  BY <1>2, <1>3
<1>5. /\ \A i \in DOMAIN f, j \in DOMAIN h : f[i] < h[j]
      /\ \A i, j \in DOMAIN h : i < j => h[i] < h[j]
  <2>1. ASSUME NEW i \in DOMAIN f, NEW j \in DOMAIN h PROVE f[i] < h[j]
    BY <1>3, <1>4, <2>1 DEF InOrder
  <2>2. ASSUME NEW i \in DOMAIN h, NEW j \in DOMAIN h, i < j PROVE h[i] < h[j]
    <3>1. i + 1 < j + 1
      BY <1>3, <2>2
    <3> QED
      BY <1>3, <2>2, <3>1 DEF InOrder
  <2> QED
    BY <2>1, <2>2
<1>6. /\ \A i \in DOMAIN t : t[i][1] = n => /\ \A j \in DOMAIN f : t[i][2] < f[j]
                                            /\ \A j \in DOMAIN h : t[i][2] < h[j]
      /\ \A i \in DOMAIN g : g[i][1] = n => /\ \A j \in DOMAIN f : g[i][2] < f[j]
                                            /\ \A j \in DOMAIN h : g[i][2] < h[j]
  BY <1>3, <1>4 DEF InOrder
<1>7. InOrder(n, t, g, f, h)
  BY <1>5, <1>6 DEF InOrder
<1>8. Passed(n, t, g, f, h) \subseteq Passed(n, t, g, <<>>, b)
  BY <1>3, <1>4 DEF Passed
<1> QED
  BY <1>1, <1>2, <1>7, <1>8

(***************************************************************************)
(* The goroutine puts what it holds into the merged channel.               *)
(***************************************************************************)
LEMMA MergeKeepsOrder ==
  ASSUME NEW n, NEW k \in DOMAIN Matching, NEW t \in Seq(Notes), NEW g \in Seq(Notes),
         NEW f \in Seq(Messages), NEW b \in Seq(Messages), NEW m \in Messages,
         InOrder(n, t, g, f, b)
  PROVE  /\ k # n => /\ InOrder(n, t, Append(g, <<k, m>>), f, b)
                     /\ Passed(n, t, Append(g, <<k, m>>), f, b) \subseteq Passed(n, t, g, f, b)
         /\ (k = n /\ f # <<>> /\ Len(f) <= 1 /\ m = Head(f)) =>
              /\ InOrder(n, t, Append(g, <<k, m>>), <<>>, b)
              /\ Passed(n, t, Append(g, <<k, m>>), <<>>, b) \subseteq Passed(n, t, g, f, b)
<1>1. PICK h : h = Append(g, <<k, m>>)
  OBVIOUS
<1>2. <<k, m>> \in Notes /\ <<k, m>>[1] = k /\ <<k, m>>[2] = m
  BY DEF Notes
<1>3. /\ Len(g) \in Nat /\ Len(h) = Len(g) + 1 /\ DOMAIN h = 1..(Len(g) + 1) /\ DOMAIN g = 1..Len(g)
      /\ \A i \in DOMAIN h : i \in DOMAIN g \/ i = Len(g) + 1
      /\ \A i \in DOMAIN g : i \in DOMAIN h /\ h[i] = g[i] /\ i < Len(g) + 1
      /\ h[Len(g) + 1] = <<k, m>>
  BY <1>1, <1>2
<1>4. h[Len(g) + 1][1] = k /\ h[Len(g) + 1][2] = m
  BY <1>2, <1>3
<1>5. ASSUME k # n
      PROVE  InOrder(n, t, h, f, b) /\ Passed(n, t, h, f, b) \subseteq Passed(n, t, g, f, b)
  <2>1. \A i \in DOMAIN h : h[i][1] = n => i \in DOMAIN g /\ h[i] = g[i]
    BY <1>3, <1>4, <1>5
  <2> QED
    BY <2>1 DEF InOrder, Passed
<1>6. ASSUME k = n, f # <<>>, Len(f) <= 1, m = Head(f)
      PROVE  InOrder(n, t, h, <<>>, b) /\ Passed(n, t, h, <<>>, b) \subseteq Passed(n, t, g, f, b)
  <2>1. 1 \in DOMAIN f /\ f[1] = m
    BY <1>6
  <2>2. \A i, j \in DOMAIN h : (i < j /\ h[i][1] = n /\ h[j][1] = n) => h[i][2] < h[j][2]
    <3> SUFFICES ASSUME NEW i \in DOMAIN h, NEW j \in DOMAIN h, i < j, h[i][1] = n, h[j][1] = n
                 PROVE  h[i][2] < h[j][2]
      OBVIOUS
    <3>1. i \in DOMAIN g
      BY <1>3
    <3>2. CASE j \in DOMAIN g
      BY <1>3, <3>1, <3>2 DEF InOrder
    <3>3. CASE j = Len(g) + 1
      BY <1>3, <1>4, <2>1, <3>1, <3>3 DEF InOrder
    <3> QED
      BY <1>3, <3>2, <3>3
  <2>3. \A i \in DOMAIN t, j \in DOMAIN h : (t[i][1] = n /\ h[j][1] = n) => t[i][2] < h[j][2]
    BY <1>3, <1>4, <2>1 DEF InOrder
  <2>4. \A i \in DOMAIN h : h[i][1] = n => \A j \in DOMAIN b : h[i][2] < b[j]
    BY <1>3, <1>4, <2>1 DEF InOrder
  <2>5. InOrder(n, t, h, <<>>, b)
    BY <2>2, <2>3, <2>4 DEF InOrder
  <2>6. Passed(n, t, h, <<>>, b) \subseteq Passed(n, t, g, f, b)
    BY <1>3, <1>4, <2>1 DEF Passed
  <2> QED
    BY <2>5, <2>6
<1> QED
  BY <1>1, <1>5, <1>6

(***************************************************************************)
(* A message later than all that have passed goes into the buffer.         *)
(***************************************************************************)
LEMMA SendKeepsOrder ==
  ASSUME NEW n, NEW t \in Seq(Notes), NEW g \in Seq(Notes),
         NEW f \in Seq(Messages), NEW b \in Seq(Messages), NEW m \in Messages,
         InOrder(n, t, g, f, b), \A x \in Passed(n, t, g, f, b) : x < m
  PROVE  /\ InOrder(n, t, g, f, Append(b, m))
         /\ Passed(n, t, g, f, Append(b, m)) \subseteq Passed(n, t, g, f, b) \cup {m}
<1>1. PICK h : h = Append(b, m)
  OBVIOUS
<1>2. /\ Len(b) \in Nat /\ Len(h) = Len(b) + 1 /\ DOMAIN h = 1..(Len(b) + 1) /\ DOMAIN b = 1..Len(b)
      /\ \A i \in DOMAIN h : i \in DOMAIN b \/ i = Len(b) + 1
      /\ \A i \in DOMAIN b : i \in DOMAIN h /\ h[i] = b[i] /\ i < Len(b) + 1
      /\ h[Len(b) + 1] = m
  BY <1>1
<1>3. /\ \A i \in DOMAIN t : t[i][1] = n => t[i][2] < m
      /\ \A i \in DOMAIN g : g[i][1] = n => g[i][2] < m
      /\ \A i \in DOMAIN f : f[i] < m
      /\ \A i \in DOMAIN b : b[i] < m
  BY DEF Passed
<1>4. \A i, j \in DOMAIN h : i < j => h[i] < h[j]
  <2> SUFFICES ASSUME NEW i \in DOMAIN h, NEW j \in DOMAIN h, i < j PROVE h[i] < h[j]
    OBVIOUS
  <2>1. i \in DOMAIN b
    BY <1>2
  <2> QED
    BY <1>2, <1>3, <2>1 DEF InOrder
<1>5. InOrder(n, t, g, f, h)
  BY <1>2, <1>3, <1>4 DEF InOrder
<1>6. Passed(n, t, g, f, h) \subseteq Passed(n, t, g, f, b) \cup {m}
  BY <1>2 DEF Passed
<1> QED
  BY <1>1, <1>5, <1>6

-----------------------------------------------------------------------------
(***************************************************************************)
(* A subscription is a connection and a name.                              *)
(***************************************************************************)
LEMMA SubscriptionParts ==
  ASSUME NEW s \in Subscriptions
  PROVE  s[1] \in Subscribers /\ s[2] \in DOMAIN Matching /\ s = <<s[1], s[2]>>
  BY DEF Subscriptions

(***************************************************************************)
(* A step that leaves publishers, queue and counter alone keeps what is    *)
(* said of them.                                                           *)
(***************************************************************************)
LEMMA SourcesStay ==
  ASSUME SourcesInv, UNCHANGED <<publisherVars, changes>>
  PROVE  SourcesInv' /\ \A s, m : Before(s, m) => (Before(s, m))'
  BY DEF SourcesInv, Before, Due, publisherVars

(***************************************************************************)
(* A step that leaves the pipes alone, and puts nothing before what they   *)
(* have taken in, keeps them in order.                                     *)
(***************************************************************************)
LEMMA PipesStay ==
  ASSUME PipesInv, UNCHANGED pipeVars,
         \A s \in Subscriptions : OneSource(s[2]) =>
           \A m \in PassedTo(s) : Before(s, m) => (Before(s, m))'
  PROVE  PipesInv'
<1>1. \A s \in Subscriptions : /\ (PassedTo(s))' = PassedTo(s)
                               /\ (OneSource(s[2]))' = OneSource(s[2])
  BY DEF PassedTo, Passed, pipeVars, OneSource
<1> QED
  BY <1>1 DEF PipesInv, InOrder, pipeVars

(***************************************************************************)
(* The steps of a handler that touch neither pipes nor publishers.         *)
(***************************************************************************)
LEMMA HandlerStays ==
  ASSUME IndInv, NEW c \in Subscribers,
         \/ Subscribe(c) \/ Serve(c) \/ ConnDead(c) \/ Unsubscribe(c) \/ Disconnect(c)
  PROVE  IndInv'
<1>1. UNCHANGED <<pipeVars, publisherVars, queueVars, fallen>>
  BY DEF Subscribe, Serve, ConnDead, Unsubscribe, Disconnect
<1>2. SourcesInv' /\ \A s, m : Before(s, m) => (Before(s, m))'
  BY <1>1, SourcesStay DEF IndInv, queueVars
<1>3. PipesInv'
  BY <1>1, <1>2, PipesStay DEF IndInv
<1>4. Capacities'
  BY <1>1 DEF IndInv, Capacities, pipeVars
<1>5. ASSUME registered' \subseteq Subscriptions, closed' \subseteq Subscriptions,
             handler' \in [Subscribers -> {"subscribing", "serving", "leaving", "gone"}],
             names' \in [Subscribers -> Seq(DOMAIN Matching)], alive' \subseteq Subscribers
      PROVE  StateTypes'
  BY <1>1, <1>5 DEF IndInv, StateTypes, pipeVars, publisherVars, queueVars
<1>6. ASSUME Subscribe(c) PROVE StateTypes' /\ HandlerInv'
  <2>1. PICK n : n = Head(names[c])
    OBVIOUS
  <2>2. /\ handler[c] = "subscribing" /\ names[c] # <<>>
        /\ registered' = registered \cup {<<c, n>>}
        /\ names' = [names EXCEPT ![c] = Tail(@)]
        /\ UNCHANGED <<closed, handler, alive>>
    BY <1>6, <2>1 DEF Subscribe
  <2>3. /\ names[c] \in Seq(DOMAIN Matching) /\ n \in DOMAIN Matching
        /\ n \in Range(Names[c])
        /\ \A i \in DOMAIN Tail(names[c]) : Tail(names[c])[i] \in Range(Names[c])
    <3>1. names[c] \in Seq(DOMAIN Matching)
      BY DEF IndInv, StateTypes
    <3>2. 1 \in DOMAIN names[c] /\ n = names[c][1]
      BY <2>1, <2>2, <3>1
    <3>3. \A i \in DOMAIN Tail(names[c]) : /\ i + 1 \in DOMAIN names[c]
                                           /\ Tail(names[c])[i] = names[c][i + 1]
      BY <2>2, <3>1
    <3>4. \A i \in DOMAIN names[c] : names[c][i] \in Range(Names[c])
      BY DEF IndInv, HandlerInv
    <3> QED
      BY <3>1, <3>2, <3>3, <3>4
  <2>4. <<c, n>> \in Subscriptions /\ <<c, n>>[1] = c /\ <<c, n>>[2] = n
    BY <2>3 DEF Subscriptions
  <2>5. StateTypes'
    <3>1. names' \in [Subscribers -> Seq(DOMAIN Matching)]
      BY <2>2, <2>3 DEF IndInv, StateTypes
    <3> QED
      BY <1>5, <2>2, <2>4, <3>1 DEF IndInv, StateTypes
  <2>6. <<c, n>> \notin closed
    BY <2>2, <2>4 DEF IndInv, HandlerInv
  <2>7. \A d \in Subscribers : names'[d] = IF d = c THEN Tail(names[c]) ELSE names[d]
    BY <2>2 DEF IndInv, StateTypes
  <2>8. \A d \in Subscribers : \A i \in DOMAIN names'[d] : names'[d][i] \in Range(Names[d])
    BY <2>3, <2>7 DEF IndInv, HandlerInv
  <2>9. \A s \in registered' : s[2] \in Range(Names[s[1]])
    BY <2>2, <2>3, <2>4 DEF IndInv, HandlerInv
  <2>10. ASSUME NEW s \in Subscriptions
         PROVE  /\ handler[s[1]] \in {"subscribing", "serving"} => s \notin closed
                /\ (handler[s[1]] = "leaving" /\ s \in registered') => s[2] \in Range(names'[s[1]])
                /\ handler[s[1]] = "gone" => s \notin registered'
    <3>1. CASE s[1] = c
      BY <2>2, <3>1 DEF IndInv, HandlerInv
    <3>2. CASE s[1] # c
      <4>1. s \in registered' => s \in registered
        BY <2>2, <2>4, <3>2
      <4>2. names'[s[1]] = names[s[1]]
        BY <2>7, <3>2, SubscriptionParts
      <4> QED
        BY <4>1, <4>2 DEF IndInv, HandlerInv
    <3> QED
      BY <3>1, <3>2
  <2>11. registered' \cap closed' = {}
    BY <2>2, <2>6 DEF IndInv, HandlerInv
  <2> QED
    BY <2>2, <2>5, <2>8, <2>9, <2>10, <2>11 DEF HandlerInv
<1>7. ASSUME Serve(c) PROVE StateTypes' /\ HandlerInv'
  <2>1. /\ handler[c] = "subscribing" /\ handler' = [handler EXCEPT ![c] = "serving"]
        /\ UNCHANGED <<registered, closed, names, alive>>
    BY <1>7 DEF Serve
  <2>2. StateTypes'
    BY <1>5, <2>1 DEF IndInv, StateTypes
  <2>3. \A d \in Subscribers : handler'[d] = IF d = c THEN "serving" ELSE handler[d]
    BY <2>1 DEF IndInv, StateTypes
  <2>4. HandlerInv'
    BY <2>1, <2>3, SubscriptionParts DEF IndInv, HandlerInv
  <2> QED
    BY <2>2, <2>4
<1>8. ASSUME ConnDead(c) PROVE StateTypes' /\ HandlerInv'
  <2>1. /\ handler[c] = "serving" /\ handler' = [handler EXCEPT ![c] = "leaving"]
        /\ names' = [names EXCEPT ![c] = Names[c]]
        /\ UNCHANGED <<registered, closed, alive>>
    BY <1>8 DEF ConnDead
  <2>2. StateTypes'
    <3>1. names' \in [Subscribers -> Seq(DOMAIN Matching)]
      BY <2>1, PubSubAssumption DEF IndInv, StateTypes
    <3> QED
      BY <1>5, <2>1, <3>1 DEF IndInv, StateTypes
  <2>3. \A d \in Subscribers : /\ handler'[d] = IF d = c THEN "leaving" ELSE handler[d]
                               /\ names'[d] = IF d = c THEN Names[c] ELSE names[d]
    BY <2>1 DEF IndInv, StateTypes
  <2>4. \A d \in Subscribers : \A i \in DOMAIN names'[d] : names'[d][i] \in Range(Names[d])
    BY <2>3 DEF IndInv, HandlerInv, Range
  <2>5. ASSUME NEW s \in Subscriptions
        PROVE  /\ handler'[s[1]] \in {"subscribing", "serving"} => s \notin closed
               /\ (handler'[s[1]] = "leaving" /\ s \in registered) => s[2] \in Range(names'[s[1]])
               /\ handler'[s[1]] = "gone" => s \notin registered
    BY <2>1, <2>3, SubscriptionParts DEF IndInv, HandlerInv
  <2> QED
    BY <2>1, <2>2, <2>4, <2>5 DEF IndInv, HandlerInv
<1>9. ASSUME Unsubscribe(c) PROVE StateTypes' /\ HandlerInv'
  <2>1. handler[c] = "leaving" /\ UNCHANGED alive
    BY <1>9 DEF Unsubscribe
  <2>2. ASSUME names[c] = <<>>, handler' = [handler EXCEPT ![c] = "gone"],
               UNCHANGED <<registered, closed, names>>
        PROVE  StateTypes' /\ HandlerInv'
    <3>1. StateTypes'
      BY <1>5, <2>1, <2>2 DEF IndInv, StateTypes
    <3>2. \A d \in Subscribers : handler'[d] = IF d = c THEN "gone" ELSE handler[d]
      BY <2>2 DEF IndInv, StateTypes
    <3>3. ASSUME NEW s \in Subscriptions
          PROVE  /\ handler'[s[1]] \in {"subscribing", "serving"} => s \notin closed
                 /\ (handler'[s[1]] = "leaving" /\ s \in registered) => s[2] \in Range(names[s[1]])
                 /\ handler'[s[1]] = "gone" => s \notin registered
      <4>1. CASE s[1] = c
        <5>1. Range(names[c]) = {}
          BY <2>2 DEF Range
        <5> QED
          BY <2>1, <3>2, <4>1, <5>1 DEF IndInv, HandlerInv
      <4>2. CASE s[1] # c
        BY <3>2, <4>2, SubscriptionParts DEF IndInv, HandlerInv
      <4> QED
        BY <4>1, <4>2
    <3> QED
      BY <2>2, <3>1, <3>3 DEF IndInv, HandlerInv
  <2>3. ASSUME names[c] # <<>>,
               registered' = registered \ {<<c, Head(names[c])>>},
               closed' = closed \cup {<<c, Head(names[c])>>},
               names' = [names EXCEPT ![c] = Tail(@)], UNCHANGED handler
        PROVE  StateTypes' /\ HandlerInv'
    <3>1. PICK n : n = Head(names[c])
      OBVIOUS
    <3>2. /\ names[c] \in Seq(DOMAIN Matching) /\ n \in DOMAIN Matching
          /\ \A i \in DOMAIN Tail(names[c]) : Tail(names[c])[i] \in Range(Names[c])
          /\ \A x \in Range(names[c]) : x = n \/ x \in Range(Tail(names[c]))
      <4>1. names[c] \in Seq(DOMAIN Matching)
        BY DEF IndInv, StateTypes
      <4>2. 1 \in DOMAIN names[c] /\ n = names[c][1]
        BY <2>3, <3>1, <4>1
      <4>3. \A i \in DOMAIN Tail(names[c]) : /\ i + 1 \in DOMAIN names[c]
                                             /\ Tail(names[c])[i] = names[c][i + 1]
        BY <2>3, <4>1
      <4>4. \A i \in DOMAIN names[c] : names[c][i] \in Range(Names[c])
        BY DEF IndInv, HandlerInv
      <4>5. ASSUME NEW i \in DOMAIN names[c]
            PROVE  names[c][i] = n \/ names[c][i] \in Range(Tail(names[c]))
        <5>1. CASE i = 1
          BY <4>2, <5>1
        <5>2. CASE i # 1
          <6>1. i - 1 \in DOMAIN Tail(names[c]) /\ Tail(names[c])[i - 1] = names[c][i]
            BY <2>3, <4>1, <5>2
          <6> QED
            BY <6>1 DEF Range
        <5> QED
          BY <5>1, <5>2
      <4> QED
        BY <4>1, <4>2, <4>3, <4>4, <4>5 DEF Range
    <3>3. <<c, n>> \in Subscriptions /\ <<c, n>>[1] = c /\ <<c, n>>[2] = n
      BY <3>2 DEF Subscriptions
    <3>4. StateTypes'
      <4>1. names' \in [Subscribers -> Seq(DOMAIN Matching)]
        BY <2>3, <3>2 DEF IndInv, StateTypes
      <4>2. registered' \subseteq Subscriptions /\ closed' \subseteq Subscriptions
        BY <2>3, <3>1, <3>3 DEF IndInv, StateTypes
      <4> QED
        BY <1>5, <2>1, <2>3, <4>1, <4>2 DEF IndInv, StateTypes
    <3>5. \A d \in Subscribers : names'[d] = IF d = c THEN Tail(names[c]) ELSE names[d]
      BY <2>3 DEF IndInv, StateTypes
    <3>6. \A d \in Subscribers : \A i \in DOMAIN names'[d] : names'[d][i] \in Range(Names[d])
      BY <3>2, <3>5 DEF IndInv, HandlerInv
    <3>7. ASSUME NEW s \in Subscriptions
          PROVE  /\ handler[s[1]] \in {"subscribing", "serving"} => s \notin closed'
                 /\ (handler[s[1]] = "leaving" /\ s \in registered') => s[2] \in Range(names'[s[1]])
                 /\ handler[s[1]] = "gone" => s \notin registered'
      <4>1. CASE s[1] = c
        <5>1. ASSUME s \in registered' PROVE s[2] \in Range(names'[s[1]])
          <6>1. s[2] \in Range(names[c])
            BY <2>1, <2>3, <4>1, <5>1 DEF IndInv, HandlerInv
          <6>2. s[2] # n
            BY <2>3, <3>1, <4>1, <5>1, SubscriptionParts
          <6> QED
            BY <3>2, <3>5, <4>1, <6>1, <6>2
        <5> QED
          BY <2>1, <4>1, <5>1
      <4>2. CASE s[1] # c
        <5>1. /\ s \in registered' => s \in registered
              /\ s \in closed' => s \in closed
          BY <2>3, <3>1, <3>3, <4>2
        <5>2. names'[s[1]] = names[s[1]]
          BY <3>5, <4>2, SubscriptionParts
        <5> QED
          BY <5>1, <5>2 DEF IndInv, HandlerInv
      <4> QED
        BY <4>1, <4>2
    <3>8. /\ registered' \cap closed' = {}
          /\ \A s \in registered' : s[2] \in Range(Names[s[1]])
      BY <2>3 DEF IndInv, HandlerInv
    <3> QED
      BY <2>3, <3>4, <3>6, <3>7, <3>8 DEF HandlerInv
  <2> QED
    BY <1>9, <2>2, <2>3 DEF Unsubscribe
<1>10. ASSUME Disconnect(c) PROVE StateTypes' /\ HandlerInv'
  <2>1. StateTypes'
    BY <1>5, <1>10 DEF Disconnect, IndInv, StateTypes, handlerVars
  <2>2. HandlerInv'
    BY <1>10 DEF Disconnect, IndInv, HandlerInv, handlerVars
  <2> QED
    BY <2>1, <2>2
<1> QED
  BY <1>2, <1>3, <1>4, <1>6, <1>7, <1>8, <1>9, <1>10 DEF IndInv

-----------------------------------------------------------------------------
(***************************************************************************)
(* A step inside the pipes: it is enough to look at the pipes themselves.  *)
(***************************************************************************)
LEMMA PipeStep ==
  ASSUME IndInv, UNCHANGED <<handlerVars, alive, publisherVars, queueVars, fallen>>,
         buffer' \in [Subscriptions -> Seq(Messages)],
         forwarder' \in [Subscriptions -> Seq(Messages)],
         merged' \in [Subscribers -> Seq(Notes)],
         told' \in [Subscribers -> Seq(Notes)],
         Capacities',
         \A s \in Subscriptions : OneSource(s[2]) =>
           /\ InOrder(s[2], told'[s[1]], merged'[s[1]], forwarder'[s], buffer'[s])
           /\ Passed(s[2], told'[s[1]], merged'[s[1]], forwarder'[s], buffer'[s])
                \subseteq PassedTo(s)
  PROVE  IndInv'
<1>1. SourcesInv' /\ \A s, m : Before(s, m) => (Before(s, m))'
  BY SourcesStay DEF IndInv, queueVars
<1>2. StateTypes'
  BY DEF IndInv, StateTypes, handlerVars, publisherVars, queueVars
<1>3. HandlerInv'
  BY DEF IndInv, HandlerInv, handlerVars
<1>4. PipesInv'
  <2>1. ASSUME NEW s \in Subscriptions, OneSource(s[2])
        PROVE  /\ InOrder(s[2], told'[s[1]], merged'[s[1]], forwarder'[s], buffer'[s])
               /\ \A m \in Passed(s[2], told'[s[1]], merged'[s[1]], forwarder'[s], buffer'[s]) :
                    (Before(s, m))'
    BY <1>1, <2>1 DEF IndInv, PipesInv
  <2>2. \A s \in Subscriptions : (OneSource(s[2]))' = OneSource(s[2])
    BY DEF OneSource
  <2> QED
    BY <2>1, <2>2 DEF PipesInv, PassedTo
<1> QED
  BY <1>1, <1>2, <1>3, <1>4 DEF IndInv

(***************************************************************************)
(* What is known of one pipe.                                              *)
(***************************************************************************)
LEMMA PipeFacts ==
  ASSUME IndInv, NEW s \in Subscriptions
  PROVE  /\ told[s[1]] \in Seq(Notes) /\ merged[s[1]] \in Seq(Notes)
         /\ forwarder[s] \in Seq(Messages) /\ buffer[s] \in Seq(Messages)
         /\ Len(forwarder[s]) <= 1 /\ Len(buffer[s]) <= BufferSize
         /\ OneSource(s[2]) => InOrder(s[2], told[s[1]], merged[s[1]], forwarder[s], buffer[s])
         /\ PassedTo(s) = Passed(s[2], told[s[1]], merged[s[1]], forwarder[s], buffer[s])
<1>1. s[1] \in Subscribers
  BY SubscriptionParts
<1> QED
  BY <1>1 DEF IndInv, StateTypes, Capacities, PipesInv, PassedTo

(***************************************************************************)
(* The handler writes a message to the client.                             *)
(***************************************************************************)
LEMMA WriteStep ==
  ASSUME IndInv, NEW c \in Subscribers, WriteMessage(c)
  PROVE  IndInv'
<1>1. PICK g \in Seq(Notes) : g = merged[c]
  BY DEF IndInv, StateTypes
<1>2. PICK t \in Seq(Notes) : t = told[c]
  BY DEF IndInv, StateTypes
<1>3. /\ g # <<>> /\ merged' = [merged EXCEPT ![c] = Tail(g)]
      /\ told' = told \/ told' = [told EXCEPT ![c] = Append(t, Head(g))]
      /\ UNCHANGED <<handlerVars, buffer, forwarder, alive, publisherVars, queueVars, fallen>>
  BY <1>1, <1>2 DEF WriteMessage
<1>4. Tail(g) \in Seq(Notes) /\ Append(t, Head(g)) \in Seq(Notes) /\ Len(Tail(g)) <= Len(g)
  BY <1>3
<1>5. /\ merged' \in [Subscribers -> Seq(Notes)] /\ told' \in [Subscribers -> Seq(Notes)]
      /\ merged'[c] = Tail(g) /\ (told'[c] = t \/ told'[c] = Append(t, Head(g)))
      /\ \A d \in Subscribers : d # c => merged'[d] = merged[d] /\ told'[d] = told[d]
  BY <1>2, <1>3, <1>4 DEF IndInv, StateTypes
<1>6. Capacities'
  <2>1. Len(merged'[c]) <= BufferSize
    <3>1. Len(g) <= BufferSize
      BY <1>1 DEF IndInv, Capacities
    <3> QED
      BY <1>3, <1>4, <1>5, <3>1, PubSubAssumption
  <2> QED
    BY <1>3, <1>5, <2>1 DEF IndInv, Capacities
<1>7. ASSUME NEW s \in Subscriptions, OneSource(s[2])
      PROVE  /\ InOrder(s[2], told'[s[1]], merged'[s[1]], forwarder'[s], buffer'[s])
             /\ Passed(s[2], told'[s[1]], merged'[s[1]], forwarder'[s], buffer'[s])
                  \subseteq PassedTo(s)
  <2>1. CASE s[1] = c
    <3>1. /\ InOrder(s[2], t, g, forwarder[s], buffer[s])
          /\ PassedTo(s) = Passed(s[2], t, g, forwarder[s], buffer[s])
          /\ forwarder[s] \in Seq(Messages) /\ buffer[s] \in Seq(Messages)
      BY <1>1, <1>2, <1>7, <2>1, PipeFacts
    <3>2. /\ InOrder(s[2], Append(t, Head(g)), Tail(g), forwarder[s], buffer[s])
          /\ InOrder(s[2], t, Tail(g), forwarder[s], buffer[s])
          /\ Passed(s[2], Append(t, Head(g)), Tail(g), forwarder[s], buffer[s])
               \subseteq Passed(s[2], t, g, forwarder[s], buffer[s])
          /\ Passed(s[2], t, Tail(g), forwarder[s], buffer[s])
               \subseteq Passed(s[2], t, g, forwarder[s], buffer[s])
      BY <1>3, <3>1, WriteKeepsOrder
    <3>3. merged'[s[1]] = Tail(g) /\ forwarder'[s] = forwarder[s] /\ buffer'[s] = buffer[s]
      BY <1>3, <1>5, <2>1
    <3>4. CASE told'[s[1]] = t
      BY <3>1, <3>2, <3>3, <3>4
    <3>5. CASE told'[s[1]] = Append(t, Head(g))
      BY <3>1, <3>2, <3>3, <3>5
    <3> QED
      BY <1>5, <2>1, <3>4, <3>5
  <2>2. CASE s[1] # c
    BY <1>3, <1>5, <1>7, <2>2, PipeFacts, SubscriptionParts
  <2> QED
    BY <2>1, <2>2
<1>8. /\ buffer' \in [Subscriptions -> Seq(Messages)]
      /\ forwarder' \in [Subscriptions -> Seq(Messages)]
  BY <1>3 DEF IndInv, StateTypes
<1> QED
  BY <1>3, <1>5, <1>6, <1>7, <1>8, PipeStep

(***************************************************************************)
(* A forwarding goroutine takes a message from its buffer.                 *)
(***************************************************************************)
LEMMA ReceiveStep ==
  ASSUME IndInv, NEW s \in Subscriptions, Receive(s)
  PROVE  IndInv'
<1>1. PICK b \in Seq(Messages) : b = buffer[s]
  BY DEF IndInv, StateTypes
<1>2. /\ b # <<>> /\ forwarder[s] = <<>>
      /\ forwarder' = [forwarder EXCEPT ![s] = <<Head(b)>>]
      /\ buffer' = [buffer EXCEPT ![s] = Tail(b)]
      /\ UNCHANGED <<handlerVars, merged, told, alive, publisherVars, queueVars, fallen>>
  BY <1>1 DEF Receive
<1>3. Tail(b) \in Seq(Messages) /\ <<Head(b)>> \in Seq(Messages) /\ Len(Tail(b)) <= Len(b)
      /\ Len(<<Head(b)>>) = 1
  BY <1>2
<1>4. /\ forwarder' \in [Subscriptions -> Seq(Messages)] /\ buffer' \in [Subscriptions -> Seq(Messages)]
      /\ forwarder'[s] = <<Head(b)>> /\ buffer'[s] = Tail(b)
      /\ \A x \in Subscriptions : x # s => forwarder'[x] = forwarder[x] /\ buffer'[x] = buffer[x]
  BY <1>2, <1>3 DEF IndInv, StateTypes
<1>5. Capacities'
  <2>1. Len(buffer'[s]) <= BufferSize /\ Len(forwarder'[s]) <= 1
    <3>1. Len(b) <= BufferSize
      BY <1>1 DEF IndInv, Capacities
    <3> QED
      BY <1>2, <1>3, <1>4, <3>1, PubSubAssumption
  <2> QED
    BY <1>2, <1>4, <2>1 DEF IndInv, Capacities
<1>6. ASSUME NEW x \in Subscriptions, OneSource(x[2])
      PROVE  /\ InOrder(x[2], told'[x[1]], merged'[x[1]], forwarder'[x], buffer'[x])
             /\ Passed(x[2], told'[x[1]], merged'[x[1]], forwarder'[x], buffer'[x])
                  \subseteq PassedTo(x)
  <2>1. CASE x = s
    <3>1. /\ InOrder(s[2], told[s[1]], merged[s[1]], <<>>, b)
          /\ PassedTo(s) = Passed(s[2], told[s[1]], merged[s[1]], <<>>, b)
          /\ told[s[1]] \in Seq(Notes) /\ merged[s[1]] \in Seq(Notes)
      BY <1>1, <1>2, <1>6, <2>1, PipeFacts
    <3>2. /\ InOrder(s[2], told[s[1]], merged[s[1]], <<Head(b)>>, Tail(b))
          /\ Passed(s[2], told[s[1]], merged[s[1]], <<Head(b)>>, Tail(b)) \subseteq PassedTo(s)
      BY <1>2, <3>1, ReceiveKeepsOrder
    <3> QED
      BY <1>2, <1>4, <2>1, <3>2
  <2>2. CASE x # s
    BY <1>2, <1>4, <1>6, <2>2, PipeFacts
  <2> QED
    BY <2>1, <2>2
<1>7. /\ merged' \in [Subscribers -> Seq(Notes)] /\ told' \in [Subscribers -> Seq(Notes)]
  BY <1>2 DEF IndInv, StateTypes
<1> QED
  BY <1>2, <1>4, <1>5, <1>6, <1>7, PipeStep

(***************************************************************************)
(* A forwarding goroutine puts its message into the merged channel.        *)
(***************************************************************************)
LEMMA MergeStep ==
  ASSUME IndInv, NEW s \in Subscriptions, Merge(s)
  PROVE  IndInv'
<1>1. s[1] \in Subscribers /\ s[2] \in DOMAIN Matching /\ s = <<s[1], s[2]>>
  BY SubscriptionParts
<1>2. PICK f \in Seq(Messages) : f = forwarder[s]
  BY DEF IndInv, StateTypes
<1>3. PICK g \in Seq(Notes) : g = merged[s[1]]
  BY <1>1 DEF IndInv, StateTypes
<1>4. f # <<>> /\ Len(f) <= 1 /\ Len(g) < BufferSize
  BY <1>2, <1>3, PipeFacts DEF Merge
<1>5. PICK m \in Messages : m = Head(f)
  BY <1>4
<1>6. PICK h : h = Append(g, <<s[2], m>>)
  OBVIOUS
<1>7. /\ merged' = [merged EXCEPT ![s[1]] = h]
      /\ forwarder' = [forwarder EXCEPT ![s] = <<>>]
      /\ UNCHANGED <<handlerVars, buffer, told, alive, publisherVars, queueVars, fallen>>
  BY <1>2, <1>3, <1>5, <1>6 DEF Merge
<1>8. h \in Seq(Notes) /\ Len(h) = Len(g) + 1
  <2>1. <<s[2], m>> \in Notes
    BY <1>1 DEF Notes
  <2> QED
    BY <1>6, <2>1
<1>9. /\ merged' \in [Subscribers -> Seq(Notes)] /\ forwarder' \in [Subscriptions -> Seq(Messages)]
      /\ merged'[s[1]] = h /\ forwarder'[s] = <<>>
      /\ \A x \in Subscriptions : x # s => forwarder'[x] = forwarder[x]
      /\ \A d \in Subscribers : d # s[1] => merged'[d] = merged[d]
  BY <1>1, <1>7, <1>8 DEF IndInv, StateTypes
<1>10. Capacities'
  <2>1. Len(h) <= BufferSize
    BY <1>4, <1>8, PubSubAssumption
  <2>2. Len(forwarder'[s]) <= 1
    BY <1>9
  <2> QED
    BY <1>7, <1>9, <2>1, <2>2 DEF IndInv, Capacities
<1>11. ASSUME NEW x \in Subscriptions, OneSource(x[2])
       PROVE  /\ InOrder(x[2], told'[x[1]], merged'[x[1]], forwarder'[x], buffer'[x])
              /\ Passed(x[2], told'[x[1]], merged'[x[1]], forwarder'[x], buffer'[x])
                   \subseteq PassedTo(x)
  <2>1. CASE x = s
    <3>1. /\ InOrder(s[2], told[s[1]], g, f, buffer[s])
          /\ PassedTo(s) = Passed(s[2], told[s[1]], g, f, buffer[s])
          /\ told[s[1]] \in Seq(Notes) /\ buffer[s] \in Seq(Messages)
      BY <1>2, <1>3, <1>11, <2>1, PipeFacts
    <3>2. /\ InOrder(s[2], told[s[1]], h, <<>>, buffer[s])
          /\ Passed(s[2], told[s[1]], h, <<>>, buffer[s])
               \subseteq Passed(s[2], told[s[1]], g, f, buffer[s])
      BY <1>1, <1>4, <1>5, <1>6, <3>1, MergeKeepsOrder
    <3> QED
      BY <1>7, <1>9, <2>1, <3>1, <3>2
  <2>2. CASE x # s /\ x[1] = s[1]
    <3>1. x[2] # s[2]
      BY <1>1, <2>2, SubscriptionParts
    <3>2. InOrder(x[2], told[x[1]], g, forwarder[x], buffer[x])
      BY <1>3, <1>11, <2>2, PipeFacts
    <3>3. /\ InOrder(x[2], told[x[1]], h, forwarder[x], buffer[x])
          /\ Passed(x[2], told[x[1]], h, forwarder[x], buffer[x])
               \subseteq Passed(x[2], told[x[1]], g, forwarder[x], buffer[x])
      BY <1>1, <1>6, <3>1, <3>2, PipeFacts, MergeKeepsOrder
    <3> QED
      BY <1>3, <1>7, <1>9, <2>2, <3>3, PipeFacts
  <2>3. CASE x[1] # s[1]
    BY <1>7, <1>9, <1>11, <2>3, PipeFacts, SubscriptionParts
  <2> QED
    BY <2>1, <2>2, <2>3
<1>12. /\ buffer' \in [Subscriptions -> Seq(Messages)] /\ told' \in [Subscribers -> Seq(Notes)]
  BY <1>7 DEF IndInv, StateTypes
<1> QED
  BY <1>7, <1>9, <1>10, <1>11, <1>12, PipeStep

(***************************************************************************)
(* A forwarding goroutine ends: nothing moves.                             *)
(***************************************************************************)
LEMMA ForwarderEndsStep ==
  ASSUME IndInv, NEW s \in Subscriptions, ForwarderEnds(s)
  PROVE  IndInv'
<1>1. UNCHANGED <<handlerVars, buffer, forwarder, merged, told, alive, publisherVars, queueVars, fallen>>
  BY DEF ForwarderEnds
<1>2. /\ buffer' \in [Subscriptions -> Seq(Messages)] /\ forwarder' \in [Subscriptions -> Seq(Messages)]
      /\ merged' \in [Subscribers -> Seq(Notes)] /\ told' \in [Subscribers -> Seq(Notes)]
      /\ Capacities'
  BY <1>1 DEF IndInv, StateTypes, Capacities
<1>3. ASSUME NEW x \in Subscriptions, OneSource(x[2])
      PROVE  /\ InOrder(x[2], told'[x[1]], merged'[x[1]], forwarder'[x], buffer'[x])
             /\ Passed(x[2], told'[x[1]], merged'[x[1]], forwarder'[x], buffer'[x])
                  \subseteq PassedTo(x)
  BY <1>1, <1>3, PipeFacts
<1> QED
  BY <1>1, <1>2, <1>3, PipeStep

-----------------------------------------------------------------------------
(***************************************************************************)
(* A step of the publishers or the queue that leaves the pipes alone.      *)
(***************************************************************************)
LEMMA SourceStep ==
  ASSUME IndInv, UNCHANGED <<handlerVars, pipeVars, alive>>,
         sending' \in [Publishers -> Seq(Posts)],
         targets' \in [Publishers -> Seq(SUBSET Subscriptions)],
         changes' \in Seq(Messages), Len(changes') <= QueueSize,
         sent' \in 0..MaxMessages, stopped' \in BOOLEAN, fallen' \in BOOLEAN,
         SourcesInv',
         \A s \in Subscriptions : OneSource(s[2]) =>
           \A m \in PassedTo(s) : Before(s, m) => (Before(s, m))'
  PROVE  IndInv'
<1>1. StateTypes'
  BY DEF IndInv, StateTypes, handlerVars, pipeVars
<1>2. Capacities'
  BY DEF IndInv, Capacities, pipeVars
<1>3. HandlerInv'
  BY DEF IndInv, HandlerInv, handlerVars
<1>4. PipesInv'
  BY PipesStay DEF IndInv
<1> QED
  BY <1>1, <1>2, <1>3, <1>4 DEF IndInv

(***************************************************************************)
(* The channel of a client's message is one of Channels, that of a key     *)
(* event one of EventChannels, and no two events wait on one channel.      *)
(***************************************************************************)
LEMMA SendingFacts ==
  ASSUME SourcesInv, NEW p \in Publishers
  PROVE  /\ \A i \in DOMAIN sending[p] : /\ p = "client" => sending[p][i].channel \in Channels
                                         /\ p = "drainer" => sending[p][i].channel \in Range(EventChannels)
         /\ \A i, j \in DOMAIN sending[p] :
              i # j => sending[p][i].channel # sending[p][j].channel
<1>1. DOMAIN EventChannels = {1, 2} /\ EventChannels[1] # EventChannels[2]
  BY DEF EventChannels
<1>2. EventChannels[1] \in Range(EventChannels) /\ EventChannels[2] \in Range(EventChannels)
  BY <1>1 DEF Range
<1>3. CASE p = "client"
  <2>1. CASE sending["client"] = <<>>
    BY <1>3, <2>1
  <2>2. ASSUME NEW ch \in Channels, NEW m \in Messages,
               sending["client"] = <<[channel |-> ch, message |-> m]>>
        PROVE  /\ \A i \in DOMAIN sending[p] : i = 1 /\ sending[p][i].channel = ch
    <3>1. [channel |-> ch, message |-> m] \in Posts
      BY DEF Posts
    <3> QED
      BY <1>3, <2>2, <3>1
  <2> QED
    BY <1>3, <2>1, <2>2 DEF SourcesInv
<1>4. CASE p = "drainer"
  <2>1. CASE sending["drainer"] = <<>>
    BY <1>4, <2>1
  <2>2. ASSUME NEW m \in Messages,
               sending["drainer"] = <<[channel |-> EventChannels[1], message |-> m],
                                      [channel |-> EventChannels[2], message |-> m]>>
        PROVE  /\ DOMAIN sending[p] = {1, 2}
               /\ \A i \in DOMAIN sending[p] : sending[p][i].channel = EventChannels[i]
    <3>1. /\ [channel |-> EventChannels[1], message |-> m] \in Posts
          /\ [channel |-> EventChannels[2], message |-> m] \in Posts
      BY <1>2 DEF Posts
    <3> QED
      BY <1>4, <2>2, <3>1
  <2>3. ASSUME NEW m \in Messages,
               sending["drainer"] = <<[channel |-> EventChannels[2], message |-> m]>>
        PROVE  /\ \A i \in DOMAIN sending[p] : i = 1 /\ sending[p][i].channel = EventChannels[2]
    <3>1. [channel |-> EventChannels[2], message |-> m] \in Posts
      BY <1>2 DEF Posts
    <3> QED
      BY <1>4, <2>3, <3>1
  <2>4. p # "client"
    BY <1>4
  <2>5. CASE \E m \in Messages :
               sending["drainer"] = <<[channel |-> EventChannels[1], message |-> m],
                                      [channel |-> EventChannels[2], message |-> m]>>
    BY <1>1, <1>2, <2>2, <2>4, <2>5
  <2>6. CASE \E m \in Messages :
               sending["drainer"] = <<[channel |-> EventChannels[2], message |-> m]>>
    BY <1>2, <2>3, <2>4, <2>6
  <2> QED
    BY <2>1, <2>5, <2>6 DEF SourcesInv
<1> QED
  BY <1>3, <1>4 DEF Publishers

(***************************************************************************)
(* Publish copies the subscriptions.                                       *)
(***************************************************************************)
LEMMA PublishStep ==
  ASSUME IndInv, NEW p \in Publishers, Publish(p)
  PROVE  IndInv'
<1>1. PICK S : S = {s \in registered : Head(sending[p]).channel \in Matching[s[2]]}
  OBVIOUS
<1>2. /\ sending[p] # <<>> /\ targets[p] = <<>>
      /\ targets' = [targets EXCEPT ![p] = <<S>>]
      /\ UNCHANGED <<handlerVars, pipeVars, alive, sending, sent, queueVars, fallen>>
  BY <1>1 DEF Publish
<1>3. /\ targets \in [Publishers -> Seq(SUBSET Subscriptions)] /\ S \in SUBSET Subscriptions
      /\ \A s \in S : Head(sending[p]).channel \in Matching[s[2]]
  BY <1>1 DEF IndInv, StateTypes
<1>4. /\ targets'[p] = <<S>> /\ \A q \in Publishers : q # p => targets'[q] = targets[q]
      /\ targets' \in [Publishers -> Seq(SUBSET Subscriptions)]
      /\ Len(<<S>>) = 1 /\ Head(<<S>>) = S
  BY <1>2, <1>3
<1>5. \A q \in Publishers :
       \/ targets'[q] = <<>>
       \/ /\ sending[q] # <<>> /\ Len(targets'[q]) = 1
          /\ \A s \in Head(targets'[q]) : Head(sending[q]).channel \in Matching[s[2]]
  BY <1>2, <1>3, <1>4 DEF IndInv, SourcesInv
<1>6. SourcesInv'
  BY <1>2, <1>5 DEF IndInv, SourcesInv, queueVars
<1>7. ASSUME NEW s \in Subscriptions, NEW m, Before(s, m) PROVE (Before(s, m))'
  <2>1. \A q \in Publishers : \A i \in DOMAIN sending[q] : (Due(q, i, s))' => Due(q, i, s)
    BY <1>2, <1>4 DEF Due
  <2> QED
    BY <1>2, <1>7, <2>1 DEF Before, queueVars
<1>8. /\ sending' \in [Publishers -> Seq(Posts)]
      /\ changes' \in Seq(Messages) /\ Len(changes') <= QueueSize
      /\ sent' \in 0..MaxMessages /\ stopped' \in BOOLEAN /\ fallen' \in BOOLEAN
  BY <1>2 DEF IndInv, StateTypes, queueVars
<1> QED
  BY <1>2, <1>4, <1>6, <1>7, <1>8, SourceStep

(***************************************************************************)
(* What is left of one or two messages when the first is gone.             *)
(***************************************************************************)
LEMMA TailOfShort == \A x, y : Tail(<<x>>) = <<>> /\ Tail(<<x, y>>) = <<y>>
<1> TAKE x, y
<1>1. Tail(<<x>>) = <<>>
  OBVIOUS
<1>2. Tail(<<x, y>>) = <<y>>
  <2>1. <<x, y>> \in Seq({x, y}) /\ Len(<<x, y>>) = 2 /\ <<x, y>>[2] = y
    OBVIOUS
  <2>2. Tail(<<x, y>>) \in Seq({x, y}) /\ Len(Tail(<<x, y>>)) = 1 /\ Tail(<<x, y>>)[1] = y
    BY <2>1
  <2>3. <<y>> \in Seq({x, y}) /\ Len(<<y>>) = 1 /\ <<y>>[1] = y
    OBVIOUS
  <2> QED
    BY <2>2, <2>3
<1> QED
  BY <1>1, <1>2

(***************************************************************************)
(* All subscriptions of the copy have been sent to.                        *)
(***************************************************************************)
LEMMA PublishedStep ==
  ASSUME IndInv, NEW p \in Publishers, Published(p)
  PROVE  IndInv'
<1>1. PICK q : q = sending[p]
  OBVIOUS
<1>2. /\ targets[p] = <<{}>> /\ targets' = [targets EXCEPT ![p] = <<>>]
      /\ sending' = [sending EXCEPT ![p] = Tail(q)]
      /\ UNCHANGED <<handlerVars, pipeVars, alive, sent, queueVars, fallen>>
  BY <1>1 DEF Published

<1>3. q \in Seq(Posts) /\ q # <<>>
  <2>1. targets[p] # <<>>
    BY <1>2
  <2> QED
    BY <1>1, <2>1 DEF IndInv, SourcesInv, StateTypes
<1>4. /\ \A i \in DOMAIN Tail(q) : i + 1 \in DOMAIN q /\ Tail(q)[i] = q[i + 1] /\ i + 1 > 1
      /\ Tail(q) \in Seq(Posts)
  BY <1>3
<1>5. /\ targets'[p] = <<>> /\ \A r \in Publishers : r # p => targets'[r] = targets[r]
      /\ targets' \in [Publishers -> Seq(SUBSET Subscriptions)]
  BY <1>2 DEF IndInv, StateTypes
<1>6. /\ sending'[p] = Tail(q) /\ \A r \in Publishers : r # p => sending'[r] = sending[r]
      /\ sending' \in [Publishers -> Seq(Posts)]
  BY <1>2, <1>4 DEF IndInv, StateTypes
<1>7. "client" \in Publishers /\ "drainer" \in Publishers
  BY DEF Publishers
<1>8. \/ sending'["client"] = <<>>
      \/ \E ch \in Channels, m \in Messages : sending'["client"] = <<[channel |-> ch, message |-> m]>>
  <2>1. CASE p = "client"
    <3>1. PICK x : q = <<x>>
      BY <1>1, <1>3, <2>1 DEF IndInv, SourcesInv
    <3>2. Tail(q) = <<>>
      BY <3>1, TailOfShort
    <3> QED
      BY <1>6, <2>1, <3>2
  <2>2. CASE p # "client"
    BY <1>6, <1>7, <2>2 DEF IndInv, SourcesInv
  <2> QED
    BY <2>1, <2>2
<1>9. \/ sending'["drainer"] = <<>>
      \/ \E m \in Messages :
           \/ sending'["drainer"] = <<[channel |-> EventChannels[1], message |-> m],
                                      [channel |-> EventChannels[2], message |-> m]>>
           \/ sending'["drainer"] = <<[channel |-> EventChannels[2], message |-> m]>>
  <2>1. CASE p = "drainer"
    <3>1. PICK m \in Messages :
             \/ q = <<[channel |-> EventChannels[1], message |-> m],
                      [channel |-> EventChannels[2], message |-> m]>>
             \/ q = <<[channel |-> EventChannels[2], message |-> m]>>
      BY <1>1, <1>3, <2>1 DEF IndInv, SourcesInv
    <3>2. Tail(q) = <<[channel |-> EventChannels[2], message |-> m]>> \/ Tail(q) = <<>>
      BY <3>1, TailOfShort
    <3> QED
      BY <1>6, <2>1, <3>2
  <2>2. CASE p # "drainer"
    BY <1>6, <1>7, <2>2 DEF IndInv, SourcesInv
  <2> QED
    BY <2>1, <2>2
<1>10. \A r \in Publishers : \A i \in DOMAIN sending'[r] :
         /\ sending'[r][i].message <= sent
         /\ r = "drainer" => \A j \in DOMAIN changes : sending'[r][i].message < changes[j]
  <2>1. \A i \in DOMAIN q : /\ q[i].message <= sent
                            /\ p = "drainer" => \A j \in DOMAIN changes : q[i].message < changes[j]
    BY <1>1 DEF IndInv, SourcesInv
  <2>2. \A r \in Publishers : r # p => \A i \in DOMAIN sending[r] :
         /\ sending[r][i].message <= sent
         /\ r = "drainer" => \A j \in DOMAIN changes : sending[r][i].message < changes[j]
    BY DEF IndInv, SourcesInv
  <2> QED
    BY <1>4, <1>6, <2>1, <2>2
<1>11. \A r \in Publishers :
       \/ targets'[r] = <<>>
       \/ /\ sending'[r] # <<>> /\ Len(targets'[r]) = 1
          /\ \A s \in Head(targets'[r]) : Head(sending'[r]).channel \in Matching[s[2]]
  BY <1>5, <1>6 DEF IndInv, SourcesInv
<1>12. SourcesInv'
  BY <1>2, <1>7, <1>8, <1>9, <1>10, <1>11 DEF IndInv, SourcesInv, queueVars
<1>13. ASSUME NEW s \in Subscriptions, NEW m, Before(s, m) PROVE (Before(s, m))'
  <2>1. ASSUME NEW i \in DOMAIN Tail(q), Tail(q)[i].channel \in Matching[s[2]]
        PROVE  m < Tail(q)[i].message
    <3>1. Due(p, i + 1, s)
      BY <1>1, <1>4, <2>1 DEF Due
    <3> QED
      BY <1>1, <1>4, <1>13, <3>1 DEF Before
  <2>2. ASSUME NEW r \in Publishers, r # p, NEW i \in DOMAIN sending[r], (Due(r, i, s))'
        PROVE  m < sending[r][i].message
    <3>1. Due(r, i, s)
      BY <1>5, <1>6, <2>2 DEF Due
    <3> QED
      BY <1>13, <2>2, <3>1 DEF Before
  <2>3. ASSUME NEW r \in Publishers, NEW i \in DOMAIN sending'[r], (Due(r, i, s))'
        PROVE  m < sending'[r][i].message
    <3>1. CASE r = p
      BY <1>6, <2>1, <2>3, <3>1 DEF Due
    <3>2. CASE r # p
      BY <1>6, <2>2, <2>3, <3>2
    <3> QED
      BY <3>1, <3>2
  <2> QED
    BY <1>2, <1>13, <2>3 DEF Before, queueVars
<1>14. /\ changes' \in Seq(Messages) /\ Len(changes') <= QueueSize
       /\ sent' \in 0..MaxMessages /\ stopped' \in BOOLEAN /\ fallen' \in BOOLEAN
  BY <1>2 DEF IndInv, StateTypes, queueVars
<1> QED
  BY <1>2, <1>5, <1>6, <1>12, <1>13, <1>14, SourceStep

(***************************************************************************)
(* Publish has dealt with one subscription of its copy: fewer messages are *)
(* still to be sent, and none to that subscription before the next one.    *)
(***************************************************************************)
LEMMA TargetGone ==
  ASSUME IndInv, NEW p \in Publishers, NEW s \in Subscriptions,
         targets[p] # <<>>, s \in Head(targets[p]),
         targets' = [targets EXCEPT ![p] = <<Head(@) \ {s}>>],
         UNCHANGED <<sending, sent, changes>>
  PROVE  /\ targets' \in [Publishers -> Seq(SUBSET Subscriptions)]
         /\ SourcesInv' /\ \A x, m : Before(x, m) => (Before(x, m))'
         /\ Due(p, 1, s) /\ ~(Due(p, 1, s))' /\ 1 \in DOMAIN sending[p]
<1>1. PICK S : S = Head(targets[p])
  OBVIOUS
<1>2. targets \in [Publishers -> Seq(SUBSET Subscriptions)] /\ S \in SUBSET Subscriptions
  <2>1. targets \in [Publishers -> Seq(SUBSET Subscriptions)]
    BY DEF IndInv, StateTypes
  <2> QED
    BY <1>1, <2>1
<1>3. PICK R : R = S \ {s}
  OBVIOUS
<1>4. targets' = [targets EXCEPT ![p] = <<R>>] /\ R \in SUBSET Subscriptions
  BY <1>1, <1>2, <1>3
<1>5. /\ targets'[p] = <<R>> /\ \A q \in Publishers : q # p => targets'[q] = targets[q]
      /\ targets' \in [Publishers -> Seq(SUBSET Subscriptions)]
      /\ Len(<<R>>) = 1 /\ Head(<<R>>) = R /\ <<R>> # <<>>
  <2>1. Len(<<R>>) = 1 /\ Head(<<R>>) = R /\ <<R>> # <<>>
    OBVIOUS
  <2>2. <<R>> \in Seq(SUBSET Subscriptions)
    BY <1>4
  <2> QED
    BY <1>2, <1>4, <2>1, <2>2
<1>6. /\ sending[p] # <<>>
      /\ \A x \in S : Head(sending[p]).channel \in Matching[x[2]]
  BY <1>1 DEF IndInv, SourcesInv
<1>7. \A q \in Publishers :
       \/ targets'[q] = <<>>
       \/ /\ sending[q] # <<>> /\ Len(targets'[q]) = 1
          /\ \A x \in Head(targets'[q]) : Head(sending[q]).channel \in Matching[x[2]]
  BY <1>3, <1>5, <1>6 DEF IndInv, SourcesInv
<1>8. SourcesInv'
  BY <1>7 DEF IndInv, SourcesInv
<1>9. ASSUME NEW x, NEW m, Before(x, m) PROVE (Before(x, m))'
  <2>1. \A q \in Publishers : \A i \in DOMAIN sending[q] : (Due(q, i, x))' => Due(q, i, x)
    BY <1>1, <1>3, <1>5 DEF Due
  <2> QED
    BY <1>9, <2>1 DEF Before
<1>10. 1 \in DOMAIN sending[p] /\ Head(sending[p]) = sending[p][1]
  <2>1. sending[p] \in Seq(Posts)
    BY DEF IndInv, StateTypes
  <2> QED
    BY <1>6, <2>1
<1>11. Due(p, 1, s)
  BY <1>1, <1>6, <1>10 DEF Due
<1>12. ~(Due(p, 1, s))'
  BY <1>3, <1>5 DEF Due
<1> QED
  BY <1>5, <1>8, <1>9, <1>10, <1>11, <1>12

(***************************************************************************)
(* Publish sends to one subscription.                                      *)
(***************************************************************************)
LEMMA SendStep ==
  ASSUME IndInv, NEW p \in Publishers, NEW s \in Subscriptions, Send(p, s)
  PROVE  IndInv'
<1>1. /\ targets[p] # <<>> /\ s \in Head(targets[p])
      /\ targets' = [targets EXCEPT ![p] = <<Head(@) \ {s}>>]
      /\ UNCHANGED <<handlerVars, forwarder, ended, merged, told, alive, sending, sent, queueVars>>
  BY DEF Send
<1>2. /\ targets' \in [Publishers -> Seq(SUBSET Subscriptions)]
      /\ SourcesInv' /\ \A x, m : Before(x, m) => (Before(x, m))'
      /\ Due(p, 1, s) /\ ~(Due(p, 1, s))' /\ 1 \in DOMAIN sending[p]
  BY <1>1, TargetGone DEF queueVars
<1>3. /\ changes' \in Seq(Messages) /\ Len(changes') <= QueueSize
      /\ sending' \in [Publishers -> Seq(Posts)]
      /\ sent' \in 0..MaxMessages /\ stopped' \in BOOLEAN
  BY <1>1 DEF IndInv, StateTypes, queueVars
<1>4. ASSUME UNCHANGED <<buffer, accepted>>, fallen' \in BOOLEAN PROVE IndInv'
  <2>1. UNCHANGED <<handlerVars, pipeVars, alive>>
    BY <1>1, <1>4 DEF pipeVars
  <2> QED
    BY <1>2, <1>3, <1>4, <2>1, SourceStep
<1>5. ASSUME Len(buffer[s]) < BufferSize,
             buffer' = [buffer EXCEPT ![s] = Append(@, Head(sending[p]).message)],
             UNCHANGED fallen
      PROVE  IndInv'
  <2>1. PICK m \in Messages : m = Head(sending[p]).message /\ m = sending[p][1].message
    <3>1. sending[p] \in Seq(Posts)
      BY DEF IndInv, StateTypes
    <3>2. Head(sending[p]) = sending[p][1] /\ sending[p][1] \in Posts
      BY <1>2, <3>1
    <3> QED
      BY <3>2 DEF Posts
  <2>2. PICK b \in Seq(Messages) : b = buffer[s]
    BY PipeFacts
  <2>3. /\ buffer' \in [Subscriptions -> Seq(Messages)] /\ buffer'[s] = Append(b, m)
        /\ \A x \in Subscriptions : x # s => buffer'[x] = buffer[x]
        /\ Len(Append(b, m)) = Len(b) + 1
    BY <1>5, <2>1, <2>2 DEF IndInv, StateTypes
  <2>4. StateTypes'
    BY <1>1, <1>2, <1>3, <1>5, <2>3 DEF IndInv, StateTypes, handlerVars, queueVars
  <2>5. Capacities'
    <3>1. Len(buffer'[s]) <= BufferSize
      BY <1>5, <2>2, <2>3, PubSubAssumption
    <3> QED
      BY <1>1, <2>3, <3>1 DEF IndInv, Capacities
  <2>6. HandlerInv'
    BY <1>1 DEF IndInv, HandlerInv, handlerVars
  <2>7. ASSUME OneSource(s[2])
        PROVE  /\ InOrder(s[2], told'[s[1]], merged'[s[1]], forwarder'[s], buffer'[s])
               /\ \A x \in (PassedTo(s))' : (Before(s, x))'
    <3>1. PICK ch \in Matching[s[2]] :
             Matching[s[2]] = {ch} /\ ~(ch \in Channels /\ ch \in Range(EventChannels))
      BY <2>7 DEF OneSource
    <3>2. sending[p][1].channel = ch
      BY <1>2, <3>1 DEF Due
    <3>3. (Before(s, m))'
      <4>1. m <= sent
        BY <1>2, <2>1 DEF IndInv, SourcesInv
      <4>2. ASSUME NEW q \in Publishers, NEW i \in DOMAIN sending[q], (Due(q, i, s))'
            PROVE  FALSE
        <5>1. sending[q][i].channel = ch
          BY <1>1, <3>1, <4>2 DEF Due
        <5>2. CASE q = p
          <6>1. i = 1
            BY <1>2, <3>2, <5>1, <5>2, SendingFacts DEF IndInv
          <6> QED
            BY <1>2, <4>2, <5>2, <6>1
        <5>3. CASE q # p
          <6>1. \/ q = "client" /\ p = "drainer"
                \/ q = "drainer" /\ p = "client"
            BY <5>3 DEF Publishers
          <6>2. ch \in Channels /\ ch \in Range(EventChannels)
            BY <1>2, <3>2, <5>1, <6>1, SendingFacts DEF IndInv
          <6> QED
            BY <3>1, <6>2
        <5> QED
          BY <5>2, <5>3
      <4>3. ASSUME Matching[s[2]] \subseteq Range(EventChannels)
            PROVE  \A j \in DOMAIN changes : m < changes[j]
        <5>1. p # "client"
          BY <1>2, <3>1, <3>2, <4>3, SendingFacts DEF IndInv
        <5>2. p = "drainer"
          BY <5>1 DEF Publishers
        <5> QED
          BY <1>2, <2>1, <5>2 DEF IndInv, SourcesInv
      <4> QED
        BY <1>1, <4>1, <4>2, <4>3 DEF Before, queueVars
    <3>4. /\ InOrder(s[2], told[s[1]], merged[s[1]], forwarder[s], b)
          /\ PassedTo(s) = Passed(s[2], told[s[1]], merged[s[1]], forwarder[s], b)
          /\ told[s[1]] \in Seq(Notes) /\ merged[s[1]] \in Seq(Notes) /\ forwarder[s] \in Seq(Messages)
      BY <2>2, <2>7, PipeFacts
    <3>5. \A x \in PassedTo(s) : Before(s, x)
      BY <2>7 DEF IndInv, PipesInv
    <3>6. \A x \in Passed(s[2], told[s[1]], merged[s[1]], forwarder[s], b) : x < m
      BY <1>2, <2>1, <3>4, <3>5 DEF Before
    <3>7. /\ InOrder(s[2], told[s[1]], merged[s[1]], forwarder[s], Append(b, m))
          /\ Passed(s[2], told[s[1]], merged[s[1]], forwarder[s], Append(b, m))
               \subseteq Passed(s[2], told[s[1]], merged[s[1]], forwarder[s], b) \cup {m}
      <4>1. PICK t \in Seq(Notes), g \in Seq(Notes), f \in Seq(Messages) :
              t = told[s[1]] /\ g = merged[s[1]] /\ f = forwarder[s]
        BY <3>4
      <4>2. InOrder(s[2], t, g, f, b) /\ \A x \in Passed(s[2], t, g, f, b) : x < m
        BY <3>4, <3>6, <4>1
      <4>3. /\ InOrder(s[2], t, g, f, Append(b, m))
            /\ Passed(s[2], t, g, f, Append(b, m)) \subseteq Passed(s[2], t, g, f, b) \cup {m}
        BY <4>2, SendKeepsOrder
      <4> QED
        BY <4>1, <4>3
    <3>8. (PassedTo(s))' = Passed(s[2], told[s[1]], merged[s[1]], forwarder[s], Append(b, m))
      BY <1>1, <2>3 DEF PassedTo
    <3> QED
      BY <1>1, <1>2, <2>3, <3>3, <3>4, <3>5, <3>7, <3>8
  <2>8. ASSUME NEW x \in Subscriptions, x # s, OneSource(x[2])
        PROVE  /\ InOrder(x[2], told'[x[1]], merged'[x[1]], forwarder'[x], buffer'[x])
               /\ \A m0 \in (PassedTo(x))' : (Before(x, m0))'
    <3>1. (PassedTo(x))' = PassedTo(x)
      BY <1>1, <2>3, <2>8 DEF PassedTo
    <3>2. \A m0 \in PassedTo(x) : Before(x, m0)
      BY <2>8 DEF IndInv, PipesInv
    <3> QED
      BY <1>1, <1>2, <2>3, <2>8, <3>1, <3>2, PipeFacts
  <2>9. PipesInv'
    <3>1. \A x \in Subscriptions : (OneSource(x[2]))' = OneSource(x[2])
      BY DEF OneSource
    <3> QED
      BY <2>7, <2>8, <3>1 DEF PipesInv
  <2> QED
    BY <1>2, <2>4, <2>5, <2>6, <2>9 DEF IndInv
<1>6. fallen \in BOOLEAN
  BY DEF IndInv, StateTypes
<1> QED
  BY <1>4, <1>5, <1>6 DEF Send

(***************************************************************************)
(* Messages that wait to be published are numbers up to sent.              *)
(***************************************************************************)
LEMMA MessageNumbers ==
  ASSUME IndInv
  PROVE  /\ \A p \in Publishers : \A i \in DOMAIN sending[p] :
              sending[p][i].message <= sent /\ sending[p][i].message \in Nat
         /\ \A j \in DOMAIN changes : changes[j] <= sent /\ changes[j] \in Nat
<1>1. \A m \in Messages : m \in Nat
  BY DEF Messages
<1>2. ASSUME NEW p \in Publishers, NEW i \in DOMAIN sending[p]
      PROVE  sending[p][i].message \in Messages
  <2>1. sending[p] \in Seq(Posts)
    BY DEF IndInv, StateTypes
  <2>2. sending[p][i] \in Posts
    BY <2>1
  <2> QED
    BY <2>2 DEF Posts
<1>3. \A j \in DOMAIN changes : changes[j] \in Messages
  BY DEF IndInv, StateTypes
<1> QED
  BY <1>1, <1>2, <1>3 DEF IndInv, SourcesInv

(***************************************************************************)
(* A client publishes: its message is later than everything so far.        *)
(***************************************************************************)
LEMMA PublishCommandStep ==
  ASSUME IndInv, NEW ch \in Channels, PublishCommand(ch)
  PROVE  IndInv'
<1>1. PICK m : m = sent + 1
  OBVIOUS
<1>2. PICK r : r = [channel |-> ch, message |-> m]
  OBVIOUS
<1>3. /\ sending["client"] = <<>> /\ sent < MaxMessages /\ sent' = m
      /\ sending' = [sending EXCEPT !["client"] = <<r>>]
      /\ UNCHANGED <<handlerVars, pipeVars, alive, targets, queueVars, fallen>>
  BY <1>1, <1>2 DEF PublishCommand
<1>4. /\ sent \in Nat /\ m \in Messages /\ m \in 0..MaxMessages /\ sent < m
  BY <1>1, <1>3, PubSubAssumption DEF IndInv, StateTypes, Messages
<1>5. "client" \in Publishers /\ "drainer" \in Publishers /\ "drainer" # "client"
  BY DEF Publishers
<1>6. r \in Posts /\ r.message = m /\ <<r>> \in Seq(Posts) /\ DOMAIN <<r>> = {1} /\ <<r>>[1] = r
  <2>1. r \in Posts /\ r.message = m
    BY <1>2, <1>4 DEF Posts
  <2> QED
    BY <2>1
<1>7. /\ sending' \in [Publishers -> Seq(Posts)] /\ sending'["client"] = <<r>>
      /\ \A q \in Publishers : q # "client" => sending'[q] = sending[q]
  BY <1>3, <1>5, <1>6 DEF IndInv, StateTypes
<1>8. targets["client"] = <<>>
  BY <1>3, <1>5 DEF IndInv, SourcesInv
<1>9. \A q \in Publishers : \A i \in DOMAIN sending'[q] : sending'[q][i].message <= m
  <2>1. \A q \in Publishers : \A i \in DOMAIN sending[q] :
          sending[q][i].message <= sent /\ sending[q][i].message \in Nat
    BY MessageNumbers
  <2>2. m <= m
    BY <1>4
  <2> QED
    BY <1>1, <1>4, <1>6, <1>7, <2>1, <2>2
<1>10. SourcesInv'
  <2>1. \A q \in Publishers :
       \/ targets[q] = <<>>
       \/ /\ sending'[q] # <<>> /\ Len(targets[q]) = 1
          /\ \A s \in Head(targets[q]) : Head(sending'[q]).channel \in Matching[s[2]]
    BY <1>7, <1>8 DEF IndInv, SourcesInv
  <2>2. \A j \in DOMAIN changes : changes[j] <= m
    <3>1. \A j \in DOMAIN changes : changes[j] <= sent /\ changes[j] \in Nat
      BY MessageNumbers
    <3> QED
      BY <1>1, <1>4, <3>1
  <2>3. \E c \in Channels, x \in Messages : sending'["client"] = <<[channel |-> c, message |-> x]>>
    BY <1>2, <1>4, <1>7
  <2>4. sending'["drainer"] = sending["drainer"]
    BY <1>5, <1>7
  <2> QED
    BY <1>3, <1>9, <2>1, <2>2, <2>3, <2>4 DEF IndInv, SourcesInv, queueVars
<1>11. ASSUME NEW s \in Subscriptions, NEW x \in PassedTo(s), Before(s, x) PROVE (Before(s, x))'
  <2>0. x \in Nat
    <3>1. \A y \in Notes : y[2] \in Nat
      BY DEF Notes, Messages
    <3>2. \A y \in Messages : y \in Nat
      BY DEF Messages
    <3> QED
      BY <3>1, <3>2, PipeFacts DEF Passed
  <2>1. x < m /\ x <= m
    BY <1>1, <1>4, <1>11, <2>0 DEF Before
  <2>2. ASSUME NEW q \in Publishers, NEW i \in DOMAIN sending'[q], (Due(q, i, s))'
        PROVE  x < sending'[q][i].message
    <3>1. CASE q = "client"
      BY <1>6, <1>7, <2>1, <2>2, <3>1
    <3>2. CASE q # "client"
      <4>1. Due(q, i, s)
        BY <1>3, <1>7, <2>2, <3>2 DEF Due
      <4> QED
        BY <1>7, <1>11, <2>2, <3>2, <4>1 DEF Before
    <3> QED
      BY <3>1, <3>2
  <2> QED
    BY <1>3, <1>11, <2>1, <2>2 DEF Before, queueVars
<1>12. /\ changes' \in Seq(Messages) /\ Len(changes') <= QueueSize
       /\ targets' \in [Publishers -> Seq(SUBSET Subscriptions)]
       /\ sent' \in 0..MaxMessages /\ stopped' \in BOOLEAN /\ fallen' \in BOOLEAN
  BY <1>3, <1>4 DEF IndInv, StateTypes, queueVars
<1> QED
  BY <1>3, <1>7, <1>10, <1>11, <1>12, SourceStep

(***************************************************************************)
(* A key changes: the event goes to the end of the queue, or is dropped,   *)
(* or the process falls because the queue is closed.                       *)
(***************************************************************************)
LEMMA TouchStep ==
  ASSUME IndInv, touchKeyLocked
  PROVE  IndInv'
<1>1. PICK m : m = sent + 1
  OBVIOUS
<1>2. PICK q \in Seq(Messages) : q = changes
  BY DEF IndInv, StateTypes
<1>3. /\ sent < MaxMessages /\ sent' = m
      /\ changes' = q \/ (Len(q) < QueueSize /\ changes' = Append(q, m))
      /\ fallen' = TRUE \/ fallen' = fallen
      /\ UNCHANGED <<handlerVars, pipeVars, alive, sending, targets, stopped>>
  BY <1>1, <1>2 DEF touchKeyLocked
<1>4. /\ sent \in Nat /\ m \in Messages /\ m \in 0..MaxMessages /\ sent < m
  BY <1>1, <1>3, PubSubAssumption DEF IndInv, StateTypes, Messages
<1>5. /\ Len(q) \in Nat /\ DOMAIN q = 1..Len(q)
      /\ \A j \in DOMAIN q : q[j] <= sent /\ q[j] \in Nat
      /\ \A i, j \in DOMAIN q : i < j => q[i] < q[j]
      /\ Len(q) <= QueueSize
  <2>1. Len(q) \in Nat /\ DOMAIN q = 1..Len(q)
    BY <1>2
  <2>2. \A j \in DOMAIN q : q[j] <= sent /\ q[j] \in Nat
    BY <1>2, MessageNumbers
  <2>3. /\ \A i, j \in DOMAIN q : i < j => q[i] < q[j]
        /\ Len(q) <= QueueSize
    BY <1>2 DEF IndInv, SourcesInv, StateTypes
  <2> QED
    BY <2>1, <2>2, <2>3
<1>6. /\ changes' \in Seq(Messages) /\ Len(changes') <= QueueSize
      /\ \A j \in DOMAIN changes' : (j \in DOMAIN q /\ changes'[j] = q[j])
                                    \/ (j = Len(q) + 1 /\ changes'[j] = m)
  <2>1. CASE changes' = q
    BY <1>2, <1>5, <2>1
  <2>2. CASE Len(q) < QueueSize /\ changes' = Append(q, m)
    BY <1>2, <1>4, <1>5, <2>2, PubSubAssumption
  <2> QED
    BY <1>3, <2>1, <2>2
<1>7. \A i, j \in DOMAIN changes' : i < j => changes'[i] < changes'[j]
  <2> SUFFICES ASSUME NEW i \in DOMAIN changes', NEW j \in DOMAIN changes', i < j
               PROVE  changes'[i] < changes'[j]
    OBVIOUS
  <2>1. i \in Nat /\ j \in Nat
    BY <1>5, <1>6
  <2>2. CASE i \in DOMAIN q /\ changes'[i] = q[i] /\ j \in DOMAIN q /\ changes'[j] = q[j]
    BY <1>5, <2>2
  <2>3. CASE i \in DOMAIN q /\ changes'[i] = q[i] /\ j = Len(q) + 1 /\ changes'[j] = m
    BY <1>4, <1>5, <2>3
  <2>4. CASE i = Len(q) + 1 /\ j \in DOMAIN q
    BY <1>5, <2>4
  <2>5. CASE i = Len(q) + 1 /\ j = Len(q) + 1
    BY <1>5, <2>5
  <2> QED
    BY <1>6, <2>2, <2>3, <2>4, <2>5
<1>8. ASSUME NEW p \in Publishers, NEW i \in DOMAIN sending[p]
      PROVE  /\ sending[p][i].message <= sent /\ sending[p][i].message \in Nat
             /\ sending[p][i].message <= m /\ sending[p][i].message < m
  <2>1. sending[p][i].message <= sent /\ sending[p][i].message \in Nat
    BY MessageNumbers
  <2> QED
    BY <1>1, <1>4, <2>1
<1>9. "client" \in Publishers /\ "drainer" \in Publishers
  BY DEF Publishers
<1>10. \A j \in DOMAIN changes' : changes'[j] <= m
  BY <1>1, <1>4, <1>5, <1>6
<1>11. \A i \in DOMAIN sending["drainer"] : \A j \in DOMAIN changes' :
         sending["drainer"][i].message < changes'[j]
  BY <1>2, <1>6, <1>8, <1>9 DEF IndInv, SourcesInv
<1>12. SourcesInv'
  BY <1>3, <1>7, <1>8, <1>10, <1>11 DEF IndInv, SourcesInv
<1>13. ASSUME NEW s \in Subscriptions, NEW x \in PassedTo(s), Before(s, x) PROVE (Before(s, x))'
  <2>1. x \in Nat
    <3>1. \A y \in Notes : y[2] \in Nat
      BY DEF Notes, Messages
    <3>2. \A y \in Messages : y \in Nat
      BY DEF Messages
    <3> QED
      BY <3>1, <3>2, PipeFacts DEF Passed
  <2>2. x < m /\ x <= m
    BY <1>1, <1>4, <1>13, <2>1 DEF Before
  <2>3. \A p \in Publishers : \A i \in DOMAIN sending'[p] :
          (Due(p, i, s))' => x < sending'[p][i].message
    BY <1>3, <1>13 DEF Before, Due
  <2>4. Matching[s[2]] \subseteq Range(EventChannels) => \A j \in DOMAIN changes' : x < changes'[j]
    BY <1>2, <1>6, <1>13, <2>2 DEF Before
  <2> QED
    BY <1>3, <2>2, <2>3, <2>4 DEF Before
<1>14. /\ sending' \in [Publishers -> Seq(Posts)]
       /\ targets' \in [Publishers -> Seq(SUBSET Subscriptions)]
       /\ sent' \in 0..MaxMessages /\ stopped' \in BOOLEAN /\ fallen' \in BOOLEAN
  BY <1>3, <1>4 DEF IndInv, StateTypes
<1> QED
  BY <1>3, <1>6, <1>12, <1>13, <1>14, SourceStep

(***************************************************************************)
(* The goroutine behind the queue takes the oldest event, for two channels.*)
(***************************************************************************)
LEMMA DrainStep ==
  ASSUME IndInv, Drain
  PROVE  IndInv'
<1>1. PICK q \in Seq(Messages) : q = changes
  BY DEF IndInv, StateTypes
<1>2. PICK m : m = Head(q)
  OBVIOUS
<1>3. PICK r : r = [i \in DOMAIN EventChannels |-> [channel |-> EventChannels[i], message |-> m]]
  OBVIOUS
<1>4. /\ q # <<>> /\ sending["drainer"] = <<>> /\ changes' = Tail(q)
      /\ sending' = [sending EXCEPT !["drainer"] = r]
      /\ UNCHANGED <<handlerVars, pipeVars, alive, targets, sent, stopped, fallen>>
  BY <1>1, <1>2, <1>3 DEF Drain
<1>5. /\ m \in Messages /\ m = q[1] /\ 1 \in DOMAIN q /\ Tail(q) \in Seq(Messages)
      /\ Len(Tail(q)) <= Len(q) /\ Len(q) \in Nat
      /\ \A j \in DOMAIN Tail(q) : /\ j + 1 \in DOMAIN q /\ Tail(q)[j] = q[j + 1]
                                   /\ 1 < j + 1 /\ j \in Nat
  BY <1>2, <1>4
<1>6. /\ r = <<[channel |-> EventChannels[1], message |-> m],
               [channel |-> EventChannels[2], message |-> m]>>
      /\ DOMAIN r = {1, 2} /\ r[1].message = m /\ r[2].message = m
      /\ r[1].channel = EventChannels[1] /\ r[2].channel = EventChannels[2]
  BY <1>3 DEF EventChannels
<1>7. /\ EventChannels[1] \in Range(EventChannels) /\ EventChannels[2] \in Range(EventChannels)
  BY DEF EventChannels, Range
<1>8. r \in Seq(Posts)
  <2>1. /\ [channel |-> EventChannels[1], message |-> m] \in Posts
        /\ [channel |-> EventChannels[2], message |-> m] \in Posts
    BY <1>5, <1>7 DEF Posts
  <2> QED
    BY <1>6, <2>1
<1>9. "client" \in Publishers /\ "drainer" \in Publishers /\ "drainer" # "client"
  BY DEF Publishers
<1>10. /\ sending' \in [Publishers -> Seq(Posts)] /\ sending'["drainer"] = r
       /\ \A p \in Publishers : p # "drainer" => sending'[p] = sending[p]
  BY <1>4, <1>8, <1>9 DEF IndInv, StateTypes
<1>11. targets["drainer"] = <<>>
  BY <1>4, <1>9 DEF IndInv, SourcesInv
<1>12. /\ \A j \in DOMAIN q : q[j] <= sent
       /\ \A i, j \in DOMAIN q : i < j => q[i] < q[j]
  BY <1>1 DEF IndInv, SourcesInv
<1>13. SourcesInv'
  <2>1. \A p \in Publishers : \A i \in DOMAIN sending'[p] : sending'[p][i].message <= sent
    <3>1. ASSUME NEW p \in Publishers, NEW i \in DOMAIN sending'[p]
          PROVE  sending'[p][i].message <= sent
      <4>1. CASE p = "drainer"
        BY <1>5, <1>6, <1>10, <1>12, <3>1, <4>1
      <4>2. CASE p # "drainer"
        BY <1>10, <3>1, <4>2, MessageNumbers
      <4> QED
        BY <4>1, <4>2
    <3> QED
      BY <3>1
  <2>2. /\ \A j \in DOMAIN Tail(q) : Tail(q)[j] <= sent
        /\ \A i, j \in DOMAIN Tail(q) : i < j => Tail(q)[i] < Tail(q)[j]
        /\ \A j \in DOMAIN Tail(q) : m < Tail(q)[j]
    <3>1. ASSUME NEW i \in DOMAIN Tail(q), NEW j \in DOMAIN Tail(q), i < j
          PROVE  Tail(q)[i] < Tail(q)[j]
      <4>1. i + 1 < j + 1
        BY <1>5, <3>1
      <4> QED
        BY <1>5, <1>12, <4>1
    <3> QED
      BY <1>5, <1>12, <3>1
  <2>3. \A i \in DOMAIN sending'["drainer"] : \A j \in DOMAIN Tail(q) :
          sending'["drainer"][i].message < Tail(q)[j]
    BY <1>6, <1>10, <2>2
  <2>4. \A p \in Publishers :
       \/ targets[p] = <<>>
       \/ /\ sending'[p] # <<>> /\ Len(targets[p]) = 1
          /\ \A s \in Head(targets[p]) : Head(sending'[p]).channel \in Matching[s[2]]
    BY <1>10, <1>11 DEF IndInv, SourcesInv
  <2>5. sending'["client"] = sending["client"]
    BY <1>9, <1>10
  <2>6. \E x \in Messages : sending'["drainer"] = <<[channel |-> EventChannels[1], message |-> x],
                                                    [channel |-> EventChannels[2], message |-> x]>>
    BY <1>5, <1>6, <1>10
  <2> QED
    BY <1>4, <2>1, <2>2, <2>3, <2>4, <2>5, <2>6 DEF IndInv, SourcesInv
<1>14. ASSUME NEW s \in Subscriptions, OneSource(s[2]), NEW x \in PassedTo(s), Before(s, x)
       PROVE  (Before(s, x))'
  <2>1. Matching[s[2]] \subseteq Range(EventChannels) => \A j \in DOMAIN q : x < q[j]
    BY <1>1, <1>14 DEF Before
  <2>2. ASSUME NEW p \in Publishers, NEW i \in DOMAIN sending'[p], (Due(p, i, s))'
        PROVE  x < sending'[p][i].message
    <3>1. CASE p = "drainer"
      <4>1. /\ sending'[p][i].message = m
            /\ sending'[p][i].channel \in Range(EventChannels)
        BY <1>6, <1>7, <1>10, <3>1, <2>2
      <4>2. sending'[p][i].channel \in Matching[s[2]]
        BY <2>2 DEF Due
      <4>3. Matching[s[2]] \subseteq Range(EventChannels)
        BY <1>14, <4>1, <4>2 DEF OneSource
      <4> QED
        BY <1>5, <2>1, <4>1, <4>3
    <3>2. CASE p # "drainer"
      <4>1. Due(p, i, s) /\ i \in DOMAIN sending[p]
        BY <1>4, <1>10, <2>2, <3>2 DEF Due
      <4> QED
        BY <1>10, <1>14, <3>2, <4>1 DEF Before
    <3> QED
      BY <3>1, <3>2
  <2>3. Matching[s[2]] \subseteq Range(EventChannels) => \A j \in DOMAIN Tail(q) : x < Tail(q)[j]
    BY <1>5, <2>1
  <2> QED
    BY <1>4, <1>14, <2>2, <2>3 DEF Before
<1>15. /\ changes' \in Seq(Messages) /\ Len(changes') <= QueueSize
  <2>1. Len(q) <= QueueSize
    BY <1>1 DEF IndInv, StateTypes
  <2> QED
    BY <1>4, <1>5, <2>1, PubSubAssumption
<1>16. /\ targets' \in [Publishers -> Seq(SUBSET Subscriptions)]
       /\ sent' \in 0..MaxMessages /\ stopped' \in BOOLEAN /\ fallen' \in BOOLEAN
  BY <1>4 DEF IndInv, StateTypes
<1> QED
  BY <1>4, <1>10, <1>13, <1>14, <1>15, <1>16, SourceStep

(***************************************************************************)
(* The shutdown closes the queue.                                          *)
(***************************************************************************)
LEMMA StopExpiryStep ==
  ASSUME IndInv, StopExpiry
  PROVE  IndInv'
<1>1. stopped' = TRUE /\ UNCHANGED <<handlerVars, pipeVars, alive, publisherVars, changes, fallen>>
  BY DEF StopExpiry
<1>2. SourcesInv' /\ \A s, m : Before(s, m) => (Before(s, m))'
  BY <1>1, SourcesStay DEF IndInv
<1>3. /\ sending' \in [Publishers -> Seq(Posts)]
      /\ targets' \in [Publishers -> Seq(SUBSET Subscriptions)]
      /\ changes' \in Seq(Messages) /\ Len(changes') <= QueueSize
      /\ sent' \in 0..MaxMessages /\ stopped' \in BOOLEAN /\ fallen' \in BOOLEAN
  BY <1>1 DEF IndInv, StateTypes, publisherVars
<1> QED
  BY <1>1, <1>2, <1>3, SourceStep

-----------------------------------------------------------------------------
(***************************************************************************)
(* Nothing is subscribed or under way at the start.                        *)
(***************************************************************************)
LEMMA InitIndInv == PubSubInit => IndInv
<1> SUFFICES ASSUME PubSubInit PROVE IndInv
  OBVIOUS
<1>1. StateTypes
  <2>1. sent \in 0..MaxMessages /\ Len(changes) <= QueueSize /\ changes \in Seq(Messages)
    BY PubSubAssumption DEF PubSubInit
  <2>2. names \in [Subscribers -> Seq(DOMAIN Matching)]
    BY PubSubAssumption DEF PubSubInit
  <2>3. /\ sending \in [Publishers -> Seq(Posts)]
        /\ targets \in [Publishers -> Seq(SUBSET Subscriptions)]
    BY DEF PubSubInit
  <2>4. /\ buffer \in [Subscriptions -> Seq(Messages)]
        /\ forwarder \in [Subscriptions -> Seq(Messages)]
    BY DEF PubSubInit
  <2>5. /\ merged \in [Subscribers -> Seq(Notes)] /\ told \in [Subscribers -> Seq(Notes)]
        /\ handler \in [Subscribers -> {"subscribing", "serving", "leaving", "gone"}]
    BY DEF PubSubInit
  <2> QED
    BY <2>1, <2>2, <2>3, <2>4, <2>5 DEF PubSubInit, StateTypes
<1>2. Capacities
  BY PubSubAssumption DEF PubSubInit, Capacities
<1>3. HandlerInv
  <2>1. \A c \in Subscribers : \A i \in DOMAIN names[c] : names[c][i] \in Range(Names[c])
    BY DEF PubSubInit, Range
  <2>2. \A s \in Subscriptions : handler[s[1]] = "subscribing"
    BY SubscriptionParts DEF PubSubInit
  <2> QED
    BY <2>1, <2>2 DEF PubSubInit, HandlerInv
<1>4. SourcesInv
  <2>1. "client" \in Publishers /\ "drainer" \in Publishers
    BY DEF Publishers
  <2> QED
    BY <2>1 DEF PubSubInit, SourcesInv
<1>5. PipesInv
  <2>1. ASSUME NEW s \in Subscriptions
        PROVE  /\ InOrder(s[2], told[s[1]], merged[s[1]], forwarder[s], buffer[s])
               /\ PassedTo(s) = {}
    <3>1. told[s[1]] = <<>> /\ merged[s[1]] = <<>> /\ forwarder[s] = <<>> /\ buffer[s] = <<>>
      BY SubscriptionParts DEF PubSubInit
    <3> QED
      BY <3>1 DEF InOrder, PassedTo, Passed
  <2> QED
    BY <2>1 DEF PipesInv
<1> QED
  BY <1>1, <1>2, <1>3, <1>4, <1>5 DEF IndInv

(***************************************************************************)
(* Every step keeps the inductive invariant.                               *)
(***************************************************************************)
LEMMA NextIndInv == IndInv /\ [PubSubNext]_pubsubVars => IndInv'
<1> SUFFICES ASSUME IndInv, [PubSubNext]_pubsubVars PROVE IndInv'
  OBVIOUS
<1>1. CASE UNCHANGED pubsubVars
  <2>1. UNCHANGED <<handlerVars, pipeVars, alive, publisherVars, queueVars, fallen>>
    BY <1>1 DEF pubsubVars
  <2>2. SourcesInv' /\ \A s, m : Before(s, m) => (Before(s, m))'
    BY <2>1, SourcesStay DEF IndInv, queueVars
  <2>3. /\ sending' \in [Publishers -> Seq(Posts)]
        /\ targets' \in [Publishers -> Seq(SUBSET Subscriptions)]
        /\ changes' \in Seq(Messages) /\ Len(changes') <= QueueSize
        /\ sent' \in 0..MaxMessages /\ stopped' \in BOOLEAN /\ fallen' \in BOOLEAN
    BY <2>1 DEF IndInv, StateTypes, publisherVars, queueVars
  <2> QED
    BY <2>1, <2>2, <2>3, SourceStep
<1>2. ASSUME NEW c \in Subscribers,
             \/ Subscribe(c) \/ Serve(c) \/ WriteMessage(c) \/ ConnDead(c)
             \/ Unsubscribe(c) \/ Disconnect(c)
      PROVE  IndInv'
  BY <1>2, HandlerStays, WriteStep
<1>3. ASSUME NEW s \in Subscriptions, Receive(s) \/ Merge(s) \/ ForwarderEnds(s) PROVE IndInv'
  BY <1>3, ReceiveStep, MergeStep, ForwarderEndsStep
<1>4. ASSUME NEW p \in Publishers,
             Publish(p) \/ Published(p) \/ \E s \in Subscriptions : Send(p, s)
      PROVE  IndInv'
  BY <1>4, PublishStep, PublishedStep, SendStep
<1>5. ASSUME NEW ch \in Channels, PublishCommand(ch) PROVE IndInv'
  BY <1>5, PublishCommandStep
<1>6. ASSUME touchKeyLocked \/ Drain \/ StopExpiry PROVE IndInv'
  BY <1>6, TouchStep, DrainStep, StopExpiryStep
<1> QED
  BY <1>1, <1>2, <1>3, <1>4, <1>5, <1>6 DEF PubSubNext

(***************************************************************************)
(* No channel holds more than its capacity; whatever Publish can find is   *)
(* open and has a handler; and on a channel with one publisher a client    *)
(* sees the messages in the order in which they were published, none of    *)
(* them twice, through the change queue, the copied list of subscriptions, *)
(* the buffer, the forwarding goroutine and the merged channel.            *)
(***************************************************************************)
THEOREM MessagesStayInOrder == PubSubSpec => []PubSubInv
<1>1. IndInv => PubSubInv
  <2> SUFFICES ASSUME IndInv PROVE PubSubInv
    OBVIOUS
  <2>1. PubSubTypeOK
    BY DEF IndInv, StateTypes, Capacities, PubSubTypeOK
  <2>2. RegisteredOpen
    BY DEF IndInv, StateTypes, HandlerInv, RegisteredOpen
  <2>3. ToldInOrder
    <3> SUFFICES ASSUME NEW c \in Subscribers, NEW i \in DOMAIN told[c], NEW j \in DOMAIN told[c],
                        i < j, told[c][i][1] = told[c][j][1], OneSource(told[c][i][1])
                 PROVE  told[c][i][2] < told[c][j][2]
      BY DEF ToldInOrder
    <3>1. told[c][i] \in Notes
      BY DEF IndInv, StateTypes
    <3>2. PICK n \in DOMAIN Matching : n = told[c][i][1]
      BY <3>1 DEF Notes
    <3>3. <<c, n>> \in Subscriptions /\ <<c, n>>[1] = c /\ <<c, n>>[2] = n
      BY DEF Subscriptions
    <3>4. InOrder(n, told[c], merged[c], forwarder[<<c, n>>], buffer[<<c, n>>])
      BY <3>2, <3>3 DEF IndInv, PipesInv
    <3> QED
      BY <3>2, <3>4 DEF InOrder
  <2> QED
    BY <2>1, <2>2, <2>3 DEF PubSubInv
<1> QED
  BY <1>1, InitIndInv, NextIndInv, PTL DEF PubSubSpec
=============================================================================
