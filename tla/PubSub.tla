------------------------------- MODULE PubSub -------------------------------
(***************************************************************************)
(* Channels, patterns and key events (internal/server/pubsub.go, the       *)
(* SUBSCRIBE and PSUBSCRIBE handlers of server.go, the event stream of     *)
(* http.go, the change queue of internal/store/store.go).                  *)
(*                                                                         *)
(* A subscription is a buffered Go channel with a goroutine that forwards  *)
(* what arrives to the merged channel of its connection, whose handler     *)
(* writes it to the client.  Publish copies the subscriptions under the    *)
(* read lock and sends without it.  Changes of keys go through a queue to  *)
(* a goroutine that publishes each of them on two channels.                *)
(*                                                                         *)
(* A send on a closed Go channel panics and ends the process: fallen.      *)
(***************************************************************************)
EXTENDS Naturals, Sequences, FiniteSets, SequencesExt

CONSTANTS
  Subscribers,   \* connections that subscribe, each of them once
  Names,         \* what each of them subscribes to, in order
  Channels,      \* channels that clients publish to
  Matching,      \* Matching[n]: the channels that the name n stands for
  BufferSize,    \* bound: capacity of a subscription and of a merged channel
  QueueSize,     \* bound: capacity of the change queue
  MaxMessages    \* bound: messages and changes

Publishers == {"client", "drainer"}
EventChannels == <<"__keyevent__", "__keyspace__">>

ASSUME PubSubAssumption ==
  /\ Names \in [Subscribers -> Seq(DOMAIN Matching)]
  /\ \A c \in Subscribers : IsInjective(Names[c])
  /\ \A n \in DOMAIN Matching : Matching[n] \subseteq Channels \cup Range(EventChannels)
  /\ BufferSize \in Nat \ {0} /\ QueueSize \in Nat \ {0} /\ MaxMessages \in Nat

Subscriptions == {<<c, n>> : c \in Subscribers, n \in DOMAIN Matching}
Messages == 1..MaxMessages

VARIABLES
  registered,   \* PubSub.subs and PubSub.psubs
  buffer,       \* the channel of each subscription
  closed,       \* the channels that Unsubscribe has closed
  forwarder,    \* each forwarding goroutine: <<>> or <<m>> (it holds m)
  ended,        \* the forwarding goroutines that have returned
  merged,       \* the merged channel of each connection
  handler,      \* "subscribing", "serving", "leaving" (done is closed) or "gone"
  names,        \* names that the handler has still to subscribe or unsubscribe
  alive,        \* connections whose client is still there
  sending,      \* publishers: the messages they have to publish, in order
  targets,      \* publishers: <<>>, or <<the copied subscriptions not yet sent to>>
  changes,      \* Store.onChangeQueue
  stopped,      \* StopExpiry has closed it
  fallen,       \* the process has panicked
  told,         \* history: what each client was sent
  accepted,     \* history: the messages that went into each subscription's buffer
  sent          \* messages and changes so far

handlerVars == <<registered, closed, handler, names>>
pipeVars == <<buffer, accepted, forwarder, ended, merged, told>>
publisherVars == <<sending, targets, sent>>
queueVars == <<changes, stopped>>
pubsubVars == <<handlerVars, pipeVars, alive, publisherVars, queueVars, fallen>>

PubSubInit ==
  /\ registered = {} /\ closed = {}
  /\ buffer = [s \in Subscriptions |-> <<>>]
  /\ forwarder = [s \in Subscriptions |-> <<>>] /\ ended = {}
  /\ merged = [c \in Subscribers |-> <<>>]
  /\ handler = [c \in Subscribers |-> "subscribing"]
  /\ names = Names
  /\ alive = Subscribers
  /\ sending = [p \in Publishers |-> <<>>]
  /\ targets = [p \in Publishers |-> <<>>]
  /\ changes = <<>> /\ stopped = FALSE /\ fallen = FALSE
  /\ told = [c \in Subscribers |-> <<>>] /\ accepted = {}
  /\ sent = 0

-----------------------------------------------------------------------------
(***************************************************************************)
(* The handler of a connection.  It leaves when the client is gone, which  *)
(* a reading goroutine or a failing write tells it.                        *)
(***************************************************************************)
Subscribe(c) ==
  /\ handler[c] = "subscribing" /\ names[c] # <<>>
  /\ registered' = registered \cup {<<c, Head(names[c])>>}
  /\ names' = [names EXCEPT ![c] = Tail(@)]
  /\ UNCHANGED <<closed, handler, pipeVars, alive, publisherVars, queueVars, fallen>>

Serve(c) ==
  /\ handler[c] = "subscribing" /\ names[c] = <<>>
  /\ handler' = [handler EXCEPT ![c] = "serving"]
  /\ UNCHANGED <<registered, closed, names, pipeVars, alive, publisherVars, queueVars, fallen>>

WriteMessage(c) ==
  /\ handler[c] = "serving" /\ merged[c] # <<>>
  /\ merged' = [merged EXCEPT ![c] = Tail(@)]
  /\ told' = IF c \in alive THEN [told EXCEPT ![c] = Append(@, Head(merged[c]))] ELSE told
  /\ UNCHANGED <<handlerVars, buffer, accepted, forwarder, ended, alive, publisherVars, queueVars, fallen>>

ConnDead(c) ==
  /\ handler[c] = "serving" /\ c \notin alive
  /\ handler' = [handler EXCEPT ![c] = "leaving"]
  /\ names' = [names EXCEPT ![c] = Names[c]]
  /\ UNCHANGED <<registered, closed, pipeVars, alive, publisherVars, queueVars, fallen>>

Unsubscribe(c) ==
  /\ handler[c] = "leaving"
  /\ \/ /\ names[c] # <<>>
        /\ registered' = registered \ {<<c, Head(names[c])>>}
        /\ closed' = closed \cup {<<c, Head(names[c])>>}
        /\ names' = [names EXCEPT ![c] = Tail(@)]
        /\ UNCHANGED handler
     \/ /\ names[c] = <<>>
        /\ handler' = [handler EXCEPT ![c] = "gone"]
        /\ UNCHANGED <<registered, closed, names>>
  /\ UNCHANGED <<pipeVars, alive, publisherVars, queueVars, fallen>>

Disconnect(c) ==
  /\ c \in alive
  /\ alive' = alive \ {c}
  /\ UNCHANGED <<handlerVars, pipeVars, publisherVars, queueVars, fallen>>

-----------------------------------------------------------------------------
(***************************************************************************)
(* The forwarding goroutine.  A select with several ready cases takes any. *)
(***************************************************************************)
Running(s) == s \in (registered \cup closed) \ ended
Done(c) == handler[c] \in {"leaving", "gone"}

Receive(s) ==
  /\ Running(s) /\ forwarder[s] = <<>> /\ buffer[s] # <<>>
  /\ forwarder' = [forwarder EXCEPT ![s] = <<Head(buffer[s])>>]
  /\ buffer' = [buffer EXCEPT ![s] = Tail(@)]
  /\ UNCHANGED <<handlerVars, accepted, ended, merged, told, alive, publisherVars, queueVars, fallen>>

\* Mutant of Merge: a message is thrown away when the merged channel is full.
MergeOrDrop(s) ==
  /\ Running(s) /\ forwarder[s] # <<>>
  /\ merged' = IF Len(merged[s[1]]) < BufferSize
               THEN [merged EXCEPT ![s[1]] = Append(@, <<s[2], Head(forwarder[s])>>)]
               ELSE merged
  /\ forwarder' = [forwarder EXCEPT ![s] = <<>>]
  /\ UNCHANGED <<handlerVars, buffer, accepted, ended, told, alive, publisherVars, queueVars, fallen>>

Merge(s) ==
  /\ Running(s) /\ forwarder[s] # <<>> /\ Len(merged[s[1]]) < BufferSize
  /\ merged' = [merged EXCEPT ![s[1]] = Append(@, <<s[2], Head(forwarder[s])>>)]
  /\ forwarder' = [forwarder EXCEPT ![s] = <<>>]
  /\ UNCHANGED <<handlerVars, buffer, accepted, ended, told, alive, publisherVars, queueVars, fallen>>

ForwarderEnds(s) ==
  /\ Running(s)
  /\ \/ Done(s[1])
     \/ forwarder[s] = <<>> /\ buffer[s] = <<>> /\ s \in closed
  /\ ended' = ended \cup {s}
  /\ UNCHANGED <<handlerVars, buffer, accepted, forwarder, merged, told, alive, publisherVars, queueVars, fallen>>

-----------------------------------------------------------------------------
(***************************************************************************)
(* Publish: copy the subscriptions, then send to them one by one without   *)
(* blocking.  A full buffer loses the message, a closed one is fatal.      *)
(***************************************************************************)
Publish(p) ==
  /\ sending[p] # <<>> /\ targets[p] = <<>>
  /\ targets' = [targets EXCEPT ![p] =
                   <<{s \in registered : Head(sending[p]).channel \in Matching[s[2]]}>>]
  /\ UNCHANGED <<handlerVars, pipeVars, alive, sending, sent, queueVars, fallen>>

Send(p, s) ==
  /\ targets[p] # <<>> /\ s \in Head(targets[p])
  /\ targets' = [targets EXCEPT ![p] = <<Head(@) \ {s}>>]
  /\ \/ s \in closed /\ fallen' = TRUE /\ UNCHANGED <<buffer, accepted>>
     \/ /\ s \notin closed /\ Len(buffer[s]) < BufferSize
        /\ buffer' = [buffer EXCEPT ![s] = Append(@, Head(sending[p]).message)]
        /\ accepted' = accepted \cup {<<s, Head(sending[p]).message>>}
        /\ UNCHANGED fallen
     \/ /\ s \notin closed /\ Len(buffer[s]) = BufferSize
        /\ UNCHANGED <<buffer, accepted, fallen>>
  /\ UNCHANGED <<handlerVars, forwarder, ended, merged, told, alive, sending, sent, queueVars>>

Published(p) ==
  /\ targets[p] = <<{}>>
  /\ targets' = [targets EXCEPT ![p] = <<>>]
  /\ sending' = [sending EXCEPT ![p] = Tail(@)]
  /\ UNCHANGED <<handlerVars, pipeVars, alive, sent, queueVars, fallen>>

PublishCommand(ch) ==
  /\ sending["client"] = <<>> /\ sent < MaxMessages
  /\ sent' = sent + 1
  /\ sending' = [sending EXCEPT !["client"] = <<[channel |-> ch, message |-> sent + 1]>>]
  /\ UNCHANGED <<handlerVars, pipeVars, alive, targets, queueVars, fallen>>

(***************************************************************************)
(* The change queue: touchKeyLocked drops the event if it is full, and     *)
(* panics if it is closed.  One goroutine empties it.                      *)
(***************************************************************************)
touchKeyLocked ==
  /\ sent < MaxMessages
  /\ sent' = sent + 1
  /\ \/ stopped /\ fallen' = TRUE /\ UNCHANGED changes
     \/ /\ ~stopped /\ UNCHANGED fallen
        /\ changes' = IF Len(changes) < QueueSize THEN Append(changes, sent + 1) ELSE changes
  /\ UNCHANGED <<handlerVars, pipeVars, alive, sending, targets, stopped>>

\* Mutant of Drain: both events go to the keyspace channel.
DrainSame ==
  /\ changes # <<>> /\ sending["drainer"] = <<>>
  /\ changes' = Tail(changes)
  /\ sending' = [sending EXCEPT !["drainer"] =
                   [i \in DOMAIN EventChannels |->
                      [channel |-> "__keyspace__", message |-> Head(changes)]]]
  /\ UNCHANGED <<handlerVars, pipeVars, alive, targets, sent, stopped, fallen>>

Drain ==
  /\ changes # <<>> /\ sending["drainer"] = <<>>
  /\ changes' = Tail(changes)
  /\ sending' = [sending EXCEPT !["drainer"] =
                   [i \in DOMAIN EventChannels |->
                      [channel |-> EventChannels[i], message |-> Head(changes)]]]
  /\ UNCHANGED <<handlerVars, pipeVars, alive, targets, sent, stopped, fallen>>

StopExpiry ==
  /\ ~stopped
  /\ stopped' = TRUE
  /\ UNCHANGED <<handlerVars, pipeVars, alive, publisherVars, changes, fallen>>

HandlerStep(c) == Subscribe(c) \/ Serve(c) \/ WriteMessage(c) \/ Unsubscribe(c)
ForwarderStep(s) == Receive(s) \/ Merge(s)

PubSubNext ==
  /\ ~fallen
  /\ \/ \E c \in Subscribers :
          \/ Subscribe(c) \/ Serve(c) \/ WriteMessage(c) \/ ConnDead(c)
          \/ Unsubscribe(c) \/ Disconnect(c)
     \/ \E s \in Subscriptions : Receive(s) \/ Merge(s) \/ ForwarderEnds(s)
     \/ \E p \in Publishers :
          \/ Publish(p) \/ Published(p)
          \/ \E s \in Subscriptions : Send(p, s)
     \/ \E ch \in Channels : PublishCommand(ch)
     \/ touchKeyLocked \/ Drain \/ StopExpiry

(***************************************************************************)
(* Goroutines that can run do run.  A client that stays reads what it is   *)
(* sent, since Flush has no deadline; it may leave.  Publishers and the    *)
(* shutdown owe nothing.                                                   *)
(***************************************************************************)
PubSubFairness ==
  /\ \A c \in Subscribers : /\ WF_pubsubVars(~fallen /\ HandlerStep(c))
                            /\ WF_pubsubVars(~fallen /\ ConnDead(c))
  /\ \A s \in Subscriptions : /\ WF_pubsubVars(~fallen /\ ForwarderStep(s))
                              /\ WF_pubsubVars(~fallen /\ ForwarderEnds(s))

PubSubSpec == PubSubInit /\ [][PubSubNext]_pubsubVars /\ PubSubFairness

-----------------------------------------------------------------------------
(***************************************************************************)
(* No Go channel, and no change queue, ever holds more than its capacity.  *)
(***************************************************************************)
PubSubTypeOK ==
  /\ registered \subseteq Subscriptions /\ closed \subseteq Subscriptions
  /\ \A s \in Subscriptions : /\ buffer[s] \in Seq(Messages) /\ Len(buffer[s]) <= BufferSize
                              /\ forwarder[s] \in Seq(Messages) /\ Len(forwarder[s]) <= 1
  /\ \A c \in Subscribers : /\ Len(merged[c]) <= BufferSize
                            /\ handler[c] \in {"subscribing", "serving", "leaving", "gone"}
  /\ changes \in Seq(Messages) /\ Len(changes) <= QueueSize
  /\ alive \subseteq Subscribers /\ stopped \in BOOLEAN /\ fallen \in BOOLEAN

(***************************************************************************)
(* A subscription that Publish can find has an open channel, and belongs   *)
(* to a handler that is still there: only a copy made before an            *)
(* Unsubscribe can lead to a send on a closed channel.                     *)
(***************************************************************************)
RegisteredOpen ==
  /\ registered \cap closed = {}
  /\ \A s \in registered : handler[s[1]] # "gone"

OneSource(n) ==
  \E ch \in Matching[n] : Matching[n] = {ch} /\ ~(ch \in Channels /\ ch \in Range(EventChannels))

(***************************************************************************)
(* On one channel, or a pattern that matches one, a client sees a          *)
(* publisher's messages in the order in which they were published, none of *)
(* them twice, and key events in the order of the changes, although they   *)
(* pass through a queue, a copied list of subscribers, two buffers and a   *)
(* goroutine.  (Clients that publish on a channel of key events are a      *)
(* second publisher there, and nothing orders the two.)                    *)
(***************************************************************************)
ToldInOrder ==
  \A c \in Subscribers : \A i, j \in DOMAIN told[c] :
    (i < j /\ told[c][i][1] = told[c][j][1] /\ OneSource(told[c][i][1]))
      => told[c][i][2] < told[c][j][2]

(***************************************************************************)
(* A message that a subscription has accepted reaches its client, unless   *)
(* the client leaves: nothing is lost behind the buffer.                   *)
(***************************************************************************)
AcceptedArrives ==
  \A s \in Subscriptions : \A m \in Messages :
    []<>(\/ <<s, m>> \notin accepted
         \/ <<s[2], m>> \in Range(told[s[1]])
         \/ s[1] \notin alive \/ fallen)

(***************************************************************************)
(* When a client leaves, all of its forwarding goroutines end, also those  *)
(* that hold a message nobody takes.                                       *)
(***************************************************************************)
ForwardersEnd ==
  \A s \in Subscriptions : []<>(s[1] \in alive \/ ~Running(s) \/ fallen)

(***************************************************************************)
(* Capacities, open channels for all that are registered, and the order in *)
(* which clients are told.                                                 *)
(***************************************************************************)
PubSubInv == PubSubTypeOK /\ RegisteredOpen /\ ToldInOrder

(***************************************************************************)
(* What was accepted arrives, and goroutines of clients that left end.     *)
(***************************************************************************)
PubSubLive == AcceptedArrives /\ ForwardersEnd
=============================================================================
