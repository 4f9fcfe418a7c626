----------------------------- MODULE MCServices -----------------------------
(***************************************************************************)
(* Small instances of the components that share no state: publish and      *)
(* subscribe, cluster membership, multi-master links, the rate limiter,   *)
(* the ring buffer, sorted sets and eviction.  A behaviour is one of one   *)
(* component ("part"); the others stay as they are.                        *)
(***************************************************************************)
EXTENDS PubSub, Cluster, MultiMaster, RateLimiter, Deque, SortedSet, Eviction, TLC

CONSTANT s1      \* a subscribing connection

MCNames == s1 :> <<"__keyspace__", "n*">>
MCMatching == ("__keyspace__" :> {"__keyspace__"}) @@ ("n*" :> {"news"})
MCNodeOrder == <<"a", "b", "c">>
MCServerAt == [a1 |-> "a", b1 |-> "b", b2 |-> "b", c1 |-> "c"]
MCOwnAddr == [a |-> "a1", b |-> "b1"]
MCStaticPeers == [a |-> <<"b1">>, b |-> <<"b2">>]

VARIABLE part    \* the component that runs

vars == <<part, pubsubVars, clusterVars, mmVars, rateVars, dequeVars, zsetVars, evictVars>>

Init ==
  /\ part \in {"pubsub", "cluster", "multimaster", "ratelimiter", "deque", "sortedset",
               "eviction"}
  /\ PubSubInit /\ ClusterInit /\ MultiMasterInit /\ RateInit /\ DequeInit
  /\ SortedSetInit /\ EvictionInit

Next ==
  /\ UNCHANGED part
  /\ \/ /\ part = "pubsub" /\ PubSubNext
        /\ UNCHANGED <<clusterVars, mmVars, rateVars, dequeVars, zsetVars, evictVars>>
     \/ /\ part = "cluster" /\ ClusterNext
        /\ UNCHANGED <<pubsubVars, mmVars, rateVars, dequeVars, zsetVars, evictVars>>
     \/ /\ part = "multimaster" /\ MultiMasterNext
        /\ UNCHANGED <<pubsubVars, clusterVars, rateVars, dequeVars, zsetVars, evictVars>>
     \/ /\ part = "ratelimiter" /\ RateNext
        /\ UNCHANGED <<pubsubVars, clusterVars, mmVars, dequeVars, zsetVars, evictVars>>
     \/ /\ part = "deque" /\ DequeNext
        /\ UNCHANGED <<pubsubVars, clusterVars, mmVars, rateVars, zsetVars, evictVars>>
     \/ /\ part = "sortedset" /\ SortedSetNext
        /\ UNCHANGED <<pubsubVars, clusterVars, mmVars, rateVars, dequeVars, evictVars>>
     \/ /\ part = "eviction" /\ EvictionNext
        /\ UNCHANGED <<pubsubVars, clusterVars, mmVars, rateVars, dequeVars, zsetVars>>

(***************************************************************************)
(* The fairness of each component, for the part that runs.                 *)
(***************************************************************************)
Runs(p, A) == part = p /\ A

Fairness ==
  /\ \A c \in Subscribers : /\ WF_pubsubVars(Runs("pubsub", ~fallen /\ HandlerStep(c)))
                            /\ WF_pubsubVars(Runs("pubsub", ~fallen /\ ConnDead(c)))
  /\ \A s \in Subscriptions : /\ WF_pubsubVars(Runs("pubsub", ~fallen /\ ForwarderStep(s)))
                              /\ WF_pubsubVars(Runs("pubsub", ~fallen /\ ForwarderEnds(s)))
  /\ \A n \in Viewers :
       /\ WF_clusterVars(Runs("cluster", pingPeers(n)))
       /\ \A m \in Nodes :
            WF_clusterVars(Runs("cluster", \E r \in flying[n] : r.id = m /\ PingLands(n, r)))
       /\ WF_clusterVars(Runs("cluster", MeetAnswered(n) \/ MeetTimesOut(n)))
  /\ \A l \in Loops : /\ WF_mmVars(Runs("multimaster", LoopStep(l)))
                      /\ WF_mmVars(Runs("multimaster", SendsSnapshot(l)))
  /\ \A n \in Masters : WF_mmVars(Runs("multimaster", StopperStep(n)))
  /\ WF_evictVars(Runs("eviction", LoopStepOfEviction))

Spec == Init /\ [][Next]_vars /\ Fairness
=============================================================================
