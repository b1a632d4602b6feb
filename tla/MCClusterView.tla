---------------------------- MODULE MCClusterView ----------------------------
(* One node and its peers in two environments.  In the harsh one everything in *)
(* Events happens and the database is full with Size nodes.  In the calm one   *)
(* the watch fails and its re-read fails with it, and nothing else goes wrong: *)
(* there the goroutines are expected to get somewhere.                         *)
EXTENDS ClusterView

VARIABLE calm    \* the environment, which never changes

Calm == INSTANCE ClusterView WITH Events <- {"read error"}, Size <- 0, MaxIndex <- 3

MCInit == calm \in BOOLEAN /\ IF calm THEN Calm!Init ELSE Init

MCNext == UNCHANGED calm /\ IF calm THEN Calm!Next ELSE Next

\* The goroutines run, and the store passes new versions on.
MCSpec ==
  /\ MCInit /\ [][MCNext]_<<vars, calm>>
  /\ WF_vars(calm /\ Calm!WatchNext) /\ WF_vars(calm /\ Calm!WatchSteps)
  /\ WF_vars(calm /\ Calm!startHeartBeat) /\ WF_vars(calm /\ Calm!updateClusterStatus)
  /\ \A n \in Nodes : WF_vars(calm /\ Calm!updateNodeStatus(n))

\* Once the database changes no more, gossip has the nodes of its last version
\* as peers, unless the node itself was removed (watchDB, UpdateCluster).
CalmGossipConverges == calm => GossipConverges

\* The listeners are told of a node that joins and stays reachable
\* (updateClusterStatus, listener.Add).
CalmJoinIsNotified == calm => JoinIsNotified

\* A peer that gossip reports down is offline in the cache after the next round
\* of updateClusterStatus: Remove relies on it.
CalmDownIsCached == calm => DownIsCached
=============================================================================
