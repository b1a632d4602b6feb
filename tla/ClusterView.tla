------------------------------ MODULE ClusterView ------------------------------
(***************************************************************************)
(* cluster/manager/manager.go: how one running node follows the cluster.   *)
(*                                                                         *)
(* Three goroutines keep the node cache, gossip's peers and what the       *)
(* listeners are told up to date: watchDB, called for each change of the   *)
(* cluster database; updateClusterStatus, which polls gossip; and          *)
(* startHeartBeat, which starts gossip from what initListeners had read.   *)
(* The database, its watch and gossip are external: the watch may skip or  *)
(* repeat versions and may fail, gossip reports any status.                *)
(***************************************************************************)
EXTENDS Integers, Sequences, FiniteSets

CONSTANTS Self, Peers,
          Size,      \* Size of the cluster database, 0 if unlimited
          Events,    \* what may happen to the node
          MaxIndex,  \* bound on the versions of the database
          MaxFailures \* bound on the failures of the watch

Nodes == {Self} \cup Peers

ASSUME ViewAssumption ==
  /\ Self \notin Peers /\ IsFiniteSet(Peers) /\ Size \in Nat /\ MaxIndex \in Nat \ {0}
  /\ MaxFailures \in Nat
  /\ Events \subseteq {"read", "read error", "slow start", "disable", "rejoin",
                       "remove self"}

VARIABLES
  log,             \* the versions of the database: Status of each NodeEntry, or "absent"
  exited,          \* the process has called os.Exit or Fatal
  selfStatus,      \* selfNode.Status: DECOMMISSION or not
  watch, pos,      \* the watch of the key and the last version it has passed on
  failures,
  kvdbWatchIndex,
  wpc, wdb,        \* the running watchDB and the version it works on
  restart,         \* it starts a new watch when it returns
  nodeCache,       \* the Status of each cached node, or "absent"
  gossipPeers,     \* what gossip.UpdateCluster was told last
  heartbeat,
  gstat,           \* what gossip says of each peer
  vals, numNodes,  \* the gossipValues updateClusterStatus still has to process, how many it has
  nodeStatuses,
  gEnabled,
  told,            \* history: what the listeners were told last of a peer since it joined
  applied          \* history: the last version that watchDB has worked on

watching == <<watch, pos, failures, kvdbWatchIndex, wpc, wdb, restart, applied>>
polling == <<gstat, vals, numNodes, nodeStatuses, gEnabled>>
vars == <<log, exited, selfStatus, watching, nodeCache, gossipPeers, heartbeat, polling, told>>

Entries == {"absent", "none", "decommission"}
GossipStatus == {"UP", "DOWN", "MAINTENANCE", "SUSPECT"}
db == log[Len(log)]

TypeOK ==
  /\ log \in Seq([Nodes -> Entries]) /\ log # << >>
  /\ exited \in BOOLEAN /\ selfStatus \in {"OK", "DECOMMISSION"}
  /\ watch \in {"on", "failed", "off"} /\ pos \in 1..Len(log) /\ failures \in Nat
  /\ kvdbWatchIndex \in 0..Len(log) /\ applied \in 1..Len(log)
  /\ wpc \in {"idle", "marks", "blocked", "peers", "cache", "return"}
  /\ wdb \in [Nodes -> Entries] /\ restart \in BOOLEAN
  /\ nodeCache \in [Nodes -> {"absent", "NONE", "OK", "OFFLINE", "MAINTENANCE", "DECOMMISSION"}]
  /\ gossipPeers \subseteq Nodes /\ heartbeat \in {"starting", "running", "stopped"}
  /\ gstat \in [Peers -> GossipStatus] /\ vals \in [Nodes -> GossipStatus \cup {"done"}]
  /\ numNodes \in Nat
  /\ nodeStatuses \in [Peers -> {"unknown", "OK", "OFFLINE"}]
  /\ gEnabled \in BOOLEAN /\ told \in [Peers -> {"nothing", "Add", "Update"}]

getNonDecommisionedPeers(d) == {n \in Nodes : d[n] = "none"}

\* What initListeners leaves behind; updateClusterStatus polls once there is quorum.
Init ==
  /\ \E d \in [Nodes -> {"absent", "none"}] : d[Self] = "none" /\ log = <<d>>
  /\ exited = FALSE /\ selfStatus = "OK"
  /\ watch = "on" /\ pos = 1 /\ failures = 0 /\ kvdbWatchIndex = 1 /\ applied = 1
  /\ wpc = "idle" /\ wdb = log[1] /\ restart = FALSE
  /\ nodeCache = [n \in Nodes |-> IF n = Self THEN "OK"
                                  ELSE IF log[1][n] = "none" THEN "NONE" ELSE "absent"]
  /\ \/ heartbeat = "running" /\ gossipPeers = getNonDecommisionedPeers(log[1])
     \/ "slow start" \in Events /\ heartbeat = "starting" /\ gossipPeers = {}
  /\ gstat = [p \in Peers |-> "DOWN"] /\ vals = [n \in Nodes |-> "done"]
  /\ numNodes = 0
  /\ nodeStatuses = [p \in Peers |-> "unknown"] /\ gEnabled = TRUE
  /\ told = [p \in Peers |-> "nothing"]

-----------------------------------------------------------------------------
(* The cluster database, written by all nodes, and gossip                  *)

WriteDB(n, s) ==
  /\ ~exited /\ Len(log) < MaxIndex
  /\ log' = Append(log, [db EXCEPT ![n] = s])
  /\ UNCHANGED <<exited, watching, nodeCache, gossipPeers, heartbeat, polling>>

NodeJoins(p) ==
  /\ db[p] = "absent"
  /\ "rejoin" \in Events \/ \A i \in 1..Len(log) : log[i][p] = "absent"
  /\ WriteDB(p, "none")
  /\ told' = [told EXCEPT ![p] = "nothing"]
  /\ UNCHANGED selfStatus

NodeMarked(n) ==
  /\ db[n] = "none"
  /\ n = Self => "remove self" \in Events
  /\ WriteDB(n, "decommission")
  /\ \/ UNCHANGED selfStatus
     \/ n = Self /\ selfStatus' = "DECOMMISSION"   \* by this node's own Remove
  /\ UNCHANGED told

NodeDeleted(n) ==
  /\ db[n] = "decommission"
  /\ WriteDB(n, "absent")
  /\ UNCHANGED <<selfStatus, told>>

GossipChanges(p, s) ==
  /\ ~exited /\ gstat[p] # s
  /\ gstat' = [gstat EXCEPT ![p] = s]
  /\ UNCHANGED <<log, exited, selfStatus, watching, nodeCache, gossipPeers, heartbeat, vals,
                 numNodes, nodeStatuses, gEnabled, told>>

WatchFails ==
  /\ ~exited /\ watch = "on" /\ wpc = "idle" /\ failures < MaxFailures
  /\ watch' = "failed"
  /\ failures' = failures + 1
  /\ UNCHANGED <<log, exited, selfStatus, pos, kvdbWatchIndex, wpc, wdb, restart, applied,
                 nodeCache, gossipPeers, heartbeat, polling, told>>

-----------------------------------------------------------------------------
(* watchDB                                                                 *)

Process(v) ==
  /\ wdb' = log[v]
  /\ applied' = v
  /\ wpc' = "marks"

watchDB(v) ==
  /\ ~exited /\ watch = "on" /\ wpc = "idle" /\ v \in pos..Len(log)
  /\ pos' = v
  /\ \/ /\ \A n \in Nodes : log[v][n] = "absent"
        /\ exited' = TRUE
        /\ UNCHANGED <<kvdbWatchIndex, wpc, wdb, applied>>
     \/ /\ \E n \in Nodes : log[v][n] # "absent"
        /\ v <= kvdbWatchIndex
        /\ UNCHANGED <<exited, kvdbWatchIndex, wpc, wdb, applied>>
     \/ /\ \E n \in Nodes : log[v][n] # "absent"
        /\ v > kvdbWatchIndex
        /\ kvdbWatchIndex' = v
        /\ Process(v)
        /\ UNCHANGED exited
  /\ UNCHANGED <<log, selfStatus, watch, failures, restart, nodeCache, gossipPeers, heartbeat,
                 polling, told>>

\* Mutant: the index the watch had reached is not used.
FromNow(i) == Len(log)

\* WatchKey reports what is written after the given version, or from now on.
WatchFrom(i) == IF i = 0 THEN Len(log) ELSE i

\* The last call of a watch, with the error that ended it.
watchDBError ==
  /\ ~exited /\ watch = "failed" /\ wpc = "idle"
  /\ \/ /\ selfStatus = "DECOMMISSION"
        /\ watch' = "off"
        /\ UNCHANGED <<pos, kvdbWatchIndex, wpc, wdb, restart, applied>>
     \/ /\ selfStatus # "DECOMMISSION" /\ "read error" \in Events
        /\ watch' = "on" /\ pos' = WatchFrom(kvdbWatchIndex)
        /\ UNCHANGED <<kvdbWatchIndex, wpc, wdb, restart, applied>>
     \/ /\ selfStatus # "DECOMMISSION" /\ "read" \in Events
        /\ watch' = "off"
        /\ kvdbWatchIndex' = Len(log)
        /\ Process(Len(log))
        /\ restart' = TRUE
        /\ UNCHANGED pos
  /\ UNCHANGED <<log, exited, selfStatus, failures, nodeCache, gossipPeers, heartbeat, polling,
                 told>>

\* The listeners' UpdateCluster, then the decommissioned nodes in any order; the
\* node's own mark ends the loop, and the send on stopHeartbeat waits for its
\* receiver.
watchDBMarks ==
  LET marked == {n \in Nodes : /\ wdb[n] = "decommission"
                               /\ nodeCache[n] \notin {"absent", "DECOMMISSION"}} IN
  /\ ~exited /\ wpc = "marks"
  /\ \E S \in SUBSET marked :
       /\ S = marked \/ Self \in S
       /\ nodeCache' = [n \in Nodes |-> IF n \in S THEN "DECOMMISSION" ELSE nodeCache[n]]
       /\ wpc' = IF Self \in S THEN "blocked" ELSE "peers"
  /\ UNCHANGED <<log, exited, selfStatus, watch, pos, failures, kvdbWatchIndex, wdb, restart, applied,
                 gossipPeers, heartbeat, polling, told>>

\* The send is received and watchDB returns an error, so that the watch ends.
watchDBStops ==
  /\ ~exited /\ wpc = "blocked" /\ heartbeat = "running"
  /\ heartbeat' = "stopped"
  /\ wpc' = "return"
  /\ watch' = IF watch = "on" THEN "failed" ELSE watch
  /\ UNCHANGED <<log, exited, selfStatus, pos, failures, kvdbWatchIndex, wdb, restart, applied,
                 nodeCache, gossipPeers, polling, told>>

watchDBPeers ==
  /\ ~exited /\ wpc = "peers"
  /\ gossipPeers' = getNonDecommisionedPeers(wdb)
  /\ wpc' = "cache"
  /\ UNCHANGED <<log, exited, selfStatus, watch, pos, failures, kvdbWatchIndex, wdb, restart, applied,
                 nodeCache, heartbeat, polling, told>>

watchDBCache ==
  /\ ~exited /\ wpc = "cache"
  /\ nodeCache' = [n \in Nodes |-> IF wdb[n] = "absent" THEN "absent" ELSE nodeCache[n]]
  /\ wpc' = "return"
  /\ UNCHANGED <<log, exited, selfStatus, watch, pos, failures, kvdbWatchIndex, wdb, restart, applied,
                 gossipPeers, heartbeat, polling, told>>

\* Mutant: the watch goes on where it has failed.
WhereItFailed == pos

\* The deferred call is startClusterDBWatch(0).
DeferredIndex == WatchFrom(0)

watchDBReturns ==
  /\ ~exited /\ wpc = "return"
  /\ wpc' = "idle"
  /\ restart' = FALSE
  /\ IF restart
     THEN watch' = "on" /\ pos' = DeferredIndex /\ kvdbWatchIndex' = 0
     ELSE UNCHANGED <<watch, pos, kvdbWatchIndex>>
  /\ UNCHANGED <<log, exited, selfStatus, failures, wdb, applied, nodeCache, gossipPeers,
                 heartbeat, polling, told>>

-----------------------------------------------------------------------------
(* startHeartBeat and updateClusterStatus                                  *)

\* Gossip is started and told of the nodes initListeners had read.
startHeartBeat ==
  /\ ~exited /\ heartbeat = "starting"
  /\ heartbeat' = "running"
  /\ gossipPeers' = getNonDecommisionedPeers(log[1])
  /\ UNCHANGED <<log, exited, selfStatus, watching, nodeCache, polling, told>>

\* One round begins: the node's own state, then what gossip says of all nodes.
updateClusterStatus ==
  /\ ~exited /\ \A n \in Nodes : vals[n] = "done"
  /\ nodeCache' = [nodeCache EXCEPT ![Self] = selfStatus]
  /\ vals' = [n \in Nodes |-> IF n = Self THEN "UP"
                             ELSE IF n \in gossipPeers THEN gstat[n] ELSE "done"]
  /\ numNodes' = 0
  /\ UNCHANGED <<log, exited, selfStatus, watching, gossipPeers, heartbeat, gstat, nodeStatuses,
                 gEnabled, told>>

\* Mutant: only nodes that were never seen are reported.
NeverSeen(p, s) == nodeStatuses[p] = "unknown"

StatusChanged(p, s) == nodeStatuses[p] # s

Notify(p, s, call) ==
  IF StatusChanged(p, s)
  THEN /\ nodeStatuses' = [nodeStatuses EXCEPT ![p] = s]
       /\ told' = IF gEnabled THEN [told EXCEPT ![p] = call] ELSE told
  ELSE UNCHANGED <<nodeStatuses, told>>

\* Mutant: the status is only replaced where the listeners are told.
OfflineIfNew(p) == IF StatusChanged(p, "OFFLINE") THEN "OFFLINE" ELSE "OK"

CachedWhenDown(p) == "OFFLINE"

updatePeerStatus(p) ==
  \/ /\ vals[p] = "DOWN"
     /\ nodeCache' = [nodeCache EXCEPT ![p] = CachedWhenDown(p)]
     /\ Notify(p, "OFFLINE", "Update")
  \/ /\ vals[p] \in {"UP", "MAINTENANCE"}
     /\ nodeCache' = [nodeCache EXCEPT ![p] = IF vals[p] = "UP" THEN "OK" ELSE "MAINTENANCE"]
     /\ Notify(p, "OK", "Add")
  \/ /\ vals[p] = "SUSPECT"
     /\ \E s \in {"OK", "MAINTENANCE"} : nodeCache' = [nodeCache EXCEPT ![p] = s]
     /\ UNCHANGED <<nodeStatuses, told>>

\* The body of the loop for one node. What it does for the node itself is
\* modelled in SelfStatus.
updateNodeStatus(n) ==
  /\ ~exited /\ vals[n] # "done"
  /\ vals' = [vals EXCEPT ![n] = "done"]
  /\ numNodes' = numNodes + 1
  /\ \/ /\ Size > 0 /\ numNodes' > Size
        /\ exited' = TRUE
        /\ UNCHANGED <<nodeCache, nodeStatuses, told>>
     \/ /\ Size = 0 \/ numNodes' <= Size
        /\ IF n = Self THEN UNCHANGED <<nodeCache, nodeStatuses, told>> ELSE updatePeerStatus(n)
        /\ UNCHANGED exited
  /\ UNCHANGED <<log, selfStatus, watching, gossipPeers, heartbeat, gstat, gEnabled>>

EnableUpdates(e) ==
  /\ ~exited /\ "disable" \in Events /\ gEnabled # e
  /\ gEnabled' = e
  /\ UNCHANGED <<log, exited, selfStatus, watching, nodeCache, gossipPeers, heartbeat, gstat,
                 vals, numNodes, nodeStatuses, told>>

-----------------------------------------------------------------------------
WatchNext == \E v \in 1..MaxIndex : v > pos /\ watchDB(v)

WatchSteps ==
  \/ watchDBError \/ watchDBMarks \/ watchDBStops \/ watchDBPeers \/ watchDBCache
  \/ watchDBReturns

Next ==
  \/ \E n \in Nodes : NodeMarked(n) \/ NodeDeleted(n) \/ updateNodeStatus(n)
  \/ \E p \in Peers : NodeJoins(p)
                       \/ \E s \in GossipStatus : GossipChanges(p, s)
  \/ \E v \in 1..MaxIndex : watchDB(v)
  \/ WatchFails \/ WatchSteps
  \/ startHeartBeat \/ updateClusterStatus
  \/ \E e \in BOOLEAN : EnableUpdates(e)

Spec == Init /\ [][Next]_vars

-----------------------------------------------------------------------------
(* Properties                                                              *)

\* No version of the database is applied after a later one, although the
\* watch fails and is started again with kvdbWatchIndex set back.
VersionsInOrder == [][applied' >= applied]_vars

\* Once the database changes no more, gossip has the nodes of its last version
\* as peers, unless the node itself was removed.
GossipConverges ==
  <>[](exited \/ heartbeat = "stopped" \/ gossipPeers = getNonDecommisionedPeers(db))

\* The listeners are told of a node that joins and stays reachable.
JoinIsNotified ==
  \A p \in Peers :
    (db[p] = "none" /\ gstat[p] = "UP")
      ~> (told[p] = "Add" \/ db[p] # "none" \/ gstat[p] # "UP" \/ exited)

\* A peer that gossip reports down is offline in the cache after the next round:
\* Remove relies on it.
DownIsCached ==
  \A p \in Peers :
    (p \in gossipPeers /\ gstat[p] = "DOWN")
      ~> (nodeCache[p] = "OFFLINE" \/ p \notin gossipPeers \/ gstat[p] # "DOWN" \/ exited)
=============================================================================
