------------------------ MODULE ClusterManagerProofs ------------------------
(***************************************************************************)
(* Proofs about the parts of cluster/manager, for constants of any size:   *)
(*   ClusterView        the versions of the database are applied in order; *)
(*   ClusterPair        the default id names an existing pair, as long as  *)
(*                      it can be read;                                    *)
(*   ClusterMembership  marked nodes stay out, and every entry is the one  *)
(*                      of a node whose listeners are initialised.         *)
(* Each has its own specification, variables and invariant.                *)
(***************************************************************************)
EXTENDS ClusterView, ClusterPair, ClusterMembership, TLAPS

\* A watch that is on has passed what was applied, and so has the index it
\* would be restarted with, unless that is "from now on".
WatchIsAhead ==
  /\ watch = "on" => applied <= pos
  /\ kvdbWatchIndex # 0 => applied <= kvdbWatchIndex

\* The inductive invariant.
ViewInv == TypeOK /\ WatchIsAhead

\* A step that leaves the variables of the watch alone keeps it ahead.
LEMMA SameWatch == WatchIsAhead /\ UNCHANGED watching => WatchIsAhead'
  BY DEF WatchIsAhead, watching

\* The watch starts with the version that the node was started from.
LEMMA InitInv == Init => ViewInv
<1> SUFFICES ASSUME Init PROVE ViewInv
    OBVIOUS
<1>1. PICK d \in [Nodes -> {"absent", "none"}] : log = <<d>>
      BY Zenon DEF Init
<1>2. log \in Seq([Nodes -> Entries]) /\ Len(log) = 1 /\ log[1] = d
      BY <1>1 DEF Entries
<1>3. Peers \subseteq Nodes /\ gossipPeers \subseteq Nodes
      BY Zenon DEF Init, Nodes, getNonDecommisionedPeers
<1>4. nodeCache \in [Nodes -> {"absent", "NONE", "OK", "OFFLINE", "MAINTENANCE", "DECOMMISSION"}]
      BY Zenon DEF Init
<1>5. wdb \in [Nodes -> Entries]
      BY <1>1, <1>2, Zenon DEF Init, Entries
<1>6. pos = 1 /\ kvdbWatchIndex = 1 /\ applied = 1 /\ failures = 0 /\ numNodes = 0
      BY Zenon DEF Init
<1>7. pos \in 1..Len(log) /\ kvdbWatchIndex \in 0..Len(log) /\ applied \in 1..Len(log)
      BY <1>2, <1>6
<1>8. log # << >>
      BY <1>1
<1>9. /\ exited \in BOOLEAN /\ selfStatus \in {"OK", "DECOMMISSION"}
      /\ watch \in {"on", "failed", "off"} /\ restart \in BOOLEAN
      /\ wpc \in {"idle", "marks", "blocked", "peers", "cache", "return"}
      /\ heartbeat \in {"starting", "running", "stopped"} /\ gEnabled \in BOOLEAN
      BY Zenon DEF Init
<1>10. /\ gstat \in [Peers -> GossipStatus] /\ vals \in [Nodes -> GossipStatus \cup {"done"}]
       /\ nodeStatuses \in [Peers -> {"unknown", "OK", "OFFLINE"}]
       /\ told \in [Peers -> {"nothing", "Add", "Update"}]
      BY Zenon DEF Init, GossipStatus
<1>11. failures \in Nat /\ numNodes \in Nat
      BY <1>6
<1>12. TypeOK
      BY <1>2, <1>3, <1>4, <1>5, <1>7, <1>8, <1>9, <1>10, <1>11, SMTT(60) DEF TypeOK
<1>13. QED
      BY <1>6, <1>12 DEF ViewInv, WatchIsAhead

\* A write of the database leaves all but the log as it is.
LEMMA WriteStep ==
  ASSUME ViewInv, NEW n \in Nodes, NEW s \in Entries, WriteDB(n, s),
         selfStatus' \in {"OK", "DECOMMISSION"}, told' \in [Peers -> {"nothing", "Add", "Update"}]
  PROVE  ViewInv' /\ applied' = applied
<1>1. log \in Seq([Nodes -> Entries]) /\ log # << >> /\ Len(log) \in Nat \ {0}
      BY DEF ViewInv, TypeOK
<1>2. db \in [Nodes -> Entries]
      BY <1>1 DEF db
<1>3. [db EXCEPT ![n] = s] \in [Nodes -> Entries]
      BY <1>2
<1>4. log' \in Seq([Nodes -> Entries]) /\ log' # << >> /\ Len(log') = Len(log) + 1
      BY <1>1, <1>3, SMTT(60) DEF WriteDB
<1>5. TypeOK'
      BY <1>1, <1>4 DEF ViewInv, TypeOK, WriteDB, watching, polling
<1>6. QED
      BY <1>5 DEF ViewInv, WatchIsAhead, WriteDB, watching

\* The steps of the watch.
LEMMA WatchStep ==
  ASSUME ViewInv, \/ \E v \in 1..MaxIndex : watchDB(v)
                  \/ WatchFails \/ WatchSteps
  PROVE  ViewInv' /\ applied' >= applied
<1>1. log \in Seq([Nodes -> Entries]) /\ Len(log) \in Nat \ {0} /\ TypeOK
      BY SMTT(60) DEF ViewInv, TypeOK
<1>2. CASE \E v \in 1..MaxIndex : watchDB(v)
  <2>1. PICK v \in 1..MaxIndex : watchDB(v)
        BY <1>2
  <2>2. v \in 1..Len(log) /\ log[v] \in [Nodes -> Entries] /\ pos <= v /\ v <= Len(log)
        BY <1>1, <2>1, SMTT(60) DEF TypeOK, watchDB
  <2>3. /\ pos' \in 1..Len(log) /\ kvdbWatchIndex' \in 0..Len(log) /\ applied' \in 1..Len(log)
        BY <1>1, <2>1, <2>2, SMTT(60) DEF TypeOK, watchDB, Process
  <2>4. wdb' \in [Nodes -> Entries] /\ exited' \in BOOLEAN
        BY <1>1, <2>1, <2>2, ZenonT(60) DEF TypeOK, watchDB, Process
  <2>5. wpc' \in {"idle", "marks", "blocked", "peers", "cache", "return"}
        BY <1>1, <2>1, Zenon DEF TypeOK, watchDB, Process
  <2>6. UNCHANGED <<log, selfStatus, watch, failures, restart, nodeCache, gossipPeers, heartbeat,
                    polling, told>>
        BY <2>1, Zenon DEF watchDB
  <2>7. TypeOK'
        BY <1>1, <2>3, <2>4, <2>5, <2>6, SMTT(60) DEF TypeOK, polling
  <2>8. v \in Nat /\ pos \in Nat /\ kvdbWatchIndex \in Nat /\ applied \in Nat
        BY <1>1, <2>2 DEF TypeOK
  <2>9. WatchIsAhead' /\ applied' >= applied
        BY <2>1, <2>2, <2>8 DEF ViewInv, WatchIsAhead, watchDB, Process
  <2>10. QED
        BY <2>7, <2>9, Zenon DEF ViewInv
<1>3. CASE WatchFails
      BY <1>1, <1>3 DEF ViewInv, WatchIsAhead, TypeOK, WatchFails, polling
<1>4. CASE watchDBError
  <2>1. log[Len(log)] \in [Nodes -> Entries]
        BY <1>1
  <2>2. /\ pos' \in 1..Len(log) /\ kvdbWatchIndex' \in 0..Len(log) /\ applied' \in 1..Len(log)
        /\ applied' >= applied
    <3>1. CASE UNCHANGED <<pos, kvdbWatchIndex, applied>>
          BY <1>1, <3>1, SMTT(60) DEF TypeOK
    <3>2. CASE pos' = WatchFrom(kvdbWatchIndex) /\ UNCHANGED <<kvdbWatchIndex, applied>>
          BY <1>1, <3>2, SMTT(60) DEF TypeOK, WatchFrom
    <3>3. CASE UNCHANGED pos /\ kvdbWatchIndex' = Len(log) /\ applied' = Len(log)
          BY <1>1, <3>3, SMTT(60) DEF TypeOK
    <3>4. QED
          BY <1>4, <3>1, <3>2, <3>3, Zenon DEF watchDBError, Process
  <2>3. wdb' \in [Nodes -> Entries] /\ restart' \in BOOLEAN /\ watch' \in {"on", "off"}
        BY <1>1, <1>4, <2>1, Zenon DEF TypeOK, watchDBError, Process
  <2>4. wpc' \in {"idle", "marks", "blocked", "peers", "cache", "return"}
        BY <1>1, <1>4, Zenon DEF TypeOK, watchDBError, Process
  <2>5. UNCHANGED <<log, exited, selfStatus, failures, nodeCache, gossipPeers, heartbeat,
                    polling, told>>
        BY <1>4, ZenonT(60) DEF watchDBError
  <2>6. TypeOK'
        BY <1>1, <2>2, <2>3, <2>4, <2>5, SMTT(60) DEF TypeOK, polling
  <2>7. WatchIsAhead'
    <3>1. CASE selfStatus = "DECOMMISSION" /\ watch' = "off"
               /\ UNCHANGED <<pos, kvdbWatchIndex, wpc, wdb, restart, applied>>
          BY <3>1, SMTT(60) DEF ViewInv, WatchIsAhead
    <3>2. CASE pos' = WatchFrom(kvdbWatchIndex) /\ UNCHANGED <<kvdbWatchIndex, applied>>
          BY <1>1, <3>2 DEF ViewInv, WatchIsAhead, TypeOK, WatchFrom
    <3>3. CASE watch' = "off" /\ kvdbWatchIndex' = Len(log) /\ applied' = Len(log)
          BY <1>1, <3>3, SMTT(60) DEF WatchIsAhead
    <3>4. QED
          BY <1>4, <3>1, <3>2, <3>3, Zenon DEF watchDBError, Process
  <2>8. QED
        BY <2>2, <2>6, <2>7, SMTT(60) DEF ViewInv
<1>5. CASE watchDBMarks
      BY <1>1, <1>5, SMTT(60) DEF ViewInv, WatchIsAhead, TypeOK, watchDBMarks, polling
<1>6. CASE watchDBStops
      BY <1>1, <1>6, SMTT(60) DEF ViewInv, WatchIsAhead, TypeOK, watchDBStops, polling
<1>7. CASE watchDBPeers
      BY <1>1, <1>7, SMTT(60) DEF ViewInv, WatchIsAhead, TypeOK, watchDBPeers, getNonDecommisionedPeers,
                        polling
<1>8. CASE watchDBCache
      BY <1>1, <1>8, SMTT(60) DEF ViewInv, WatchIsAhead, TypeOK, watchDBCache, polling
<1>9. CASE watchDBReturns
  <2>1. /\ pos' \in 1..Len(log) /\ kvdbWatchIndex' \in 0..Len(log) /\ applied' = applied
        /\ watch' \in {"on", "failed", "off"} /\ wpc' = "idle" /\ restart' = FALSE
        BY <1>1, <1>9 DEF TypeOK, watchDBReturns, DeferredIndex, WatchFrom
  <2>2. UNCHANGED <<log, exited, selfStatus, failures, wdb, nodeCache, gossipPeers, heartbeat,
                    polling, told>>
        BY <1>9 DEF watchDBReturns
  <2>3. TypeOK'
        BY <1>1, <2>1, <2>2, ZenonT(60) DEF TypeOK, polling
  <2>4. WatchIsAhead'
        BY <1>1, <1>9 DEF ViewInv, WatchIsAhead, TypeOK, watchDBReturns, DeferredIndex, WatchFrom
  <2>5. QED
        BY <1>1, <2>1, <2>3, <2>4, SMTT(60) DEF ViewInv, TypeOK
<1>10. QED
      BY <1>2, <1>3, <1>4, <1>5, <1>6, <1>7, <1>8, <1>9, SMTT(60) DEF WatchSteps

\* The steps of the other two goroutines and of gossip leave the watch alone.
LEMMA PollStep ==
  ASSUME ViewInv,
         \/ \E p \in Peers, s \in GossipStatus : GossipChanges(p, s)
         \/ \E n \in Nodes : updateNodeStatus(n)
         \/ startHeartBeat \/ updateClusterStatus
         \/ \E e \in BOOLEAN : EnableUpdates(e)
  PROVE  ViewInv' /\ applied' = applied
<1>1. TypeOK /\ log \in Seq([Nodes -> Entries]) /\ Len(log) \in Nat \ {0}
      BY SMTT(60) DEF ViewInv, TypeOK
<1>2. CASE \E p \in Peers, s \in GossipStatus : GossipChanges(p, s)
  <2>1. PICK p \in Peers, s \in GossipStatus : GossipChanges(p, s)
        BY <1>2, Zenon
  <2>2. gstat' \in [Peers -> GossipStatus]
        BY <1>1, <2>1, Zenon DEF TypeOK, GossipChanges
  <2>3. TypeOK' /\ UNCHANGED watching
        BY <1>1, <2>1, <2>2, ZenonT(60) DEF TypeOK, GossipChanges, watching
  <2>4. QED
        BY <2>3, SameWatch, Zenon DEF ViewInv, watching
<1>3. CASE \E n \in Nodes : updateNodeStatus(n)
  <2>1. PICK n \in Nodes : updateNodeStatus(n)
        BY <1>3
  <2>2. n # Self => n \in Peers
        BY DEF Nodes
  <2>3. /\ nodeStatuses' \in [Peers -> {"unknown", "OK", "OFFLINE"}]
        /\ told' \in [Peers -> {"nothing", "Add", "Update"}]
        BY <1>1, <2>1, <2>2, ZenonT(60) DEF TypeOK, updateNodeStatus, updatePeerStatus, Notify
  <2>4. nodeCache' \in [Nodes -> {"absent", "NONE", "OK", "OFFLINE", "MAINTENANCE",
                                  "DECOMMISSION"}]
    <3>1. UNCHANGED nodeCache \/ \E s \in {"OFFLINE", "OK", "MAINTENANCE"} :
                                  nodeCache' = [nodeCache EXCEPT ![n] = s]
          BY <2>1, Zenon DEF updateNodeStatus, updatePeerStatus, CachedWhenDown
    <3>2. QED
          BY <1>1, <3>1, SMTT(60) DEF TypeOK
  <2>5. numNodes' \in Nat /\ vals' \in [Nodes -> GossipStatus \cup {"done"}]
        BY <1>1, <2>1 DEF TypeOK, updateNodeStatus
  <2>6. /\ UNCHANGED <<log, selfStatus, watching, gossipPeers, heartbeat, gstat, gEnabled>>
        /\ exited' \in BOOLEAN
        BY <1>1, <2>1, ZenonT(60) DEF TypeOK, updateNodeStatus
  <2>7. QED
        BY <1>1, <2>3, <2>4, <2>5, <2>6, ZenonT(60) DEF ViewInv, WatchIsAhead, TypeOK, watching
<1>4. CASE startHeartBeat
      BY <1>1, <1>4, ZenonT(60) DEF ViewInv, WatchIsAhead, TypeOK, startHeartBeat, getNonDecommisionedPeers,
                        watching, polling
<1>5. CASE updateClusterStatus
  <2>1. vals' \in [Nodes -> GossipStatus \cup {"done"}]
        BY <1>1, <1>5, Zenon DEF TypeOK, updateClusterStatus, Nodes, GossipStatus
  <2>2. /\ nodeCache' \in [Nodes -> {"absent", "NONE", "OK", "OFFLINE", "MAINTENANCE",
                                     "DECOMMISSION"}]
        /\ numNodes' = 0
        BY <1>1, <1>5, ZenonT(60) DEF TypeOK, updateClusterStatus
  <2>3. UNCHANGED <<log, exited, selfStatus, watching, gossipPeers, heartbeat, gstat,
                    nodeStatuses, gEnabled, told>>
        BY <1>5, Zenon DEF updateClusterStatus
  <2>4. QED
        BY <1>1, <2>1, <2>2, <2>3, SMTT(60) DEF ViewInv, WatchIsAhead, TypeOK, watching
<1>6. CASE \E e \in BOOLEAN : EnableUpdates(e)
  <2>1. PICK e \in BOOLEAN : EnableUpdates(e)
        BY <1>6, Zenon
  <2>2. TypeOK' /\ UNCHANGED watching
        BY <1>1, <2>1, ZenonT(60) DEF TypeOK, EnableUpdates, watching
  <2>3. QED
        BY <2>2, SameWatch, Zenon DEF ViewInv, watching
<1>7. QED
      BY <1>2, <1>3, <1>4, <1>5, <1>6, SMTT(60)

\* Every step keeps the invariant and applies no earlier version.
LEMMA NextStep == ViewInv /\ [Next]_vars => ViewInv' /\ (applied' >= applied)
<1> SUFFICES ASSUME ViewInv, [Next]_vars PROVE ViewInv' /\ applied' >= applied
    BY SMTT(60)
<1>1. applied \in Nat /\ TypeOK
      BY SMTT(60) DEF ViewInv, TypeOK
<1>2. CASE UNCHANGED vars
  <2>1. TypeOK' /\ UNCHANGED watching
        BY <1>1, <1>2, ZenonT(60) DEF TypeOK, vars, watching, polling
  <2>2. ViewInv' /\ applied' = applied
        BY <2>1, SameWatch, Zenon DEF ViewInv, watching
  <2>3. QED
        BY <1>1, <2>2
<1>3. ASSUME NEW n \in Nodes, NodeMarked(n) \/ NodeDeleted(n)
      PROVE  ViewInv' /\ applied' = applied
  <2>1. CASE NodeMarked(n)
        BY <1>1, <2>1, WriteStep, Zenon DEF NodeMarked, TypeOK, Entries
  <2>2. CASE NodeDeleted(n)
        BY <1>1, <2>2, WriteStep, SMTT(60) DEF NodeDeleted, TypeOK, Entries
  <2>3. QED
        BY <1>3, <2>1, <2>2
<1>4. ASSUME NEW p \in Peers, NodeJoins(p)
      PROVE  ViewInv' /\ applied' = applied
      BY <1>1, <1>4, WriteStep, Zenon DEF NodeJoins, TypeOK, Entries, Nodes
<1>5. QED
      BY <1>1, <1>2, <1>3, <1>4, WatchStep, PollStep DEF Next

\* Every variable keeps its type.
THEOREM TypeCorrect == Spec => []TypeOK
<1>1. ViewInv => TypeOK
      BY DEF ViewInv
<1>2. QED
      BY InitInv, NextStep, <1>1, PTL DEF Spec

\* The inductive invariant of the watch.
THEOREM ViewInvariant == Spec => []ViewInv
<1>1. QED
      BY InitInv, NextStep, PTL DEF Spec

\* watchDB never applies a version of the database after a later one, for any
\* number of versions and of failures of the watch.
THEOREM VersionsInOrderHolds == Spec => VersionsInOrder
<1>1. ViewInv /\ [Next]_vars => [applied' >= applied]_vars
      BY NextStep
<1>2. QED
      BY <1>1, ViewInvariant, PTL DEF Spec, VersionsInOrder

-----------------------------------------------------------------------------
(* ClusterPair: requests that work on the pairs under one lock.            *)

Locked == {"creating", "set default", "deleting", "delete pair", "updating"}

\* A request in a locked stage holds the lock; its pair exists before it becomes
\* the default, and is not the default any more before it is deleted.
UnderLock ==
  \A p \in Procs :
    /\ stage[p] \in Locked => lock = p
    /\ stage[p] = "set default" => PairExists(req[p].id)
    /\ stage[p] = "delete pair" => defaultId # req[p].id

\* The inductive invariant.
PairInv == PairTypeOK /\ DefaultExists /\ UnderLock

\* No request and no pair at first.
LEMMA PairInitInv == ASSUME PairConstants PROVE PairInit => PairInv
<1> SUFFICES ASSUME PairInit PROVE PairInv
    OBVIOUS
<1>1. req \in [Procs -> Requests]
      BY DEF PairInit
<1>2. resets \in 0..MaxResets
  <2>1. resets = 0
        BY DEF PairInit
  <2>2. MaxResets \in Nat
        BY PairConstants, Zenon DEF PairConstants
  <2>3. QED
        BY <2>1, <2>2
<1>3. PairTypeOK
      BY <1>1, <1>2, SMTT(60) DEF PairInit, PairTypeOK, Stages
<1>4. DefaultExists /\ UnderLock
      BY SMTT(60) DEF PairInit, DefaultExists, UnderLock, Locked
<1>5. QED
      BY <1>3, <1>4 DEF PairInv

\* A request that is given the lock.
LEMMA LockStep ==
  ASSUME PairConstants, PairInv, NEW p \in Procs, NEW l,
         NEW m \in {"creating", "deleting", "updating"}, Lock(p, l, m)
  PROVE  PairInv'
<1>1. PairTypeOK /\ lock = None /\ \A q \in Procs : stage[q] \notin Locked
      BY PairConstants, Zenon DEF PairConstants, PairInv, UnderLock, Lock
<1>2. PairTypeOK'
      BY <1>1, Zenon DEF PairTypeOK, Lock, Goto, Stages, tokens
<1>3. UnderLock'
      BY <1>1, ZenonT(60) DEF PairTypeOK, UnderLock, Lock, Goto, Locked, PairExists
<1>4. QED
      BY <1>2, <1>3 DEF PairInv, DefaultExists, Lock, PairExists

\* A request that reaches an unlocked stage and writes nothing.
LEMMA UnlockedStep ==
  ASSUME PairConstants, PairInv, NEW p \in Procs, stage[p] \notin Locked, PairTypeOK',
         UNCHANGED <<pairs, defaultId, lock>>, stage'[p] \notin Locked,
         \A q \in Procs \ {p} : stage'[q] = stage[q] /\ req'[q] = req[q]
  PROVE  PairInv'
<1>1. UnderLock'
      BY Zenon DEF PairInv, UnderLock, Locked, PairExists
<1>2. QED
      BY <1>1 DEF PairInv, DefaultExists, PairExists

\* A creation: the pair is written, then the default if there is none.
LEMMA PairCreateStep ==
  ASSUME PairConstants, PairInv, NEW p \in Procs, pairCreate(p) \/ pairCreateDefault(p),
         "get default" \notin Failing
  PROVE  PairInv'
<1>1. PairTypeOK /\ lock = p /\ \A q \in Procs \ {p} : stage[q] \notin Locked
      BY Zenon DEF PairInv, UnderLock, pairCreate, pairCreateDefault, Locked
<1>2. req[p] \in Requests /\ req[p].id \in Clusters /\ req[p].info \in Infos
      BY <1>1, Zenon DEF PairTypeOK, Requests
<1>3. NoPair \notin Infos
      BY PairConstants, Zenon DEF PairConstants, Infos
<1>4. CASE pairCreate(p)
  <2>1. pairs' \in [Clusters -> Infos \cup {NoPair}] /\ UNCHANGED <<defaultId, req, tokens>>
        BY <1>1, <1>2, <1>4, Zenon DEF PairTypeOK, pairCreate
  <2>2. /\ stage' \in [Procs -> Stages] /\ lock' \in Procs \cup {None}
        /\ \A q \in Procs \ {p} : stage'[q] = stage[q]
        /\ (stage'[p] = "set default" /\ lock' = p) \/ stage'[p] = "idle"
        BY <1>1, <1>4, Zenon DEF PairTypeOK, pairCreate, Goto, Return, Stages
  <2>3. PairTypeOK'
        BY <1>1, <2>1, <2>2, ZenonT(60) DEF PairTypeOK, tokens
  <2>4. \A c \in Clusters : PairExists(c) => PairExists(c)'
        BY <1>1, <1>2, <1>3, <1>4, ZenonT(60) DEF PairTypeOK, pairCreate, PairExists
  <2>5. stage'[p] = "set default" => pairs'[req[p].id] # NoPair
        BY <1>1, <1>2, <1>3, <1>4, ZenonT(60) DEF PairTypeOK, pairCreate, PairExists, Goto, Return
  <2>6. UnderLock'
        BY <1>1, <1>2, <2>1, <2>2, <2>5, Zenon DEF UnderLock, Locked, PairExists
  <2>7. DefaultExists'
        BY <1>1, <2>1, <2>4, Zenon DEF PairInv, DefaultExists, PairTypeOK, PairExists
  <2>8. QED
        BY <2>3, <2>6, <2>7, Zenon DEF PairInv
<1>5. CASE pairCreateDefault(p)
  <2>1. pairs[req[p].id] # NoPair
        BY <1>5, Zenon DEF PairInv, UnderLock, pairCreateDefault, PairExists
  <2>2. defaultId' \in {defaultId, req[p].id} /\ UNCHANGED <<pairs, req, tokens>>
        BY <1>5, Zenon DEF pairCreateDefault
  <2>3. stage' = [stage EXCEPT ![p] = "idle"] /\ lock' = None
        BY <1>5, Zenon DEF pairCreateDefault, Return, Goto
  <2>4. PairTypeOK'
        BY <1>1, <1>2, <2>2, <2>3, ZenonT(60) DEF PairTypeOK, tokens, Stages
  <2>5. DefaultExists'
        BY <2>1, <2>2, Zenon DEF PairInv, DefaultExists, PairExists
  <2>6. UnderLock'
        BY <1>1, <2>2, <2>3, ZenonT(60) DEF UnderLock, Locked, PairTypeOK
  <2>7. QED
        BY <2>4, <2>5, <2>6, ZenonT(60) DEF PairInv
<1>6. QED
      BY <1>4, <1>5, Zenon

\* A deletion: the default moves to another pair, then the pair goes.
LEMMA PairDeleteStep ==
  ASSUME PairConstants, PairInv, NEW p \in Procs, pairDeleteDefault(p) \/ pairDelete(p),
         "get default" \notin Failing
  PROVE  PairInv'
<1>1. PairTypeOK /\ lock = p /\ \A q \in Procs \ {p} : stage[q] \notin Locked
      BY Zenon DEF PairInv, UnderLock, pairDeleteDefault, pairDelete, Locked
<1>2. req[p] \in Requests /\ req[p].id \in Clusters
      BY <1>1, ZenonT(60) DEF PairTypeOK, Requests
<1>3. CASE pairDeleteDefault(p)
  <2>1. /\ stage'[p] = "delete pair" => defaultId' # req[p].id
        /\ defaultId' \in {defaultId, None} \/ defaultId' \in OtherPairs(req[p].id)
    <3>1. CASE defaultId # req[p].id /\ UNCHANGED defaultId
          BY <3>1, Zenon
    <3>2. CASE defaultId' \in OtherPairs(req[p].id)
          BY <3>2, Zenon DEF OtherPairs
    <3>3. CASE defaultId' = None
          BY <1>2, <3>3, PairConstants, Zenon DEF PairConstants
    <3>4. CASE Return(p) /\ UNCHANGED defaultId
          BY <1>1, <3>4, ZenonT(60) DEF Return, Goto, PairTypeOK
    <3>5. QED
          BY <1>3, <3>1, <3>2, <3>3, <3>4, Zenon DEF pairDeleteDefault, NoDefault, May
  <2>2. /\ (stage' = [stage EXCEPT ![p] = "delete pair"] /\ lock' = lock)
             \/ (stage' = [stage EXCEPT ![p] = "idle"] /\ lock' = None)
        /\ UNCHANGED <<pairs, req, tokens>>
        BY <1>3, Zenon DEF pairDeleteDefault, Return, Goto
  <2>3. PairTypeOK'
        BY <1>1, <2>1, <2>2, ZenonT(60) DEF PairTypeOK, tokens, Stages, OtherPairs
  <2>4. DefaultExists'
        BY <2>1, <2>2, Zenon DEF PairInv, DefaultExists, PairExists, OtherPairs
  <2>5. UnderLock'
    <3>1. /\ \A q \in Procs \ {p} : stage'[q] = stage[q]
          /\ (stage'[p] = "delete pair" /\ lock' = p) \/ stage'[p] = "idle"
          BY <1>1, <2>2, ZenonT(60) DEF PairTypeOK
    <3>2. QED
          BY <1>1, <2>1, <2>2, <3>1, Zenon DEF UnderLock, Locked
  <2>6. QED
        BY <2>3, <2>4, <2>5, Zenon DEF PairInv
<1>4. CASE pairDelete(p)
  <2>1. defaultId # req[p].id
        BY <1>4, Zenon DEF PairInv, UnderLock, pairDelete
  <2>2. /\ stage' = [stage EXCEPT ![p] = "idle"] /\ lock' = None
        /\ UNCHANGED <<defaultId, req, tokens>>
        BY <1>4, Zenon DEF pairDelete, Return, Goto
  <2>3. /\ pairs' \in [Clusters -> Infos \cup {NoPair}]
        /\ \A c \in Clusters \ {req[p].id} : pairs'[c] = pairs[c]
        BY <1>1, <1>2, <1>4, Zenon DEF PairTypeOK, pairDelete
  <2>4. PairTypeOK'
        BY <1>1, <2>2, <2>3, ZenonT(60) DEF PairTypeOK, tokens, Stages
  <2>5. DefaultExists'
        BY <1>1, <2>1, <2>2, <2>3, Zenon DEF PairInv, DefaultExists, PairExists, PairTypeOK
  <2>6. UnderLock'
        BY <1>1, <2>2, Zenon DEF UnderLock, Locked, PairTypeOK
  <2>7. QED
        BY <2>4, <2>5, <2>6, Zenon DEF PairInv
<1>5. QED
      BY <1>3, <1>4, Zenon

\* An update writes a pair that exists.
LEMMA PairUpdateStep ==
  ASSUME PairConstants, PairInv, NEW p \in Procs, pairUpdate(p)
  PROVE  PairInv'
<1>1. PairTypeOK /\ lock = p /\ \A q \in Procs \ {p} : stage[q] \notin Locked
      BY Zenon DEF PairInv, UnderLock, pairUpdate, Locked
<1>2. req[p].id \in Clusters /\ req[p].info \in Infos /\ NoPair \notin Infos
      BY <1>1, PairConstants, ZenonT(60) DEF PairConstants, PairTypeOK, Requests, Infos
<1>3. /\ stage' = [stage EXCEPT ![p] = "idle"] /\ lock' = None
      /\ UNCHANGED <<defaultId, req, tokens>>
      BY Zenon  DEF pairUpdate, Return, Goto
<1>4. /\ pairs' \in [Clusters -> Infos \cup {NoPair}]
      /\ \A c \in Clusters : pairs[c] # NoPair => pairs'[c] # NoPair
      BY <1>1, <1>2, SMTT(60) DEF PairTypeOK, pairUpdate
<1>5. PairTypeOK'
      BY <1>1, <1>3, <1>4, ZenonT(60) DEF PairTypeOK, tokens, Stages
<1>6. DefaultExists'
      BY <1>1, <1>3, <1>4, Zenon DEF PairInv, DefaultExists, PairExists, PairTypeOK
<1>7. UnderLock'
      BY <1>1, <1>3, ZenonT(60) DEF UnderLock, Locked, PairTypeOK
<1>8. QED
      BY <1>5, <1>6, <1>7, SMTT(60) DEF PairInv

\* The beginnings of requests and the answer to a refresh.
LEMMA PairRequestStep ==
  ASSUME PairConstants, PairInv, NEW p \in Procs,
         \/ \E r \in Requests : CreatePair(p, r)
         \/ \E c \in Clusters : DeletePair(p, c) \/ RefreshPair(p, c)
         \/ RefreshAnswer(p)
  PROVE  PairInv'
<1>1. PairTypeOK /\ stage[p] \notin Locked
      BY Zenon DEF PairInv, CreatePair, DeletePair, RefreshPair, RefreshAnswer, Locked
<1>2. UNCHANGED <<pairs, defaultId, lock, tokens>>
      BY DEF CreatePair, DeletePair, RefreshPair, RefreshAnswer
<1>3. \E l \in {"create", "delete", "remote", "update", "idle"} : stage' = [stage EXCEPT ![p] = l]
      BY SMTT(60) DEF CreatePair, DeletePair, RefreshPair, RefreshAnswer, Goto
<1>4. \E r \in Requests : req' = [req EXCEPT ![p] = r]
  <2>1. req[p] \in Requests
        BY <1>1 DEF PairTypeOK
  <2>2. CASE \E r \in Requests : CreatePair(p, r)
        BY <2>2, Zenon DEF CreatePair
  <2>3. CASE \E c \in Clusters : DeletePair(p, c)
    <3>1. PICK c \in Clusters : DeletePair(p, c)
          BY <2>3
    <3>2. [req[p] EXCEPT !.id = c] \in Requests
          BY <2>1 DEF Requests
    <3>3. QED
          BY <3>1, <3>2, Zenon DEF DeletePair
  <2>4. CASE \E c \in Clusters : RefreshPair(p, c)
    <3>1. PICK c \in Clusters : RefreshPair(p, c)
          BY <2>4, SMTT(60)
    <3>2. [id |-> c, info |-> pairs[c], setDefault |-> FALSE] \in Requests
          BY <1>1, <3>1, Zenon DEF Requests, RefreshPair, PairExists, PairTypeOK
    <3>3. QED
          BY <3>1, <3>2, Zenon DEF RefreshPair
  <2>5. CASE RefreshAnswer(p)
    <3>1. [req[p] EXCEPT !.info.mode = "Default"] \in Requests
          BY <2>1, PairConstants, Zenon DEF PairConstants, Requests, Infos
    <3>2. req = [req EXCEPT ![p] = req[p]]
          BY <1>1 DEF PairTypeOK
    <3>3. QED
          BY <2>1, <2>5, <3>1, <3>2 DEF RefreshAnswer
  <2>6. QED
        BY <2>2, <2>3, <2>4, <2>5, SMTT(60)
<1>5. PairTypeOK'
      BY <1>1, <1>2, <1>3, <1>4, ZenonT(60) DEF PairTypeOK, tokens, Stages
<1>6. /\ stage'[p] \notin Locked
      /\ \A q \in Procs \ {p} : stage'[q] = stage[q] /\ req'[q] = req[q]
      BY <1>1, <1>3, <1>4, Zenon DEF PairTypeOK, Locked
<1>7. QED
      BY <1>1, <1>2, <1>5, <1>6, UnlockedStep, Zenon

\* A node that crashes leaves pairs and default as they are, the lock is freed.
LEMMA PairCrashStep ==
  ASSUME PairConstants, PairInv, NEW p \in Procs, Crash(p)
  PROVE  PairInv'
<1>1. PairTypeOK'
      BY ZenonT(60) DEF PairInv, PairTypeOK, Crash, Goto, Stages, tokens
<1>2. UnderLock'
      BY Zenon DEF PairInv, PairTypeOK, UnderLock, Crash, Goto, Locked, PairExists
<1>3. QED
      BY <1>1, <1>2, Zenon DEF PairInv, DefaultExists, Crash, PairExists

\* What changes only tokens.
LEMMA PairTokenStep ==
  ASSUME PairConstants, PairInv, \/ \E reset \in BOOLEAN : GetPairToken(reset)
                  \/ \E c \in Clusters : RemoteReset(c)
  PROVE  PairInv'
<1>1. UNCHANGED <<pairs, defaultId, lock, stage, req>>
      BY SMTT(60) DEF GetPairToken, RemoteReset
<1>2. remoteToken' \in [Clusters -> Tokens] /\ pairToken' \in Tokens \cup {None}
      BY DEF PairInv, PairTypeOK, GetPairToken, RemoteReset
<1>3. resets' \in 0..MaxResets
  <2>1. resets \in 0..MaxResets /\ MaxResets \in Nat
        BY PairConstants, Zenon DEF PairConstants, PairInv, PairTypeOK
  <2>2. resets' = resets \/ (resets < MaxResets /\ resets' = resets + 1)
        BY DEF GetPairToken, RemoteReset
  <2>3. QED
        BY <2>1, <2>2
<1>4. QED
      BY <1>1, <1>2, <1>3, Zenon DEF PairInv, PairTypeOK, UnderLock, DefaultExists, PairExists

\* Every step preserves the invariant.
LEMMA PairNextInv ==
  ASSUME PairConstants, "get default" \notin Failing
  PROVE  PairInv /\ [PairNext]_pairVars => PairInv'
<1> SUFFICES ASSUME PairInv, [PairNext]_pairVars PROVE PairInv'
    BY Zenon
<1>1. CASE UNCHANGED pairVars
      BY <1>1, Zenon DEF PairInv, PairTypeOK, UnderLock, DefaultExists, PairExists, pairVars
<1>2. ASSUME NEW p \in Procs, Step(p) PROVE PairInv'
      BY <1>2, LockStep, PairCreateStep, PairDeleteStep, PairUpdateStep, PairRequestStep,
         Zenon DEF Step
<1>3. QED
      BY <1>1, <1>2, PairRequestStep, PairCrashStep, PairTokenStep, Zenon DEF PairNext

\* The inductive invariant: what each stage of a request may rely on.
THEOREM PairInvariant ==
  ASSUME PairConstants, "get default" \notin Failing
  PROVE  PairSpec => []PairInv
<1>1. QED
      BY PairInitInv, PairNextInv, PTL DEF PairSpec

\* Every variable keeps its type as long as the default id can be read.
THEOREM PairTypes ==
  ASSUME PairConstants, "get default" \notin Failing
  PROVE  PairSpec => []PairTypeOK
<1>1. PairInv => PairTypeOK
      BY Zenon DEF PairInv
<1>2. QED
      BY PairInvariant, <1>1, PTL

\* The default id names an existing pair at every moment, although pair and default
\* are written one after the other and the node may crash or fail in between.
THEOREM DefaultExistsHolds ==
  ASSUME PairConstants, "get default" \notin Failing
  PROVE  PairSpec => []DefaultExists
<1>1. PairInv => DefaultExists
      BY Zenon DEF PairInv
<1>2. QED
      BY PairInvariant, <1>1, PTL
-----------------------------------------------------------------------------
(* ClusterMembership: nodes that start, fail and are removed.              *)

\* What a node has read from the database, in an earlier step, was written
\* after an Init that its listeners finalised.
CopiesInitialized ==
  /\ exist \subseteq inited
  /\ \A n \in Members : pc[n] \notin {"down", "initializeCluster"} => clusterStatus = "OK"
  /\ \A n \in Members : selfNodeEntry[n] # "absent" => n \in inited /\ clusterStatus = "OK"

\* The inductive invariant.
MembershipInv == MemberTypeOK /\ MarkedStaysOut /\ MembersInitialized /\ CopiesInitialized

\* The part of the invariant that is about one node.
Vouched(n) ==
  /\ n \in barred => nodeEntries[n] = "decommission" /\ pc[n] \in {"down", "initializeCluster"}
  /\ nodeEntries[n] # "absent" => n \in inited /\ clusterStatus = "OK"
  /\ n \in exist => n \in inited
  /\ pc[n] \notin {"down", "initializeCluster"} => clusterStatus = "OK"
  /\ selfNodeEntry[n] # "absent" => n \in inited /\ clusterStatus = "OK"

\* The step is about one node.
About(n) ==
  /\ clusterStatus' \in {clusterStatus, "OK"} /\ inited \subseteq inited'
  /\ barred' \subseteq barred \cup {n} /\ exist' \subseteq exist \cup {n}
  /\ \A m \in Members \ {n} : /\ nodeEntries'[m] = nodeEntries[m] /\ pc'[m] = pc[m]
                              /\ selfNodeEntry'[m] = selfNodeEntry[m]

-----------------------------------------------------------------------------
\* The initial state.
LEMMA MembershipInit == MemberInit => MembershipInv
<1>1. MemberInit => MemberTypeOK
      BY SMTT(60) DEF MemberInit, MemberTypeOK, EntryStatuses, Starting
<1>2. MemberInit => MarkedStaysOut /\ MembersInitialized /\ CopiesInitialized
      BY SMTT(60) DEF MemberInit, MarkedStaysOut, MembersInitialized, CopiesInitialized
<1>3. QED
      BY <1>1, <1>2, Zenon DEF MembershipInv

\* The invariant is the types and what it says of each node.
LEMMA PerNode ==
  ASSUME MemberTypeOK
  PROVE  MembershipInv <=> \A n \in Members : Vouched(n)
<1>1. barred \subseteq Members /\ exist \subseteq Members
      BY SMTT(60) DEF MemberTypeOK
<1>2. MarkedStaysOut /\ MembersInitialized /\ CopiesInitialized <=> \A n \in Members : Vouched(n)
      BY <1>1, Zenon DEF MarkedStaysOut, MembersInitialized, CopiesInitialized, Vouched
<1>3. QED
      BY <1>2, ZenonT(60) DEF MembershipInv

\* A step about one node has to keep what the invariant says of this node.
LEMMA AboutOne ==
  ASSUME \A m \in Members : Vouched(m), NEW n \in Members, About(n), Vouched(n)'
  PROVE  \A m \in Members : Vouched(m)'
<1>1. TAKE m \in Members
<1>2. CASE m = n
      BY <1>2, Zenon
<1>3. CASE m # n
  <2>0. m \in Members \ {n}
        BY <1>3, Zenon
  <2>1. /\ nodeEntries'[m] = nodeEntries[m] /\ pc'[m] = pc[m] /\ selfNodeEntry'[m] = selfNodeEntry[m]
        /\ (m \in barred' => m \in barred) /\ (m \in exist' => m \in exist)
        /\ (m \in inited => m \in inited') /\ (clusterStatus = "OK" => clusterStatus' = "OK")
        BY <2>0, ZenonT(60) DEF About
  <2>2. Vouched(m)
        BY Zenon
  <2>3. QED
        BY <2>1, <2>2, ZenonT(60) DEF Vouched
<1>4. QED
      BY <1>2, <1>3, ZenonT(60)

\* A process that ends leaves the types alone.
LEMMA GoDownTypeOK ==
  ASSUME MemberTypeOK, NEW n \in Members, GoDown(n), faults' \in Nat PROVE MemberTypeOK'
<1>1. /\ pc' \in [Members -> Starting \cup {"down", "up"}] /\ exist' \subseteq Members
      /\ selfNodeEntry' \in [Members -> EntryStatuses] /\ inQuorum' \subseteq Members
      BY Zenon  DEF GoDown, MemberTypeOK, EntryStatuses
<1>2. /\ replay' \in [Members -> SUBSET Members] /\ jobs' \in [Members -> SUBSET Members]
      /\ step' \in [Members -> {"idle", "mark", "listeners"}] /\ target' \in [Members -> Members]
      BY Zenon  DEF GoDown, MemberTypeOK
<1>3. QED
      BY <1>1, <1>2, Zenon DEF GoDown, MemberTypeOK

\* A process that ends keeps the rest of the invariant.
LEMMA GoDownAbout ==
  ASSUME MemberTypeOK, NEW n \in Members, GoDown(n)
  PROVE  About(n) /\ (Vouched(n) => Vouched(n)')
<1>1. pc' = [pc EXCEPT ![n] = "down"] /\ selfNodeEntry' = [selfNodeEntry EXCEPT ![n] = "absent"]
      /\ exist' = exist \ {n} /\ UNCHANGED <<nodeEntries, clusterStatus, inited, barred>>
      BY ZenonT(60) DEF GoDown
<1>2. pc'[n] = "down" /\ selfNodeEntry'[n] = "absent" /\ n \notin exist'
      BY <1>1, SMTT(60) DEF MemberTypeOK
<1>3. About(n)
      BY <1>1, Zenon DEF About, MemberTypeOK
<1>4. Vouched(n) => Vouched(n)'
      BY <1>1, <1>2, Zenon DEF Vouched
<1>5. QED
      BY <1>3, <1>4

\* Every step preserves the types.
LEMMA MembershipTypeStep == MemberTypeOK /\ [MemberNext]_memberVars => MemberTypeOK'
<1>. SUFFICES ASSUME MemberTypeOK, [MemberNext]_memberVars PROVE MemberTypeOK'
  BY ZenonT(60)
<1>0. ASSUME NEW n \in Members, GoDown(n), faults' = faults PROVE MemberTypeOK'
  <2>1. faults' \in Nat
    BY <1>0, SMTT(60) DEF MemberTypeOK
  <2>. QED  BY <1>0, <2>1, GoDownTypeOK, ZenonT(60)
<1>1. ASSUME NEW n \in Members, Start(n) PROVE MemberTypeOK'
  BY <1>1, Zenon DEF Start, MemberTypeOK, remove, Starting
<1>2. ASSUME NEW n \in Members, initializeCluster(n) PROVE MemberTypeOK'
  <2>1. CASE GoDown(n)
    BY <1>0, <1>2, <2>1, ZenonT(60) DEF initializeCluster
  <2>2. CASE ~GoDown(n)
    BY <1>2, <2>2, Zenon DEF initializeCluster, MemberTypeOK, remove, Starting
  <2>. QED  BY <2>1, <2>2, ZenonT(60)
<1>3. ASSUME NEW n \in Members, initNodeInCluster(n) PROVE MemberTypeOK'
  <2>1. CASE GoDown(n)
    BY <1>0, <1>3, <2>1, ZenonT(60) DEF initNodeInCluster
  <2>2. CASE ~GoDown(n)
    BY <1>3, <2>2, Zenon DEF initNodeInCluster, MemberTypeOK, remove, Starting
  <2>. QED  BY <2>1, <2>2, ZenonT(60)
<1>4. ASSUME NEW n \in Members, initListeners(n) PROVE MemberTypeOK'
  BY <1>4, Zenon DEF initListeners, FreshEntry, MemberTypeOK, remove, Starting, EntryStatuses
<1>5. ASSUME NEW n \in Members, joinClusterSnapshot(n) PROVE MemberTypeOK'
  BY <1>5, Zenon DEF joinClusterSnapshot, MemberTypeOK, remove, Starting
<1>6. ASSUME NEW n \in Members, joinCluster(n) PROVE MemberTypeOK'
  <2>1. CASE GoDown(n)
    BY <1>0, <1>6, <2>1, ZenonT(60) DEF joinCluster
  <2>2. CASE ~GoDown(n)
    BY <1>6, <2>2, SMTT(60) DEF joinCluster, MemberTypeOK, remove, Starting
  <2>. QED  BY <2>1, <2>2, ZenonT(60)
<1>7. ASSUME NEW n \in Members, JoinComplete(n) PROVE MemberTypeOK'
  BY <1>7, Zenon DEF JoinComplete, NodesToReplay, MemberTypeOK, remove, EntryStatuses
<1>8. ASSUME NEW n \in Members, Fault(n) PROVE MemberTypeOK'
  <2>1. faults' \in Nat /\ GoDown(n)
    BY <1>8, SMTT(60) DEF Fault, MemberTypeOK
  <2>. QED  BY <1>8, <2>1, GoDownTypeOK, ZenonT(60)
<1>9. ASSUME NEW n \in Members, replayNodeDecommission(n) PROVE MemberTypeOK'
  <2>1. PICK m \in replay[n] : /\ replay' = [replay EXCEPT ![n] = @ \ {m}]
                               /\ BeginRemove(n, m) \/ UNCHANGED <<nodeEntries, clusterStatus, pc, status,
                                    nodeInitialized, exist, selfNodeEntry, remove, faults, inited, barred>>
    BY <1>9, ZenonT(60) DEF replayNodeDecommission
  <2>2. replay' \in [Members -> SUBSET Members] /\ m \in Members
    BY <1>9, <2>1, Zenon DEF MemberTypeOK
  <2>3. CASE BeginRemove(n, m)
    BY <1>9, <2>2, <2>3, Zenon DEF BeginRemove, MemberTypeOK
  <2>4. CASE UNCHANGED <<nodeEntries, clusterStatus, pc, status,
                         nodeInitialized, exist, selfNodeEntry, remove, faults, inited, barred>>
    BY <2>2, <2>4, Zenon DEF MemberTypeOK, remove
  <2>. QED  BY <2>1, <2>3, <2>4, ZenonT(60)
<1>10. ASSUME NEW n \in Members, markNodeDecommission(n) PROVE MemberTypeOK'
  BY <1>10, SMTT(60) DEF markNodeDecommission, MemberTypeOK, start, EntryStatuses
<1>11. ASSUME NEW n \in Members, RemoveByListeners(n) PROVE MemberTypeOK'
  BY <1>11, SMTT(60) DEF RemoveByListeners, MemberTypeOK, start
<1>12. ASSUME NEW n \in Members, NEW m \in Members, NodeRemoveDone(n, m) PROVE MemberTypeOK'
  BY <1>12, SMTT(60) DEF NodeRemoveDone, MemberTypeOK, start, EntryStatuses
<1>13. ASSUME NEW n \in Members, NEW m \in Members, Remove(n, m) PROVE MemberTypeOK'
  BY <1>13, Zenon DEF Remove, BeginRemove, MemberTypeOK
<1>14. ASSUME NEW n \in Members, QuorumChanges(n) \/ EnterMaintenance(n) PROVE MemberTypeOK'
  BY <1>14, Zenon DEF QuorumChanges, EnterMaintenance, MemberTypeOK, start, remove
<1>15. CASE UNCHANGED memberVars
  BY <1>15, Zenon DEF memberVars, MemberTypeOK, start, remove
<1>. QED
  BY <1>1, <1>2, <1>3, <1>4, <1>5, <1>6, <1>7, <1>8, <1>9, <1>10, <1>11, <1>12, <1>13, <1>14, <1>15,
     ZenonT(60) DEF MemberNext, StartWithConfiguration, RemoveSteps

\* Every step preserves the invariant.
LEMMA MembershipStep == MembershipInv /\ [MemberNext]_memberVars => MembershipInv'
<1>. SUFFICES ASSUME MembershipInv, [MemberNext]_memberVars PROVE MembershipInv'
  BY ZenonT(60)
<1>. DEFINE G == \A m \in Members : Vouched(m)'
<1>t. MemberTypeOK /\ \A m \in Members : Vouched(m)
  BY PerNode, ZenonT(60) DEF MembershipInv
<1>s. nodeEntries \in [Members -> EntryStatuses] /\ selfNodeEntry \in [Members -> EntryStatuses]
      /\ pc \in [Members -> Starting \cup {"down", "up"}] /\ target \in [Members -> Members]
  BY <1>t, ZenonT(60) DEF MemberTypeOK
<1>d. ASSUME NEW n \in Members, GoDown(n) PROVE G
  BY <1>t, <1>d, GoDownAbout, AboutOne, ZenonT(60)
<1>q. ASSUME UNCHANGED <<nodeEntries, clusterStatus, pc, exist, selfNodeEntry, inited, barred>> PROVE G
  BY <1>t, <1>q, Zenon DEF Vouched
<1>1. ASSUME NEW n \in Members, Start(n) PROVE G
  <2>1. About(n)
    BY <1>s, <1>1, Zenon DEF Start, About
  <2>2. Vouched(n)'
    BY <1>t, <1>s, <1>1, Zenon DEF Start, Vouched
  <2>. QED  BY <1>t, <1>1, <2>1, <2>2, AboutOne, ZenonT(60)
<1>2. ASSUME NEW n \in Members, initializeCluster(n), ~GoDown(n) PROVE G
  <2>1. About(n)
    BY <1>s, <1>2, Zenon DEF initializeCluster, About
  <2>2. Vouched(n)'
    BY <1>t, <1>s, <1>2, Zenon DEF initializeCluster, Decommissioned, Exists, Vouched
  <2>. QED  BY <1>t, <1>2, <2>1, <2>2, AboutOne, ZenonT(60)
<1>3. ASSUME NEW n \in Members, initNodeInCluster(n), ~GoDown(n) PROVE G
  <2>1. About(n)
    BY <1>s, <1>3, Zenon DEF initNodeInCluster, About
  <2>2. Vouched(n)'
    BY <1>t, <1>s, <1>3, Zenon DEF initNodeInCluster, Vouched
  <2>. QED  BY <1>t, <1>3, <2>1, <2>2, AboutOne, ZenonT(60)
<1>4. ASSUME NEW n \in Members, initListeners(n) PROVE G
  <2>1. About(n)
    BY <1>s, <1>4, Zenon DEF initListeners, About
  <2>2. Vouched(n)'
    BY <1>t, <1>s, <1>4, Zenon DEF initListeners, FreshEntry, Vouched
  <2>. QED  BY <1>t, <1>4, <2>1, <2>2, AboutOne, ZenonT(60)
<1>5. ASSUME NEW n \in Members, joinClusterSnapshot(n) PROVE G
  <2>1. About(n)
    BY <1>s, <1>5, Zenon DEF joinClusterSnapshot, About
  <2>2. Vouched(n)'
    BY <1>t, <1>s, <1>5, Zenon DEF joinClusterSnapshot, Vouched
  <2>. QED  BY <1>t, <1>5, <2>1, <2>2, AboutOne, ZenonT(60)
<1>6. ASSUME NEW n \in Members, joinCluster(n), ~GoDown(n) PROVE G
  <2>1. About(n)
    BY <1>s, <1>6, ZenonT(60) DEF joinCluster, About
  <2>2. Vouched(n)'
    BY <1>t, <1>s, <1>6, Zenon DEF joinCluster, Vouched
  <2>. QED  BY <1>t, <1>6, <2>1, <2>2, AboutOne, ZenonT(60)
<1>7. ASSUME NEW n \in Members, JoinComplete(n) PROVE G
  <2>1. About(n)
    BY <1>s, <1>7, Zenon DEF JoinComplete, About
  <2>2. Vouched(n)'
    BY <1>t, <1>s, <1>7, Zenon DEF JoinComplete, Vouched
  <2>. QED  BY <1>t, <1>7, <2>1, <2>2, AboutOne, ZenonT(60)
<1>8. ASSUME NEW n \in Members, replayNodeDecommission(n) \/ RemoveByListeners(n) PROVE G
  BY <1>q, <1>8, ZenonT(60) DEF replayNodeDecommission, BeginRemove, RemoveByListeners, start
<1>9. ASSUME NEW n \in Members, markNodeDecommission(n) PROVE G
  <2>1. PICK m \in Members : m = target[n]
    BY <1>s, <1>9, SMTT(60)
  <2>2. About(m)
    BY <1>s, <1>9, <2>1, Zenon DEF markNodeDecommission, About, start
  <2>3. Vouched(m)'
    BY <1>t, <1>s, <1>9, <2>1, Zenon DEF markNodeDecommission, Vouched, start
  <2>. QED  BY <1>t, <2>2, <2>3, AboutOne, ZenonT(60)
<1>10. ASSUME NEW n \in Members, NEW m \in Members, NodeRemoveDone(n, m) PROVE G
  <2>1. About(m)
    BY <1>s, <1>10, ZenonT(60) DEF NodeRemoveDone, About, start
  <2>2. Vouched(m)'
    BY <1>t, <1>s, <1>10, Zenon DEF NodeRemoveDone, Vouched, start
  <2>. QED  BY <1>t, <1>10, <2>1, <2>2, AboutOne, ZenonT(60)
<1>11. ASSUME NEW n \in Members, NEW m \in Members, Remove(n, m) PROVE G
  BY <1>q, <1>11, ZenonT(60) DEF Remove, BeginRemove
<1>12. ASSUME NEW n \in Members, QuorumChanges(n) \/ EnterMaintenance(n) PROVE G
  BY <1>q, <1>12, ZenonT(60) DEF QuorumChanges, EnterMaintenance, start
<1>13. ASSUME UNCHANGED memberVars PROVE G
  BY <1>q, <1>13, ZenonT(60) DEF memberVars, start
<1>14. G
  BY <1>d, <1>1, <1>2, <1>3, <1>4, <1>5, <1>6, <1>7, <1>8, <1>9, <1>10, <1>11, <1>12, <1>13, ZenonT(60)
  DEF MemberNext, StartWithConfiguration, RemoveSteps, Fault
<1>. HIDE DEF G
<1>15. MemberTypeOK'
  BY MembershipTypeStep, <1>t, ZenonT(60)
<1>16. MarkedStaysOut' /\ MembersInitialized' /\ CopiesInitialized'
  <2>1. barred' \subseteq Members /\ exist' \subseteq Members
    BY <1>15, Zenon DEF MemberTypeOK
  <2>. QED  BY <1>14, <2>1, Zenon DEF G, MarkedStaysOut, MembersInitialized, CopiesInitialized, Vouched
<1>. QED  BY <1>15, <1>16, ZenonT(60) DEF MembershipInv

\* The inductive invariant holds in every reachable state.
THEOREM MembershipInvariant == MemberSpec => []MembershipInv
<1>. QED  BY MembershipInit, MembershipStep, PTL DEF MemberSpec

\* Every variable keeps its type.
THEOREM MembershipTypes == MemberSpec => []MemberTypeOK
<1>1. MembershipInv => MemberTypeOK
  BY DEF MembershipInv
<1>. QED  BY <1>1, MembershipInvariant, PTL

\* A node that was marked while it was down stays out until it is deleted.
THEOREM MarkedStaysOutHolds == MemberSpec => []MarkedStaysOut
<1>1. MembershipInv => MarkedStaysOut
  BY DEF MembershipInv
<1>. QED  BY <1>1, MembershipInvariant, PTL

\* Every entry belongs to a node whose listeners finalised their Init.
THEOREM MembersInitializedHolds == MemberSpec => []MembersInitialized
<1>1. MembershipInv => MembersInitialized
  BY DEF MembershipInv
<1>. QED  BY <1>1, MembershipInvariant, PTL
=============================================================================
