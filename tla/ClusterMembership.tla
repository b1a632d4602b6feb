--------------------------- MODULE ClusterMembership ---------------------------
(***************************************************************************)
(* cluster/manager/manager.go: how nodes enter and leave the cluster.      *)
(*                                                                         *)
(* The cluster database holds an entry for each member.  A starting node   *)
(* writes its entry twice (initListeners, joinCluster); Remove marks an    *)
(* entry decommissioned, the listeners then do the work, and               *)
(* NodeRemoveDone deletes the entry.  Each access to the database is one   *)
(* atomic step: ClusterDB shows that updateDB provides that.  Nodes may    *)
(* fail between any two of them.  Listeners are external.                  *)
(***************************************************************************)
EXTENDS Integers

CONSTANTS Members,
          Removable,     \* the nodes an operator removes
          Maintainable,  \* those that a listener may put into maintenance mode
          MaxFaults      \* bound on crashes and failed starts

ASSUME MembershipAssumption ==
  /\ Removable \subseteq Members /\ Maintainable \subseteq Members
  /\ MaxFaults \in Nat

VARIABLES
  nodeEntries,      \* Status of each NodeEntry of the cluster database, or "absent"
  clusterStatus,    \* Status of the database
  pc,               \* how far StartWithConfiguration is
  status,           \* selfNode.Status
  nodeInitialized,  \* its argument
  exist,            \* the nodes that initNode found in the database
  selfNodeEntry,    \* joinCluster's copy of the node's entry
  replay,           \* the nodes replayNodeDecommission has yet to remove
  step, target,     \* the call of Remove on each node
  inQuorum,         \* the nodes whose call of Remove has found them in quorum
  jobs,             \* the removals the listeners of each node work on
  faults,
  inited,           \* history: nodes whose listeners finalised their Init
  barred,           \* history: nodes marked while they were down
  abandoned         \* history: nodes whose last removal was only marked, or whose
                    \* listeners failed

start == <<clusterStatus, pc, nodeInitialized, exist, selfNodeEntry, replay>>
remove == <<step, target, inQuorum, jobs, abandoned>>
memberVars == <<nodeEntries, start, status, remove, faults, inited, barred>>

EntryStatuses == {"absent", "none", "decommission"}
Starting == {"initializeCluster", "initNode", "initListeners", "waitForQuorum", "join",
             "joinComplete"}

MemberTypeOK ==
  /\ nodeEntries \in [Members -> EntryStatuses] /\ clusterStatus \in {"INIT", "OK"}
  /\ pc \in [Members -> Starting \cup {"down", "up"}]
  /\ status \in [Members -> {"INIT", "NOT_IN_QUORUM", "OK", "MAINTENANCE", "DECOMMISSION"}]
  /\ nodeInitialized \subseteq Members /\ exist \subseteq Members
  /\ selfNodeEntry \in [Members -> EntryStatuses]
  /\ replay \in [Members -> SUBSET Members]
  /\ step \in [Members -> {"idle", "mark", "listeners"}] /\ target \in [Members -> Members]
  /\ inQuorum \subseteq Members /\ jobs \in [Members -> SUBSET Members]
  /\ faults \in Nat /\ inited \subseteq Members /\ barred \subseteq Members
  /\ abandoned \subseteq Members

MemberInit ==
  /\ nodeEntries = [n \in Members |-> "absent"] /\ clusterStatus = "INIT"
  /\ pc = [n \in Members |-> "down"] /\ status = [n \in Members |-> "INIT"]
  /\ nodeInitialized = {} /\ exist = {}
  /\ selfNodeEntry = [n \in Members |-> "absent"]
  /\ replay = [n \in Members |-> {}]
  /\ step = [n \in Members |-> "idle"] /\ target = [n \in Members |-> n]
  /\ inQuorum = {} /\ jobs = [n \in Members |-> {}]
  /\ faults = 0 /\ inited = {} /\ barred = {} /\ abandoned = {}

-----------------------------------------------------------------------------
(* Starting a node                                                         *)

\* A driver may track whether the node was initialised before, or not (osd).
Start(n) ==
  /\ pc[n] = "down"
  /\ pc' = [pc EXCEPT ![n] = "initializeCluster"]
  /\ status' = [status EXCEPT ![n] = "INIT"]
  /\ \E r \in {{}, {n} \cap inited} : nodeInitialized' = (nodeInitialized \ {n}) \cup r
  /\ UNCHANGED <<nodeEntries, clusterStatus, exist, selfNodeEntry, replay, remove, faults,
                 inited, barred>>

\* The process ends; what it had in memory is lost.
GoDown(n) ==
  /\ pc' = [pc EXCEPT ![n] = "down"]
  /\ exist' = exist \ {n} /\ selfNodeEntry' = [selfNodeEntry EXCEPT ![n] = "absent"]
  /\ replay' = [replay EXCEPT ![n] = {}]
  /\ step' = [step EXCEPT ![n] = "idle"] /\ target' = [target EXCEPT ![n] = n]
  /\ inQuorum' = inQuorum \ {n}
  /\ jobs' = [jobs EXCEPT ![n] = {}]
  /\ UNCHANGED <<nodeEntries, clusterStatus, status, nodeInitialized, inited, barred,
                 abandoned>>

\* Mutant: a decommissioned node is not refused.
NotRefused(n) == FALSE

Decommissioned(n) == nodeEntries[n] = "decommission"

\* Mutant: the node looks itself up after it has added itself.
ExistsAlready(n) == TRUE

Exists(n) == nodeEntries[n] # "absent"

\* The clusterInfo that initNode uses is the one this update has read.
initializeCluster(n) ==
  /\ pc[n] = "initializeCluster"
  /\ \/ Decommissioned(n) /\ GoDown(n)
     \/ /\ ~Decommissioned(n)
        /\ clusterStatus' = "OK"
        /\ exist' = IF Exists(n) THEN exist \cup {n} ELSE exist
        /\ pc' = [pc EXCEPT ![n] = "initNode"]
        /\ UNCHANGED <<nodeEntries, status, nodeInitialized, selfNodeEntry, replay, remove,
                       inited, barred>>
  /\ UNCHANGED faults

ErrInitNodeNotFound(n) == n \in nodeInitialized

\* The listeners' Init and CleanupInit; a failing Init is a failed start.
initNodeInCluster(n) ==
  /\ pc[n] = "initNode"
  /\ \/ n \notin exist /\ ErrInitNodeNotFound(n) /\ GoDown(n)
     \/ /\ n \in exist \/ ~ErrInitNodeNotFound(n)
        /\ pc' = [pc EXCEPT ![n] = "initListeners"]
        /\ UNCHANGED <<nodeEntries, clusterStatus, status, nodeInitialized, exist,
                       selfNodeEntry, replay,
                       remove, inited, barred>>
  /\ UNCHANGED faults

\* initNode makes a fresh entry, so that its Status is NONE.
FreshEntry(n) == "none"

\* The listeners whose Init was called finalise it in the same update.
initListeners(n) ==
  /\ pc[n] = "initListeners"
  /\ inited' = IF n \in exist THEN inited ELSE inited \cup {n}
  /\ nodeEntries' = [nodeEntries EXCEPT ![n] = FreshEntry(n)]
  /\ pc' = [pc EXCEPT ![n] = "waitForQuorum"]
  /\ status' = [status EXCEPT ![n] = "NOT_IN_QUORUM"]
  /\ UNCHANGED <<clusterStatus, nodeInitialized, exist, selfNodeEntry, replay, remove,
                 faults, barred>>

\* Quorum is achieved and joinCluster reads its entry from a snapshot.
joinClusterSnapshot(n) ==
  /\ pc[n] = "waitForQuorum" /\ status[n] = "NOT_IN_QUORUM"
  /\ selfNodeEntry' = [selfNodeEntry EXCEPT ![n] = nodeEntries[n]]
  /\ pc' = [pc EXCEPT ![n] = "join"]
  /\ status' = [status EXCEPT ![n] = "INIT"]
  /\ UNCHANGED <<nodeEntries, clusterStatus, nodeInitialized, exist, replay, remove,
                 faults, inited,
                 barred>>

\* After the listeners' Join; a node without an entry panics.
joinCluster(n) ==
  /\ pc[n] = "join"
  /\ \/ selfNodeEntry[n] = "absent" /\ GoDown(n)
     \/ /\ selfNodeEntry[n] # "absent"
        /\ nodeEntries' = [nodeEntries EXCEPT ![n] = selfNodeEntry[n]]
        /\ pc' = [pc EXCEPT ![n] = "joinComplete"]
        /\ UNCHANGED <<clusterStatus, status, nodeInitialized, exist, selfNodeEntry, replay,
                       remove, inited, barred>>
  /\ UNCHANGED faults

\* Mutant: decommissions are not replayed.
NoReplay == {}

NodesToReplay == {m \in Members : nodeEntries[m] = "decommission"}

\* waitForQuorum returns and replayNodeDecommission reads the database.
JoinComplete(n) ==
  /\ pc[n] = "joinComplete"
  /\ pc' = [pc EXCEPT ![n] = "up"]
  /\ status' = [status EXCEPT ![n] = "OK"]
  /\ replay' = [replay EXCEPT ![n] = NodesToReplay]
  /\ selfNodeEntry' = [selfNodeEntry EXCEPT ![n] = "absent"]
  /\ exist' = exist \ {n}
  /\ UNCHANGED <<nodeEntries, clusterStatus, nodeInitialized, remove, faults, inited, barred>>

\* A listener or the store fails, quorum is not achieved in time, or the
\* process crashes.
Fault(n) ==
  /\ pc[n] # "down"
  /\ faults < MaxFaults
  /\ faults' = faults + 1
  /\ GoDown(n)

-----------------------------------------------------------------------------
(* Removing a node                                                         *)

\* What Remove tests: a peer by the node cache, which follows gossip and may
\* be out of date in either way; the node itself by its status.
MayRemove(n, m) == m = n => status[n] = "MAINTENANCE"

BeginRemove(n, m) ==
  /\ step[n] = "idle" /\ pc[n] # "down"
  /\ MayRemove(n, m)
  /\ inQuorum' = IF status[n] = "NOT_IN_QUORUM" THEN inQuorum \ {n} ELSE inQuorum \cup {n}
  /\ step' = [step EXCEPT ![n] = "mark"]
  /\ target' = [target EXCEPT ![n] = m]
  /\ UNCHANGED <<nodeEntries, clusterStatus, pc, status, nodeInitialized, exist,
                 selfNodeEntry, jobs,
                 faults, inited, barred, abandoned>>

Remove(n, m) == BeginRemove(n, m) /\ UNCHANGED replay

\* Remove has nodes in a decommissioned state pass its tests.
replayNodeDecommission(n) ==
  \E m \in replay[n] :
    /\ replay' = [replay EXCEPT ![n] = @ \ {m}]
    /\ \/ BeginRemove(n, m)
       \/ /\ step[n] = "idle" /\ ~MayRemove(n, m)
          /\ UNCHANGED <<nodeEntries, clusterStatus, pc, status, nodeInitialized, exist,
                         selfNodeEntry,
                         remove, faults, inited, barred>>

\* A call that only marks ends here, and so does one for a missing entry.
markNodeDecommission(n) ==
  LET m == target[n] IN
  /\ step[n] = "mark"
  /\ \/ /\ nodeEntries[m] = "absent"
        /\ step' = [step EXCEPT ![n] = "idle"]
        /\ UNCHANGED <<nodeEntries, status, barred, abandoned>>
     \/ /\ nodeEntries[m] # "absent"
        /\ nodeEntries' = [nodeEntries EXCEPT ![m] = "decommission"]
        /\ status' = IF m = n THEN [status EXCEPT ![n] = "DECOMMISSION"] ELSE status
        /\ barred' = IF pc[m] = "down" THEN barred \cup {m} ELSE barred
        /\ step' = [step EXCEPT ![n] = IF n \in inQuorum THEN "listeners" ELSE "idle"]
        /\ abandoned' = IF n \in inQuorum THEN abandoned \ {m} ELSE abandoned \cup {m}
  /\ UNCHANGED <<start, target, inQuorum, jobs, faults, inited>>

\* The listeners remove the node at once or leave it pending, or one fails.
RemoveByListeners(n) ==
  /\ step[n] = "listeners"
  /\ step' = [step EXCEPT ![n] = "idle"]
  /\ \/ jobs' = [jobs EXCEPT ![n] = @ \cup {target[n]}] /\ UNCHANGED abandoned
     \/ abandoned' = abandoned \cup {target[n]} /\ UNCHANGED jobs
  /\ UNCHANGED <<nodeEntries, start, status, target, inQuorum, faults, inited, barred>>

\* A listener reports that it has removed the node, or that it cannot.
NodeRemoveDone(n, m) ==
  /\ m \in jobs[n]
  /\ jobs' = [jobs EXCEPT ![n] = @ \ {m}]
  /\ \/ /\ nodeEntries' = [nodeEntries EXCEPT ![m] = "absent"]
        /\ barred' = barred \ {m}
        /\ UNCHANGED abandoned
     \/ abandoned' = abandoned \cup {m} /\ UNCHANGED <<nodeEntries, barred>>
  /\ UNCHANGED <<start, status, step, target, inQuorum, faults, inited>>

-----------------------------------------------------------------------------
(* What else changes the status of a running node                          *)

\* updateClusterStatus on a suspicion of gossip, and on its end.
QuorumChanges(n) ==
  /\ pc[n] = "up"
  /\ \/ status[n] = "OK" /\ status' = [status EXCEPT ![n] = "NOT_IN_QUORUM"]
     \/ status[n] = "NOT_IN_QUORUM" /\ status' = [status EXCEPT ![n] = "OK"]
  /\ UNCHANGED <<nodeEntries, start, remove, faults, inited, barred>>

\* A listener holds a pointer to selfNode.
EnterMaintenance(n) ==
  /\ n \in Maintainable /\ pc[n] = "up" /\ status[n] = "OK"
  /\ status' = [status EXCEPT ![n] = "MAINTENANCE"]
  /\ UNCHANGED <<nodeEntries, start, remove, faults, inited, barred>>

-----------------------------------------------------------------------------
StartWithConfiguration(n) ==
  \/ initializeCluster(n) \/ initNodeInCluster(n) \/ initListeners(n)
  \/ joinClusterSnapshot(n) \/ joinCluster(n) \/ JoinComplete(n)

RemoveSteps(n) ==
  \/ replayNodeDecommission(n) \/ markNodeDecommission(n) \/ RemoveByListeners(n)

MemberNext ==
  \E n \in Members :
    \/ Start(n) \/ StartWithConfiguration(n) \/ Fault(n)
    \/ RemoveSteps(n)
    \/ \E m \in Members : NodeRemoveDone(n, m) \/ (m \in Removable /\ Remove(n, m))
    \/ QuorumChanges(n) \/ EnterMaintenance(n)

MemberSpec == MemberInit /\ [][MemberNext]_memberVars

\* A node that is down is started again, and the listeners do their work.
FairSpec ==
  /\ MemberSpec
  /\ \A n \in Members :
       /\ WF_memberVars(Start(n)) /\ WF_memberVars(StartWithConfiguration(n))
       /\ WF_memberVars(RemoveSteps(n))
       /\ \A m \in Members : WF_memberVars(NodeRemoveDone(n, m))

-----------------------------------------------------------------------------
(* Properties                                                              *)

\* A node that was marked while it was down stays out of the cluster, however
\* often it is started and whoever else is removed, until its removal is done.
MarkedStaysOut ==
  \A n \in barred : nodeEntries[n] = "decommission" /\ pc[n] \in {"down", "initializeCluster"}

\* Only nodes whose listeners have finalised Init are in the database, and only
\* of a cluster that was initialised: the entry alone tells a restarted node
\* that it need not initialise itself.
MembersInitialized ==
  \A n \in Members : nodeEntries[n] # "absent" => n \in inited /\ clusterStatus = "OK"

\* A node's removal of another one that it has passed on to the listeners
\* completes although the removing node may crash before they are done: it
\* replays the removal when it starts again.  A listener that fails ends the
\* removal, and so does a repetition out of quorum, which only marks.
RemovalCompletes ==
  \A m \in Members :
    (\E n \in Members \ {m} : step[n] = "listeners" /\ target[n] = m)
      ~> (nodeEntries[m] # "decommission" \/ m \in abandoned)

\* Remove is permanent: an entry that was deleted reappears only for a node
\* that starts anew.
DeletedStaysDeleted ==
  [][\A n \in Members : nodeEntries[n] = "absent" /\ nodeEntries'[n] # "absent"
       => pc[n] = "initListeners"]_memberVars
=============================================================================
