------------------------------ MODULE SelfStatus -------------------------------
(***************************************************************************)
(* cluster/manager/manager.go: the status of the node itself, from its     *)
(* start to its end, as NodeStatus and Enumerate report it.                *)
(*                                                                         *)
(* waitForQuorum and then updateClusterStatus follow the status gossip     *)
(* gives this node. The state machine of gossip is external. The API       *)
(* server runs all the time and reads status and selfStatus at any moment. *)
(***************************************************************************)
EXTENDS Integers

CONSTANT MaxRetries   \* quorumRetries that end the wait

ASSUME RetriesAssumption == MaxRetries \in Nat

VARIABLES
  pc,              \* where StartWithConfiguration, then updateClusterStatus, is
  selfStatus,      \* selfNode.Status
  status,          \* c.status, the status of the cluster
  gossipStatus,    \* the status of this node in gossip
  seen,            \* gossipNodeInfo.Status of the round
  quorumRetries,
  gEnabled,
  told             \* history: the status of this node the listeners were told last

vars == <<pc, selfStatus, status, gossipStatus, seen, quorumRetries, gEnabled, told>>

GossipStatus == {"UP", "SUSPECT_NOT_IN_QUORUM", "NOT_IN_QUORUM", "DOWN"}
Status == {"NONE", "INIT", "OK", "OFFLINE", "ERROR", "NOT_IN_QUORUM", "MAINTENANCE"}

TypeOK ==
  /\ pc \in {"start", "init", "waiting", "joining", "joined", "polling", "round", "halting",
             "exited"}
  /\ selfStatus \in Status \ {"NONE"} /\ status \in {"NONE", "OK", "NOT_IN_QUORUM"}
  /\ gossipStatus \in GossipStatus /\ seen \in GossipStatus
  /\ quorumRetries \in 0..MaxRetries
  /\ gEnabled \in BOOLEAN /\ told \in Status

Init ==
  /\ pc = "start" /\ selfStatus = "INIT" /\ status = "NONE"
  /\ gossipStatus \in {"NOT_IN_QUORUM", "UP"} /\ seen = "UP"
  /\ quorumRetries = 0 /\ gEnabled = TRUE /\ told = "NONE"

-----------------------------------------------------------------------------
(* The start                                                               *)

\* initListeners: the listeners may refuse the node, or initializeCluster sets c.status.
initializeCluster ==
  /\ pc = "start"
  /\ \/ status' = "OK" /\ pc' = "init"
     \/ pc' = "exited" /\ UNCHANGED status
  /\ UNCHANGED <<selfStatus, gossipStatus, seen, quorumRetries, gEnabled, told>>

UpdateListeners(s) == told' = IF gEnabled THEN s ELSE told

initializeAndStartHeartbeat ==
  /\ pc = "init"
  /\ selfStatus' = "NOT_IN_QUORUM"
  /\ UpdateListeners("NOT_IN_QUORUM")
  /\ \/ pc' = "waiting"
     \/ pc' = "exited"                       \* EnumerateDomains failed
  /\ UNCHANGED <<status, gossipStatus, seen, quorumRetries, gEnabled>>

\* Mutant: the last retry is not the last.
OneMore == quorumRetries > MaxRetries

RetriesExhausted == quorumRetries = MaxRetries

waitForQuorum ==
  /\ pc = "waiting"
  /\ \/ /\ selfStatus = "NOT_IN_QUORUM" /\ gossipStatus = "UP"
        /\ selfStatus' = "INIT"
        /\ pc' = "joining"
        /\ UNCHANGED <<status, gossipStatus, quorumRetries>>
     \/ /\ selfStatus # "NOT_IN_QUORUM" \/ gossipStatus # "UP"
        /\ status' = "NOT_IN_QUORUM"
        /\ IF RetriesExhausted
           THEN /\ selfStatus' = "OFFLINE"
                /\ gossipStatus' = "DOWN"
                /\ pc' = "exited"
                /\ UNCHANGED quorumRetries
           ELSE /\ quorumRetries' = quorumRetries + 1
                /\ UNCHANGED <<selfStatus, gossipStatus, pc>>
  /\ UNCHANGED <<seen, gEnabled, told>>

\* A listener that fails may have put the node into maintenance.
joinCluster ==
  /\ pc = "joining"
  /\ \/ pc' = "joined" /\ UNCHANGED selfStatus
     \/ pc' = "exited" /\ selfStatus' \in {"ERROR", "MAINTENANCE"}
  /\ UNCHANGED <<status, gossipStatus, seen, quorumRetries, gEnabled, told>>

\* The listeners are told that the node has joined and is in quorum.
JoinComplete ==
  /\ pc = "joined"
  /\ told' = "OK"
  /\ status' = "OK"
  /\ selfStatus' = "OK"
  /\ pc' = "polling"
  /\ UNCHANGED <<gossipStatus, seen, quorumRetries, gEnabled>>

-----------------------------------------------------------------------------
(* updateClusterStatus for the node itself                                 *)

updateClusterStatus ==
  /\ pc = "polling"
  /\ seen' = gossipStatus
  /\ pc' = "round"
  /\ UNCHANGED <<selfStatus, status, gossipStatus, quorumRetries, gEnabled, told>>

\* Mutant: the listeners are not told.
SuspectsSilently ==
  /\ selfStatus = "OK" /\ seen = "SUSPECT_NOT_IN_QUORUM"
  /\ selfStatus' = "NOT_IN_QUORUM"
  /\ status' = "NOT_IN_QUORUM"
  /\ pc' = "polling"
  /\ UNCHANGED <<gossipStatus, told>>

SuspectsQuorum ==
  /\ selfStatus = "OK" /\ seen = "SUSPECT_NOT_IN_QUORUM"
  /\ selfStatus' = "NOT_IN_QUORUM"
  /\ status' = "NOT_IN_QUORUM"
  /\ UpdateListeners("NOT_IN_QUORUM")
  /\ pc' = "polling"
  /\ UNCHANGED gossipStatus

\* Mutant: only a node that has suspected it leaves.
SuspectedBefore == selfStatus = "NOT_IN_QUORUM" /\ seen \in {"NOT_IN_QUORUM", "DOWN"}

MustLeave == selfStatus \in {"NOT_IN_QUORUM", "OK"} /\ seen \in {"NOT_IN_QUORUM", "DOWN"}

LosesQuorum ==
  /\ MustLeave
  /\ gossipStatus' = "DOWN"
  /\ selfStatus' = "OFFLINE"
  /\ status' = "NOT_IN_QUORUM"
  /\ pc' = "halting"
  /\ UNCHANGED told

\* Mutant: quorum that comes back is ignored.
NeverRegains == FALSE

RegainsQuorum == selfStatus = "NOT_IN_QUORUM" /\ seen = "UP"

QuorumIsBack ==
  /\ RegainsQuorum
  /\ selfStatus' = "OK"
  /\ status' = "OK"
  /\ pc' = "polling"
  /\ UNCHANGED <<gossipStatus, told>>

Ignored ==
  /\ ~(selfStatus = "OK" /\ seen = "SUSPECT_NOT_IN_QUORUM")
  /\ ~MustLeave /\ ~RegainsQuorum
  /\ pc' = "polling"
  /\ UNCHANGED <<selfStatus, status, gossipStatus, told>>

updateSelfStatus ==
  /\ pc = "round"
  /\ SuspectsQuorum \/ LosesQuorum \/ QuorumIsBack \/ Ignored
  /\ UNCHANGED <<seen, quorumRetries, gEnabled>>

\* The listeners' Halt, unless the database cannot be read, then Fatal.
Shutdown ==
  /\ pc = "halting"
  /\ pc' = "exited"
  /\ UNCHANGED <<selfStatus, status, gossipStatus, seen, quorumRetries, gEnabled, told>>

EnableUpdates(e) ==
  /\ pc # "exited" /\ gEnabled # e
  /\ gEnabled' = e
  /\ UNCHANGED <<pc, selfStatus, status, gossipStatus, seen, quorumRetries, told>>

-----------------------------------------------------------------------------
(* Gossip                                                                  *)

GossipMoves ==
  /\ pc # "exited"
  /\ \/ gossipStatus = "UP" /\ gossipStatus' = "SUSPECT_NOT_IN_QUORUM"
     \/ gossipStatus = "SUSPECT_NOT_IN_QUORUM" /\ gossipStatus' \in {"UP", "NOT_IN_QUORUM"}
     \/ gossipStatus = "NOT_IN_QUORUM" /\ gossipStatus' = "UP"
  /\ UNCHANGED <<pc, selfStatus, status, seen, quorumRetries, gEnabled, told>>

Next ==
  \/ initializeCluster \/ initializeAndStartHeartbeat \/ waitForQuorum \/ joinCluster
  \/ JoinComplete
  \/ updateClusterStatus \/ updateSelfStatus \/ Shutdown
  \/ \E e \in BOOLEAN : EnableUpdates(e)
  \/ GossipMoves

Spec == Init /\ [][Next]_vars

\* StartWithConfiguration and its goroutine go on; gossip may stay as it is.
FairSpec ==
  /\ Spec
  /\ WF_vars(initializeCluster) /\ WF_vars(initializeAndStartHeartbeat)
  /\ WF_vars(waitForQuorum) /\ WF_vars(joinCluster)
  /\ WF_vars(JoinComplete) /\ WF_vars(updateClusterStatus) /\ WF_vars(updateSelfStatus)
  /\ WF_vars(Shutdown)

-----------------------------------------------------------------------------
(* Properties                                                              *)

\* A node that stays out of quorum stops, however it came to be so: while it
\* waits, while it joins, or without being suspected first.
LeavesWithoutQuorum ==
  <>[](gossipStatus \in {"NOT_IN_QUORUM", "DOWN"}) => <>(pc = "exited")

\* A node that stays in quorum is OK, or has failed to start or to stay.
ReturnsWithQuorum ==
  <>[](gossipStatus = "UP") => <>[]((selfStatus = "OK" /\ status = "OK") \/ pc = "exited")

\* When updates are never disabled and the node stays out of quorum on a mere
\* suspicion, that is what the listeners were told last.  (That quorum is back
\* they are told only by the first JoinComplete.)
SuspicionIsTold ==
  []gEnabled /\ <>[](selfStatus = "NOT_IN_QUORUM") => <>[](told = "NOT_IN_QUORUM" \/ pc = "exited")
=============================================================================
