------------------------------ MODULE ClusterPair ------------------------------
(***************************************************************************)
(* cluster/manager/pair.go: the pairs with remote clusters, the id of the  *)
(* default pair, and the token a remote cluster pairs with.                *)
(*                                                                         *)
(* Requests run concurrently on all nodes. Pairs and default are keys of   *)
(* the key-value store, written one by one under its lock ClusterPairKey;  *)
(* a node may crash between two writes, and the store then frees the lock. *)
(* The token is in the cluster database, whose updates are atomic          *)
(* (ClusterDB). The store and the remote clusters are external.            *)
(***************************************************************************)
EXTENDS Integers

CONSTANTS Procs,     \* requests
          Clusters,  \* remote clusters
          Tokens, Modes, NoPair, None,
          Failing,   \* the operations of the store, or on tokens, that may fail
          MaxResets  \* bound on the resets of the token

PairConstants ==
  /\ NoPair \notin [token : Tokens, mode : Modes] /\ None \notin Clusters \cup Tokens \cup Procs
  /\ "Default" \in Modes /\ MaxResets \in Nat
  /\ Failing \subseteq {"get default", "list", "put default", "delete default", "delete",
                        "generate", "crash"}

ASSUME PairAssumption == PairConstants

VARIABLES
  pairs,           \* ClusterPairKey/<id>
  defaultId,       \* clusterPairDefaultKey
  lock,            \* who holds the lock ClusterPairKey
  stage, req,      \* each request: where it is and what it is about
  remoteToken,     \* the token of each remote cluster
  pairToken,       \* PairToken of the cluster database
  resets           \* history: the resets of the token that were reported as done

pairVars == <<pairs, defaultId, lock, stage, req, remoteToken, pairToken, resets>>
tokens == <<remoteToken, pairToken, resets>>

Infos == [token : Tokens, mode : Modes]
Requests == [id : Clusters, info : Infos, setDefault : BOOLEAN]
Stages == {"idle", "create", "creating", "set default", "delete", "deleting", "delete pair",
           "remote", "update", "updating"}

PairTypeOK ==
  /\ pairs \in [Clusters -> Infos \cup {NoPair}]
  /\ defaultId \in Clusters \cup {None} /\ lock \in Procs \cup {None}
  /\ stage \in [Procs -> Stages] /\ req \in [Procs -> Requests]
  /\ remoteToken \in [Clusters -> Tokens]
  /\ pairToken \in Tokens \cup {None} /\ resets \in 0..MaxResets

PairInit ==
  /\ pairs = [c \in Clusters |-> NoPair] /\ defaultId = None /\ lock = None
  /\ stage = [p \in Procs |-> "idle"]
  /\ \E r \in Requests : req = [p \in Procs |-> r]
  /\ remoteToken \in [Clusters -> Tokens]
  /\ pairToken = None /\ resets = 0

May(op) == op \in Failing
PairExists(c) == pairs[c] # NoPair

Goto(p, l) == stage' = [stage EXCEPT ![p] = l]

\* The end of a function that holds the lock.
Return(p) == Goto(p, "idle") /\ lock' = None

\* kv.Lock(ClusterPairKey)
Lock(p, from, to) ==
  /\ stage[p] = from /\ lock = None
  /\ lock' = p
  /\ Goto(p, to)
  /\ UNCHANGED <<pairs, defaultId, req, tokens>>

-----------------------------------------------------------------------------
(* CreatePair and pairCreate                                               *)

\* The remote cluster accepts the token; its listeners may still refuse.
ProcessPairRequest(c, t) == t = remoteToken[c]

\* The remote cluster and the listeners accept; otherwise nothing happens.
CreatePair(p, r) ==
  /\ stage[p] = "idle" /\ ProcessPairRequest(r.id, r.info.token)
  /\ req' = [req EXCEPT ![p] = r]
  /\ Goto(p, "create")
  /\ UNCHANGED <<pairs, defaultId, lock, tokens>>

pairCreate(p) ==
  LET c == req[p].id IN
  /\ stage[p] = "creating"
  /\ \/ /\ ~PairExists(c)
        /\ pairs' = [pairs EXCEPT ![c] = req[p].info]
        /\ Goto(p, "set default")
        /\ UNCHANGED lock
     \/ /\ PairExists(c) /\ pairs[c].token = req[p].info.token
        /\ Goto(p, "set default")
        /\ UNCHANGED <<pairs, lock>>
     \/ /\ PairExists(c) /\ pairs[c].token # req[p].info.token
        /\ Return(p)
        /\ UNCHANGED pairs
  /\ UNCHANGED <<defaultId, req, tokens>>

\* An error of getDefaultPairId leaves an empty id.
NeedsDefault(p) == req[p].setDefault \/ defaultId = None \/ May("get default")

pairCreateDefault(p) ==
  /\ stage[p] = "set default"
  /\ \/ NeedsDefault(p) /\ defaultId' = req[p].id
     \/ NeedsDefault(p) /\ May("put default") /\ UNCHANGED defaultId
     \/ defaultId # None /\ ~req[p].setDefault /\ UNCHANGED defaultId
  /\ Return(p)
  /\ UNCHANGED <<pairs, req, tokens>>

-----------------------------------------------------------------------------
(* DeletePair and pairDelete                                               *)

DeletePair(p, c) ==
  /\ stage[p] = "idle"
  /\ req' = [req EXCEPT ![p].id = c]
  /\ Goto(p, "delete")
  /\ UNCHANGED <<pairs, defaultId, lock, tokens>>

\* Mutant: any pair of the list may become the default.
AnyPair(c) == {d \in Clusters : PairExists(d)}

OtherPairs(c) == {d \in Clusters \ {c} : PairExists(d)}

\* deleteDefaultPairId deletes the key.
NoDefault == None

\* The default goes to one of the other pairs or is deleted.
pairDeleteDefault(p) ==
  LET c == req[p].id IN
  /\ stage[p] = "deleting"
  /\ \/ /\ defaultId # c \/ May("get default")
        /\ Goto(p, "delete pair")
        /\ UNCHANGED <<defaultId, lock>>
     \/ /\ defaultId = c
        /\ defaultId' \in OtherPairs(c)
        /\ Goto(p, "delete pair")
        /\ UNCHANGED lock
     \/ /\ defaultId = c
        /\ OtherPairs(c) = {} \/ May("list") \/ May("put default")
        /\ defaultId' = NoDefault
        /\ Goto(p, "delete pair")
        /\ UNCHANGED lock
     \/ /\ defaultId = c /\ May("delete default")
        /\ OtherPairs(c) = {} \/ May("list") \/ May("put default")
        /\ Return(p)
        /\ UNCHANGED defaultId
  /\ UNCHANGED <<pairs, req, tokens>>

pairDelete(p) ==
  /\ stage[p] = "delete pair"
  /\ \/ pairs' = [pairs EXCEPT ![req[p].id] = NoPair]
     \/ May("delete") /\ UNCHANGED pairs
  /\ Return(p)
  /\ UNCHANGED <<defaultId, req, tokens>>

-----------------------------------------------------------------------------
(* RefreshPair and pairUpdate                                              *)

\* pairGet, which takes and frees the lock.
RefreshPair(p, c) ==
  /\ stage[p] = "idle" /\ lock = None /\ PairExists(c)
  /\ req' = [req EXCEPT ![p] = [id |-> c, info |-> pairs[c], setDefault |-> FALSE]]
  /\ Goto(p, "remote")
  /\ UNCHANGED <<pairs, defaultId, lock, tokens>>

\* The remote cluster answers on one of the endpoints, if the token is still right;
\* the new info has everything but the mode.
RefreshAnswer(p) ==
  /\ stage[p] = "remote"
  /\ \/ /\ ProcessPairRequest(req[p].id, req[p].info.token)
        /\ req' = [req EXCEPT ![p].info.mode = "Default"]
        /\ Goto(p, "update")
     \/ Goto(p, "idle") /\ UNCHANGED req
  /\ UNCHANGED <<pairs, defaultId, lock, tokens>>

\* Mutant: the pair is written whether it exists or not.
PutPair(c) == TRUE

\* kvdb.Update fails if the key does not exist.
UpdateFinds(c) == PairExists(c)

pairUpdate(p) ==
  /\ stage[p] = "updating"
  /\ pairs' = IF UpdateFinds(req[p].id) THEN [pairs EXCEPT ![req[p].id] = req[p].info] ELSE pairs
  /\ Return(p)
  /\ UNCHANGED <<defaultId, req, tokens>>

-----------------------------------------------------------------------------
(* GetPairToken, the remote clusters, and crashes                          *)

\* The error of generatePairToken is replaced by the result of updateDB.
GetPairToken(reset) ==
  /\ resets < MaxResets
  /\ resets' = IF reset THEN resets + 1 ELSE resets
  /\ \/ /\ pairToken = None \/ reset
        /\ \E t \in Tokens \ {pairToken} : pairToken' = t
     \/ /\ (pairToken # None /\ ~reset) \/ May("generate")
        /\ UNCHANGED pairToken
  /\ UNCHANGED <<pairs, defaultId, lock, stage, req, remoteToken>>

RemoteReset(c) ==
  /\ \E t \in Tokens \ {remoteToken[c]} : remoteToken' = [remoteToken EXCEPT ![c] = t]
  /\ UNCHANGED <<pairs, defaultId, lock, stage, req, pairToken, resets>>

Crash(p) ==
  /\ May("crash") /\ stage[p] # "idle"
  /\ Goto(p, "idle")
  /\ lock' = IF lock = p THEN None ELSE lock
  /\ UNCHANGED <<pairs, defaultId, req, tokens>>

Step(p) ==
  \/ Lock(p, "create", "creating") \/ pairCreate(p) \/ pairCreateDefault(p)
  \/ Lock(p, "delete", "deleting") \/ pairDeleteDefault(p) \/ pairDelete(p)
  \/ RefreshAnswer(p) \/ Lock(p, "update", "updating") \/ pairUpdate(p)

PairNext ==
  \/ \E p \in Procs :
       \/ \E r \in Requests : CreatePair(p, r)
       \/ \E c \in Clusters : DeletePair(p, c) \/ RefreshPair(p, c)
       \/ Step(p) \/ Crash(p)
  \/ \E reset \in BOOLEAN : GetPairToken(reset)
  \/ \E c \in Clusters : RemoteReset(c)

PairSpec == PairInit /\ [][PairNext]_pairVars

-----------------------------------------------------------------------------
(* Properties                                                              *)

\* The default pair exists, at every moment that a reader of the two keys or the
\* node that takes over after a crash can see.
DefaultExists == defaultId # None => PairExists(defaultId)

\* A deleted pair comes back only by CreatePair, not by a refresh that was on its
\* way when it was deleted.
NotResurrected ==
  [][\A c \in Clusters : ~PairExists(c) /\ pairs'[c] # NoPair =>
       \E p \in Procs : stage[p] = "creating" /\ req[p].id = c]_pairVars
=============================================================================
