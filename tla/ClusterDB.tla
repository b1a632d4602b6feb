------------------------------ MODULE ClusterDB ------------------------------
(***************************************************************************)
(* cluster/manager/database.go: updateDB and updateAndGetDB, by which every *)
(* node changes the cluster database, one key of the key-value store.      *)
(*                                                                         *)
(* A call takes the cluster lock, reads the key with its ModifiedIndex,    *)
(* lets a callback change the value and writes it back with CompareAndSet, *)
(* or with Create if the key was absent.  The store's lock is a lease: its *)
(* holder may lose it and not notice.  A callback is modelled as an        *)
(* increment of its process' own entry.                                    *)
(***************************************************************************)
EXTENDS Integers

CONSTANTS Procs,
          NoOne,
          MaxIndex,    \* bound on the writes of the key
          MaxLosses    \* bound on the lock losses

ASSUME ClusterDBAssumption ==
  NoOne \notin Procs /\ MaxIndex \in Nat /\ MaxLosses \in Nat

VARIABLES
  value, index,    \* the key: its value and ModifiedIndex, 0 if it is absent
  lock, losses,    \* who the store thinks holds clusterLockKey
  pc, retry,       \* of each process' call; those that retry
  db, version,     \* the locals of lockAndUpdateDB
  result,          \* what lockAndUpdateDB returns
  reply,           \* what the last call returned
  wrote            \* history: the calls that have changed the key

vars == <<value, index, lock, losses, pc, retry, db, version, result, reply, wrote>>

store == <<value, index>>
locks == <<lock, losses>>
locals == <<retry, db, version>>

TypeOK ==
  /\ value \in [Procs -> Nat] /\ index \in Nat
  /\ lock \in Procs \cup {NoOne} /\ losses \in Nat
  /\ pc \in [Procs -> {"idle", "lock", "read", "callback", "write", "unlock", "return"}]
  /\ retry \subseteq Procs
  /\ db \in [Procs -> [Procs -> Nat]] /\ version \in [Procs -> Nat]
  /\ result \in [Procs -> {"nil", "ok", "ErrModified", "error"}]
  /\ reply \in [Procs -> {"nil", "ok", "error"}]
  /\ wrote \subseteq Procs

Init ==
  /\ value = [p \in Procs |-> 0] /\ index = 0
  /\ lock = NoOne /\ losses = 0
  /\ pc = [p \in Procs |-> "idle"]
  /\ retry = {}
  /\ db = [p \in Procs |-> [q \in Procs |-> 0]]
  /\ version = [p \in Procs |-> 0]
  /\ result = [p \in Procs |-> "nil"]
  /\ reply = [p \in Procs |-> "nil"]
  /\ wrote = {}

-----------------------------------------------------------------------------
\* updateDB calls with retry, initListeners without.
Call(p, r) ==
  /\ pc[p] = "idle"
  /\ pc' = [pc EXCEPT ![p] = "lock"]
  /\ retry' = IF r THEN retry \cup {p} ELSE retry
  /\ UNCHANGED <<store, locks, db, version, result, reply, wrote>>

\* Mutant: the lock is not waited for.
NotWaitedFor == TRUE

LockIsFree == lock = NoOne

LockWithID(p) ==
  /\ pc[p] = "lock"
  /\ LockIsFree
  /\ lock' = p
  /\ pc' = [pc EXCEPT ![p] = "read"]
  /\ UNCHANGED <<store, losses, locals, result, reply, wrote>>

LockFails(p) ==
  /\ pc[p] = "lock"
  /\ pc' = [pc EXCEPT ![p] = "return"]
  /\ result' = [result EXCEPT ![p] = "error"]
  /\ UNCHANGED <<store, locks, locals, reply, wrote>>

readClusterInfo(p) ==
  /\ pc[p] = "read"
  /\ \/ /\ db' = [db EXCEPT ![p] = value]
        /\ version' = [version EXCEPT ![p] = index]
        /\ pc' = [pc EXCEPT ![p] = "callback"]
        /\ UNCHANGED result
     \/ /\ pc' = [pc EXCEPT ![p] = "unlock"]
        /\ result' = [result EXCEPT ![p] = "error"]
        /\ UNCHANGED <<db, version>>
  /\ UNCHANGED <<store, locks, retry, reply, wrote>>

\* The callback changes the value, wants no update, or fails.
Callback(p) ==
  /\ pc[p] = "callback"
  /\ \/ /\ db' = [db EXCEPT ![p][p] = @ + 1]
        /\ pc' = [pc EXCEPT ![p] = "write"]
        /\ UNCHANGED result
     \/ /\ pc' = [pc EXCEPT ![p] = "unlock"]
        /\ \E r \in {"nil", "error"} : result' = [result EXCEPT ![p] = r]
        /\ UNCHANGED db
  /\ UNCHANGED <<store, locks, retry, version, reply, wrote>>

\* Mutant: the key is written whatever its index is.
BlindWrite(p) == TRUE

\* CompareAndSet with KVModifiedIndex, or Create for an absent key.
IndexMatches(p) == index = version[p]

Write(p) ==
  /\ IndexMatches(p)
  /\ index < MaxIndex
  /\ value' = db[p]
  /\ index' = index + 1
  /\ wrote' = wrote \cup {p}

\* ErrExist of Create is turned into ErrModified.
CompareAndSet(p) ==
  /\ pc[p] = "write"
  /\ \/ Write(p) /\ result' = [result EXCEPT ![p] = "ok"]
     \/ /\ ~IndexMatches(p)
        /\ result' = [result EXCEPT ![p] = "ErrModified"]
        /\ UNCHANGED <<store, wrote>>
  /\ pc' = [pc EXCEPT ![p] = "unlock"]
  /\ UNCHANGED <<locks, locals, reply>>

\* The store does not answer; the write may have been made.
WriteTimesOut(p) ==
  /\ pc[p] = "write"
  /\ Write(p) \/ UNCHANGED <<store, wrote>>
  /\ result' = [result EXCEPT ![p] = "error"]
  /\ pc' = [pc EXCEPT ![p] = "unlock"]
  /\ UNCHANGED <<locks, locals, reply>>

\* Unlock of a lock somebody else has by now leaves it alone.
Unlock(p) ==
  /\ pc[p] = "unlock"
  /\ lock' = IF lock = p THEN NoOne ELSE lock
  /\ pc' = [pc EXCEPT ![p] = "return"]
  /\ UNCHANGED <<store, losses, locals, result, reply, wrote>>

\* Mutant: a callback that wants no update is run again.
RetriesNoUpdate(p) == p \in retry /\ result[p] \in {"ErrModified", "nil"}

Retries(p) == p \in retry /\ result[p] = "ErrModified"

\* A conflict that is not retried is one more error to the caller.
Returned(p) == IF result[p] = "ErrModified" THEN "error" ELSE result[p]

\* The locals go out of scope.
Return(p) ==
  /\ pc[p] = "return"
  /\ \/ /\ Retries(p)
        /\ pc' = [pc EXCEPT ![p] = "lock"]
        /\ UNCHANGED <<reply, retry, wrote>>
     \/ /\ ~Retries(p)
        /\ pc' = [pc EXCEPT ![p] = "idle"]
        /\ reply' = [reply EXCEPT ![p] = Returned(p)]
        /\ retry' = retry \ {p}
        /\ wrote' = wrote \ {p}
  /\ db' = [db EXCEPT ![p] = [q \in Procs |-> 0]]
  /\ version' = [version EXCEPT ![p] = 0]
  /\ result' = [result EXCEPT ![p] = "nil"]
  /\ UNCHANGED <<store, locks>>

\* The lease of the lock runs out.
LoseLock ==
  /\ lock # NoOne
  /\ losses < MaxLosses
  /\ lock' = NoOne
  /\ losses' = losses + 1
  /\ UNCHANGED <<store, pc, locals, result, reply, wrote>>

-----------------------------------------------------------------------------
lockAndUpdateDB(p) ==
  \/ LockWithID(p) \/ LockFails(p) \/ readClusterInfo(p) \/ Callback(p)
  \/ CompareAndSet(p) \/ WriteTimesOut(p) \/ Unlock(p)

updateAndGetDB(p) == lockAndUpdateDB(p) \/ Return(p)

Next ==
  \/ \E p \in Procs : (\E r \in BOOLEAN : Call(p, r)) \/ updateAndGetDB(p)
  \/ LoseLock

Spec == Init /\ [][Next]_vars

\* The store answers, and LockWithID gives up in the end.
FairSpec == Spec /\ \A p \in Procs : WF_vars(updateAndGetDB(p))

-----------------------------------------------------------------------------
(* Properties                                                              *)

Atomic == INSTANCE AtomicDB WITH
  state <- [p \in Procs |->
              IF pc[p] = "idle" THEN "idle"
              ELSE IF p \in wrote THEN "applied"
              ELSE IF pc[p] \in {"unlock", "return"} /\ ~Retries(p) THEN "refused"
              ELSE "open"]

\* A call changes the database atomically and at most once, exactly once if it
\* reports success, never if it reports that nothing was to do; also when the
\* cluster lock is lost between the read and the write.
ImplementsAtomicDB == Atomic!Spec

\* The lock makes a call run its callback once: as long as no lock is lost no
\* write finds the key modified, so callbacks that act on more than the value
\* (ClusterInit, FinalizeInitCb) are not repeated and initListeners, which
\* does not retry, does not fail for nothing.
NoConflictUnderLock ==
  losses = 0 => \A p \in Procs : pc[p] = "write" => IndexMatches(p)

\* Every call returns.
CallReturns == \A p \in Procs : pc[p] = "lock" ~> pc[p] = "idle"
=============================================================================
