-------------------------- MODULE ClusterDBProofs --------------------------
(***************************************************************************)
(* Proofs about ClusterDB for any number of processes, writes and losses   *)
(* of the lock.                                                            *)
(***************************************************************************)
EXTENDS ClusterDB, TLAPS

\* The version a process read identifies the value it read: as long as the
\* index is the same, so is the value.
NamesValue(p) ==
  /\ pc[p] = "callback" => version[p] <= index /\ (version[p] = index => db[p] = value)
  /\ pc[p] = "write" =>
       version[p] <= index /\ (version[p] = index => db[p] = [value EXCEPT ![p] = @ + 1])

VersionNamesValue == \A p \in Procs : NamesValue(p)

\* What the result says about the write.
ResultTellsWrite ==
  \A p \in Procs :
    /\ pc[p] \notin {"unlock", "return"} => p \notin wrote
    /\ pc[p] \in {"unlock", "return"} =>
         /\ result[p] = "ok" => p \in wrote
         /\ result[p] \in {"nil", "ErrModified"} => p \notin wrote

\* The inductive invariant of the atomicity of updates.
UpdateInv == TypeOK /\ VersionNamesValue /\ ResultTellsWrite

\* While no lock is lost, its holder is the one between lock and unlock, and
\* the index stays what it has read.
LockHolds ==
  losses = 0 =>
    \A p \in Procs :
      /\ pc[p] \in {"read", "callback", "write", "unlock"} => lock = p
      /\ pc[p] \in {"callback", "write"} => version[p] = index

USE ClusterDBAssumption DEF store, locks, locals

-----------------------------------------------------------------------------
\* The initial state.
LEMMA InitInv == Init => UpdateInv /\ LockHolds
BY SMTT(60) DEF NamesValue, Init, UpdateInv, TypeOK, VersionNamesValue, ResultTellsWrite, LockHolds

\* Every step preserves the types.
LEMMA NextTypeOK == TypeOK /\ [Next]_vars => TypeOK'
<1>. SUFFICES ASSUME TypeOK, [Next]_vars PROVE TypeOK'
  OBVIOUS
<1>. USE DEF TypeOK
<1>1. ASSUME NEW p \in Procs, NEW r \in BOOLEAN, Call(p, r) PROVE TypeOK'
  BY <1>1 DEF Call
<1>2. ASSUME NEW p \in Procs, LockWithID(p) \/ LockFails(p) PROVE TypeOK'
  BY <1>2 DEF LockWithID, LockFails
<1>3. ASSUME NEW p \in Procs, readClusterInfo(p) PROVE TypeOK'
  <2>1. [db EXCEPT ![p] = value] \in [Procs -> [Procs -> Nat]]
    OBVIOUS
  <2>2. UNCHANGED <<store, locks, retry, reply, wrote>> /\ version' \in [Procs -> Nat]
    BY <1>3 DEF readClusterInfo
  <2>3. pc' \in [Procs -> {"idle", "lock", "read", "callback", "write", "unlock", "return"}]
    BY <1>3 DEF readClusterInfo
  <2>4. /\ result' \in [Procs -> {"nil", "ok", "ErrModified", "error"}]
        /\ db' \in [Procs -> [Procs -> Nat]]
    BY <1>3, <2>1, Zenon DEF readClusterInfo
  <2>. QED  BY <2>2, <2>3, <2>4
<1>4. ASSUME NEW p \in Procs, Callback(p) PROVE TypeOK'
  <2>1. [db EXCEPT ![p][p] = @ + 1] \in [Procs -> [Procs -> Nat]]
    OBVIOUS
  <2>2. /\ UNCHANGED <<store, locks, retry, version, reply, wrote>>
        /\ db' \in [Procs -> [Procs -> Nat]]
    BY <1>4, <2>1, Zenon DEF Callback
  <2>3. /\ pc' \in [Procs -> {"idle", "lock", "read", "callback", "write", "unlock", "return"}]
        /\ result' \in [Procs -> {"nil", "ok", "ErrModified", "error"}]
    BY <1>4, ZenonT(60) DEF Callback
  <2>. QED  BY <2>2, <2>3
<1>5. ASSUME NEW p \in Procs, CompareAndSet(p) PROVE TypeOK'
  BY <1>5, SMTT(60) DEF CompareAndSet, Write
<1>6. ASSUME NEW p \in Procs, WriteTimesOut(p) PROVE TypeOK'
  BY <1>6 DEF WriteTimesOut, Write
<1>7. ASSUME NEW p \in Procs, Unlock(p) PROVE TypeOK'
  BY <1>7 DEF Unlock
<1>8. ASSUME NEW p \in Procs, Return(p) PROVE TypeOK'
  <2>1. [db EXCEPT ![p] = [q \in Procs |-> 0]] \in [Procs -> [Procs -> Nat]]
    OBVIOUS
  <2>2. /\ UNCHANGED <<store, locks>> /\ version' \in [Procs -> Nat]
        /\ db' \in [Procs -> [Procs -> Nat]]
    BY <1>8, <2>1 DEF Return
  <2>3. /\ pc' \in [Procs -> {"idle", "lock", "read", "callback", "write", "unlock", "return"}]
        /\ retry' \subseteq Procs /\ wrote' \subseteq Procs
    BY <1>8, SMTT(60) DEF Return
  <2>4. result' \in [Procs -> {"nil", "ok", "ErrModified", "error"}]
    BY <1>8 DEF Return
  <2>5. Returned(p) \in {"nil", "ok", "error"}
    BY DEF Returned
  <2>6. reply' \in [Procs -> {"nil", "ok", "error"}]
    BY <1>8, <2>5 DEF Return
  <2>. QED  BY <2>2, <2>3, <2>4, <2>6
<1>9. CASE LoseLock
  BY <1>9 DEF LoseLock
<1>10. CASE UNCHANGED vars
  BY <1>10 DEF vars
<1>. QED
  BY <1>1, <1>2, <1>3, <1>4, <1>5, <1>6, <1>7, <1>8, <1>9, <1>10, SMTT(60)
  DEF Next, updateAndGetDB, lockAndUpdateDB

\* A process that a step does not touch has read what it had, if the store is as before.
LEMMA NamesKept ==
  ASSUME NEW q, NamesValue(q), UNCHANGED <<value, index>>,
         pc'[q] = pc[q] \/ pc'[q] \notin {"callback", "write"},
         db'[q] = db[q], version'[q] = version[q]
  PROVE  NamesValue(q)'
  BY SMTT(60) DEF NamesValue

\* Every step preserves the invariant.
LEMMA NextUpdateInv == UpdateInv /\ [Next]_vars => UpdateInv'
<1>. SUFFICES ASSUME UpdateInv, [Next]_vars PROVE VersionNamesValue' /\ ResultTellsWrite'
  BY NextTypeOK DEF UpdateInv
<1>0. TypeOK /\ VersionNamesValue /\ ResultTellsWrite
  BY DEF UpdateInv
<1>. USE DEF VersionNamesValue, ResultTellsWrite, TypeOK
<1>1. ASSUME NEW p \in Procs, NEW r \in BOOLEAN, Call(p, r)
      PROVE  VersionNamesValue' /\ ResultTellsWrite'
  BY <1>0, <1>1 DEF NamesValue, Call
<1>2. ASSUME NEW p \in Procs, LockWithID(p) \/ LockFails(p)
      PROVE  VersionNamesValue' /\ ResultTellsWrite'
  BY <1>0, <1>2, SMTT(60) DEF NamesValue, LockWithID, LockFails
<1>3. ASSUME NEW p \in Procs, readClusterInfo(p)
      PROVE  VersionNamesValue' /\ ResultTellsWrite'
  <2>1. UNCHANGED <<value, index>> /\ pc'[p] \in {"callback", "unlock"}
    BY <1>0, <1>3 DEF readClusterInfo
  <2>2. pc'[p] = "callback" => db'[p] = value /\ version'[p] = index
    BY <1>0, <1>3 DEF readClusterInfo
  <2>3. \A q \in Procs \ {p} : /\ pc'[q] = pc[q] /\ db'[q] = db[q]
                                /\ version'[q] = version[q] /\ result'[q] = result[q]
    BY <1>0, <1>3 DEF readClusterInfo
  <2>4. VersionNamesValue'
    <3>1. NamesValue(p)'
      BY <1>0, <2>1, <2>2 DEF NamesValue
    <3>2. ASSUME NEW q \in Procs \ {p} PROVE NamesValue(q)'
      BY <1>0, <2>1, <2>3, <3>2, NamesKept, Zenon
    <3>. QED  BY <3>1, <3>2, Zenon
  <2>5. ResultTellsWrite'
    BY <1>0, <1>3, SMTT(60) DEF readClusterInfo
  <2>. QED  BY <2>4, <2>5
<1>4. ASSUME NEW p \in Procs, Callback(p)
      PROVE  VersionNamesValue' /\ ResultTellsWrite'
  <2>1. UNCHANGED <<value, index, version>> /\ pc'[p] \in {"write", "unlock"}
    BY <1>0, <1>4 DEF Callback
  <2>2. pc'[p] = "write" => db'[p] = [db[p] EXCEPT ![p] = @ + 1]
    BY <1>0, <1>4, SMTT(60) DEF Callback
  <2>3. \A q \in Procs \ {p} : pc'[q] = pc[q] /\ db'[q] = db[q] /\ result'[q] = result[q]
    BY <1>0, <1>4 DEF Callback
  <2>4. version[p] <= index /\ (version[p] = index => db[p] = value)
    BY <1>0, <1>4 DEF NamesValue, Callback
  <2>5. VersionNamesValue'
    BY <1>0, <2>1, <2>2, <2>3, <2>4, ZenonT(60) DEF NamesValue
  <2>6. ResultTellsWrite'
    BY <1>0, <1>4 DEF Callback
  <2>. QED  BY <2>5, <2>6
<1>5. ASSUME NEW p \in Procs, CompareAndSet(p) \/ WriteTimesOut(p)
      PROVE  VersionNamesValue' /\ ResultTellsWrite'
  <2>1. /\ UNCHANGED <<db, version>> /\ pc' = [pc EXCEPT ![p] = "unlock"]
        /\ UNCHANGED store \/ index' = index + 1
    BY <1>5 DEF CompareAndSet, WriteTimesOut, Write
  <2>2. VersionNamesValue'
    BY <1>0, <2>1 DEF NamesValue
  <2>3. ResultTellsWrite'
    BY <1>0, <1>5, SMTT(60) DEF CompareAndSet, WriteTimesOut, Write
  <2>. QED  BY <2>2, <2>3
<1>6. ASSUME NEW p \in Procs, Unlock(p)
      PROVE  VersionNamesValue' /\ ResultTellsWrite'
  BY <1>0, <1>6 DEF NamesValue, Unlock
<1>7. ASSUME NEW p \in Procs, Return(p)
      PROVE  VersionNamesValue' /\ ResultTellsWrite'
  <2>1. UNCHANGED <<value, index>> /\ pc'[p] \in {"lock", "idle"}
    BY <1>0, <1>7 DEF Return
  <2>2. \A q \in Procs \ {p} : /\ pc'[q] = pc[q] /\ db'[q] = db[q]
                               /\ version'[q] = version[q] /\ result'[q] = result[q]
                               /\ q \in wrote' <=> q \in wrote
    BY <1>0, <1>7, SMTT(60) DEF Return
  <2>3. p \notin wrote'
    BY <1>0, <1>7 DEF Return, Retries
  <2>4. VersionNamesValue'
    <3>1. NamesValue(p)'
      BY <2>1, Zenon DEF NamesValue
    <3>2. ASSUME NEW q \in Procs \ {p} PROVE NamesValue(q)'
      BY <1>0, <2>1, <2>2, <3>2, NamesKept, Zenon
    <3>. QED  BY <3>1, <3>2, Zenon
  <2>5. ResultTellsWrite'
    <3>1. ASSUME NEW q \in Procs \ {p}
          PROVE  /\ pc'[q] = pc[q] /\ result'[q] = result[q]
                 /\ q \in wrote' <=> q \in wrote
      BY <2>2, SMTT(60)
    <3>. HIDE DEF TypeOK
    <3>. QED  BY <1>0, <2>1, <2>3, <3>1, ZenonT(60)
  <2>. QED  BY <2>4, <2>5, Zenon
<1>8. CASE LoseLock \/ UNCHANGED vars
  BY <1>0, <1>8, SMTT(60) DEF NamesValue, LoseLock, vars
<1>. QED
  BY <1>1, <1>2, <1>3, <1>4, <1>5, <1>6, <1>7, <1>8
  DEF Next, updateAndGetDB, lockAndUpdateDB

\* Every step preserves what the lock guarantees.
LEMMA NextLockHolds == TypeOK /\ LockHolds /\ [Next]_vars => LockHolds'
<1>. SUFFICES ASSUME TypeOK, LockHolds, [Next]_vars, losses' = 0 PROVE LockHolds'
  BY SMTT(60) DEF LockHolds
<1>0. losses = 0 \/ LoseLock
  BY DEF Next, vars, Call, updateAndGetDB, lockAndUpdateDB, LockWithID, LockFails,
         readClusterInfo, Callback, CompareAndSet, WriteTimesOut, Unlock, Return
<1>. USE DEF LockHolds, TypeOK
<1>1. ASSUME NEW p \in Procs, NEW r \in BOOLEAN, Call(p, r) PROVE LockHolds'
  BY <1>1 DEF Call
<1>2. ASSUME NEW p \in Procs, LockWithID(p) \/ LockFails(p) PROVE LockHolds'
  BY <1>2 DEF LockWithID, LockFails, LockIsFree
<1>3. ASSUME NEW p \in Procs, readClusterInfo(p) \/ Callback(p) PROVE LockHolds'
  BY <1>3 DEF readClusterInfo, Callback
<1>4. ASSUME NEW p \in Procs, CompareAndSet(p) \/ WriteTimesOut(p) PROVE LockHolds'
  BY <1>4, SMTT(60) DEF CompareAndSet, WriteTimesOut, Write
<1>5. ASSUME NEW p \in Procs, Unlock(p) \/ Return(p) PROVE LockHolds'
  BY <1>5 DEF Unlock, Return
<1>6. CASE LoseLock \/ UNCHANGED vars
  BY <1>6 DEF LoseLock, vars
<1>. QED
  BY <1>1, <1>2, <1>3, <1>4, <1>5, <1>6, SMTT(60) DEF Next, updateAndGetDB, lockAndUpdateDB

\* The inductive invariant holds in every reachable state.
THEOREM UpdateInvariant == Spec => [](UpdateInv /\ LockHolds)
<1>1. UpdateInv => TypeOK
  BY DEF UpdateInv
<1>. QED  BY <1>1, InitInv, NextUpdateInv, NextLockHolds, PTL DEF Spec

\* Every variable keeps its type.
THEOREM TypeCorrect == Spec => []TypeOK
<1>1. UpdateInv => TypeOK
  BY DEF UpdateInv
<1>. QED  BY <1>1, UpdateInvariant, PTL

\* As long as no lock is lost, no write finds the key modified.
THEOREM NoConflictUnderLockHolds == Spec => []NoConflictUnderLock
<1>1. LockHolds => NoConflictUnderLock
  BY SMTT(60) DEF LockHolds, NoConflictUnderLock, IndexMatches
<1>. QED  BY <1>1, UpdateInvariant, PTL

-----------------------------------------------------------------------------
(* updateDB is atomic                                                      *)

StateOf(p) ==
  IF pc[p] = "idle" THEN "idle"
  ELSE IF p \in wrote THEN "applied"
  ELSE IF pc[p] \in {"unlock", "return"} /\ ~Retries(p) THEN "refused"
  ELSE "open"

state == [p \in Procs |-> StateOf(p)]

\* A step of the database is a step of the abstract one, or changes nothing
\* there: only a write that finds its index unchanged has an effect.
LEMMA StepIsAtomic == UpdateInv /\ UpdateInv' /\ [Next]_vars => [Atomic!Next]_Atomic!vars
<1>. SUFFICES ASSUME UpdateInv, UpdateInv', [Next]_vars
              PROVE  Atomic!Next \/ UNCHANGED <<value, state, reply>>
  BY DEF Atomic!vars, state, StateOf
<1>0. TypeOK /\ VersionNamesValue /\ ResultTellsWrite
  BY DEF UpdateInv
<1>. USE DEF TypeOK, ResultTellsWrite
<1>a. ASSUME NEW p \in Procs, NEW s, StateOf(p)' = s,
             \A q \in Procs : q # p => StateOf(q)' = StateOf(q)
      PROVE  state' = [state EXCEPT ![p] = s]
  BY <1>a, Zenon DEF state
<1>b. ASSUME \A q \in Procs : StateOf(q)' = StateOf(q) PROVE UNCHANGED state
  BY <1>b DEF state
<1>c. ASSUME NEW p \in Procs, Atomic!Call(p) \/ Atomic!Apply(p) \/ Atomic!Refuse(p)
                                \/ Atomic!Return(p)
      PROVE  Atomic!Next
  BY <1>c DEF Atomic!Next
<1>d. ASSUME NEW p \in Procs, pc[p] \in {"lock", "read", "callback"},
             NEW s \in {"unlock", "return"}, pc' = [pc EXCEPT ![p] = s],
             NEW r \in {"nil", "error"}, result' = [result EXCEPT ![p] = r],
             UNCHANGED <<value, retry, reply, wrote>>
      PROVE  Atomic!Refuse(p)
  <2>1. p \notin wrote
    BY <1>0, <1>d
  <2>2. StateOf(p) = "open"
    BY <1>d, <2>1 DEF StateOf
  <2>3. pc'[p] = s /\ result'[p] = r
    BY <1>0, <1>d
  <2>4. StateOf(p)' = "refused"
    BY <1>d, <2>1, <2>3 DEF StateOf, Retries
  <2>5. ASSUME NEW q \in Procs, q # p PROVE StateOf(q)' = StateOf(q)
    <3>1. pc'[q] = pc[q] /\ result'[q] = result[q]
      BY <1>0, <1>d, <2>5
    <3>. QED  BY <1>d, <3>1 DEF StateOf, Retries
  <2>6. state[p] = "open" /\ state' = [state EXCEPT ![p] = "refused"]
    BY <1>a, <2>2, <2>4, <2>5 DEF state
  <2>. QED  BY <1>d, <2>6 DEF Atomic!Refuse, state, StateOf
<1>1. ASSUME NEW p \in Procs, NEW r \in BOOLEAN, Call(p, r)
      PROVE  Atomic!Call(p)
  <2>1. state[p] = "idle" /\ state' = [state EXCEPT ![p] = "open"]
    BY <1>0, <1>1, <1>a, ZenonT(60) DEF Call, StateOf, state, Retries
  <2>. QED  BY <1>1, <2>1 DEF Call, Atomic!Call, state, StateOf
<1>2. ASSUME NEW p \in Procs, LockWithID(p) PROVE UNCHANGED <<value, state, reply>>
  BY <1>0, <1>2, <1>b DEF LockWithID, StateOf, Retries
<1>3. ASSUME NEW p \in Procs, LockFails(p) PROVE Atomic!Refuse(p)
  BY <1>3, <1>d, Zenon DEF LockFails, store, locals
<1>4. ASSUME NEW p \in Procs, readClusterInfo(p)
      PROVE  Atomic!Refuse(p) \/ UNCHANGED <<value, state, reply>>
  <2>1. CASE pc' = [pc EXCEPT ![p] = "callback"]
    BY <1>0, <1>4, <2>1, <1>b, SMTT(60) DEF readClusterInfo, StateOf, Retries
  <2>2. CASE pc' = [pc EXCEPT ![p] = "unlock"] /\ result' = [result EXCEPT ![p] = "error"]
    BY <1>4, <2>2, <1>d, Zenon DEF readClusterInfo, store
  <2>. QED  BY <1>4, <2>1, <2>2 DEF readClusterInfo
<1>5. ASSUME NEW p \in Procs, Callback(p)
      PROVE  Atomic!Refuse(p) \/ UNCHANGED <<value, state, reply>>
  <2>1. CASE pc' = [pc EXCEPT ![p] = "write"] /\ UNCHANGED result
    BY <1>0, <1>5, <2>1, <1>b DEF Callback, StateOf, Retries
  <2>2. CASE /\ pc' = [pc EXCEPT ![p] = "unlock"]
             /\ \E r \in {"nil", "error"} : result' = [result EXCEPT ![p] = r]
    <3>1. PICK r \in {"nil", "error"} : result' = [result EXCEPT ![p] = r]
      BY <2>2, Zenon
    <3>. QED  BY <1>5, <2>2, <3>1, <1>d, Zenon DEF Callback, store
  <2>. QED  BY <1>5, <2>1, <2>2 DEF Callback
<1>6. ASSUME NEW p \in Procs, CompareAndSet(p) \/ WriteTimesOut(p), Write(p)
      PROVE  Atomic!Apply(p)
  <2>1. state[p] = "open" /\ state' = [state EXCEPT ![p] = "applied"]
    <3>1. /\ pc[p] = "write" /\ pc' = [pc EXCEPT ![p] = "unlock"] /\ wrote' = wrote \cup {p}
          /\ retry' = retry /\ \E r : result' = [result EXCEPT ![p] = r]
      BY <1>6 DEF CompareAndSet, WriteTimesOut, Write
    <3>2. state[p] = "open" /\ StateOf(p)' = "applied"
      BY <1>0, <3>1, SMTT(60) DEF StateOf, state
    <3>3. \A q \in Procs : q # p => StateOf(q)' = StateOf(q)
      BY <1>0, <3>1, SMTT(60) DEF StateOf, Retries
    <3>. QED  BY <1>a, <3>2, <3>3
  <2>2. value' = [value EXCEPT ![p] = @ + 1] /\ reply' = reply
    BY <1>0, <1>6 DEF NamesValue, CompareAndSet, WriteTimesOut, Write, IndexMatches, VersionNamesValue
  <2>. QED  BY <2>1, <2>2 DEF Atomic!Apply, state, StateOf
<1>7. ASSUME NEW p \in Procs, CompareAndSet(p) \/ WriteTimesOut(p), ~Write(p)
      PROVE  Atomic!Refuse(p) \/ UNCHANGED <<value, state, reply>>
  <2>1. /\ UNCHANGED <<value, wrote, retry, reply>>
        /\ pc[p] = "write" /\ pc' = [pc EXCEPT ![p] = "unlock"]
        /\ \E r \in {"ErrModified", "error"} : result' = [result EXCEPT ![p] = r]
    BY <1>7, SMTT(60) DEF CompareAndSet, WriteTimesOut
  <2>2. state[p] = "open" /\ \A q \in Procs : q # p => StateOf(q)' = StateOf(q)
    BY <1>0, <2>1, SMTT(60) DEF StateOf, state, Retries
  <2>3. StateOf(p)' \in {"refused", "open"}
    BY <1>0, <2>1, SMTT(60) DEF StateOf
  <2>4. CASE StateOf(p)' = "refused"
    BY <1>a, <2>1, <2>2, <2>4, SMTT(60) DEF Atomic!Refuse, state, StateOf
  <2>5. CASE StateOf(p)' = "open"
    BY <1>b, <2>1, <2>2, <2>5 DEF state
  <2>. QED  BY <2>3, <2>4, <2>5
<1>8. ASSUME NEW p \in Procs, Unlock(p) PROVE UNCHANGED <<value, state, reply>>
  BY <1>0, <1>8, <1>b DEF Unlock, StateOf, Retries
<1>9. ASSUME NEW p \in Procs, Return(p), Retries(p)
      PROVE  UNCHANGED <<value, state, reply>>
  BY <1>0, <1>9, <1>b, SMTT(60) DEF Return, StateOf, Retries
<1>10. ASSUME NEW p \in Procs, Return(p), ~Retries(p)
      PROVE  Atomic!Return(p)
  <2>1. state[p] \in {"applied", "refused"} /\ state' = [state EXCEPT ![p] = "idle"]
    <3>1. state[p] \in {"applied", "refused"} /\ StateOf(p)' = "idle"
      BY <1>0, <1>10 DEF Return, Returned, StateOf, state
    <3>2. \A q \in Procs : q # p => StateOf(q)' = StateOf(q)
      BY <1>0, <1>10 DEF Return, StateOf, Retries
    <3>. QED  BY <1>a, <3>1, <3>2
  <2>2. value' = value
    BY <1>10 DEF Return, Returned
  <2>3. \E r \in {"ok", "nil", "error"} :
          /\ r = "ok" => state[p] = "applied"
          /\ r = "nil" => state[p] = "refused"
          /\ reply' = [reply EXCEPT ![p] = r]
    BY <1>0, <1>10 DEF Return, Returned, StateOf, state
  <2>. QED  BY <2>1, <2>2, <2>3, Zenon DEF Atomic!Return, state, StateOf
<1>11. CASE LoseLock \/ UNCHANGED vars
  BY <1>0, <1>11, <1>b DEF LoseLock, vars, StateOf, Retries
<1>. QED
  BY <1>c, <1>1, <1>2, <1>3, <1>4, <1>5, <1>6, <1>7, <1>8, <1>9, <1>10, <1>11, SMTT(60)
  DEF Next, updateAndGetDB, lockAndUpdateDB

\* updateDB implements the atomic database.
THEOREM Refinement == Spec => ImplementsAtomicDB
<1>1. Init => Atomic!Init
  BY DEF Init, Atomic!Init
<1>. QED
  BY <1>1, StepIsAtomic, UpdateInvariant, PTL DEF Spec, ImplementsAtomicDB, Atomic!Spec
=============================================================================
