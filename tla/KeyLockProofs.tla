---------------------------- MODULE KeyLockProofs ----------------------------
(***************************************************************************)
(* Proofs about KeyLock for any threads, keys and lock objects.            *)
(***************************************************************************)
EXTENDS KeyLock, TLAPS

\* Threads outside Acquire and Release have no object; the others are on the
\* object their key maps to.
OnMappedObject ==
  \A t \in Threads :
    /\ pc[t] = "idle" => obj[t] = NoObj
    /\ pc[t] # "idle" => /\ key[t] \in Keys
                         /\ obj[t] \in Objs
                         /\ lockMap[key[t]] = obj[t]

\* No two keys share an object.
KeysApart ==
  \A j, k \in Keys : lockMap[j] = lockMap[k] /\ lockMap[k] # NoObj => j = k

\* The reference count of a mapped object counts its users, at least one.
RefsCountUsers ==
  \A k \in Keys : lockMap[k] # NoObj =>
    /\ Users(lockMap[k]) # {}
    /\ refcnt[lockMap[k]] = Cardinality(Users(lockMap[k]))

\* A thread that got past mutex.Lock() is alone with a locked mutex.
MutexHeld ==
  \A t \in Threads : Inside(t) =>
    /\ locked[obj[t]]
    /\ \A u \in Threads : Inside(u) /\ obj[u] = obj[t] => u = t

\* The handle of a holder is a copy of the object as it now is.
HandleIsCopy ==
  \A t \in Threads : pc[t] = "held" =>
    handle[t] = [id |-> key[t], genNum |-> genNum[obj[t]], mutex |-> obj[t]]

\* The inductive invariant.
LockInv == 
  /\ TypeOK
  /\ ~fatal
  /\ OnMappedObject
  /\ KeysApart
  /\ RefsCountUsers
  /\ MutexHeld
  /\ HandleIsCopy

\* What the proofs use of the cardinality of sets of threads.
Counting ==
  \A S \in SUBSET Threads :
    /\ Cardinality(S) \in Nat
    /\ Cardinality(S) = 0 <=> S = {}
    /\ \A t \in Threads \ S : Cardinality(S \cup {t}) = Cardinality(S) + 1
    /\ \A t \in S : Cardinality(S \ {t}) = Cardinality(S) - 1

USE KeyLockAssumption

-----------------------------------------------------------------------------
\* Initially no lock exists and no thread uses one.
LEMMA InitLockInv == Init => LockInv
<1>. SUFFICES ASSUME Init PROVE LockInv
  OBVIOUS
<1>1. TypeOK
  <2>1. ZeroHandle \in Handles
    BY DEF ZeroHandle, Handles
  <2>2. handle \in [Threads -> Handles]
    BY <2>1 DEF Init
  <2>3. locked \in [Objs -> BOOLEAN] /\ fatal \in BOOLEAN
    BY Zenon DEF Init
  <2>. QED  BY <2>2, <2>3 DEF Init, TypeOK
<1>2. OnMappedObject /\ KeysApart /\ MutexHeld /\ HandleIsCopy
  BY DEF Init, OnMappedObject, KeysApart, MutexHeld, HandleIsCopy, Inside
<1>3. RefsCountUsers
  BY DEF Init, RefsCountUsers
<1>. QED  BY <1>1, <1>2, <1>3 DEF Init, LockInv

\* A step of Acquire's first part: find or create the lock and count a user.
LEMMA getOrCreateLockInv ==
  ASSUME Counting, LockInv, NEW t \in Threads, NEW k \in Keys, getOrCreateLock(t, k)
  PROVE  LockInv'
<1>. USE DEF LockInv
<1>0. PICK o \in Objs :
        /\ lockMap' = [lockMap EXCEPT ![k] = o]
        /\ obj' = [obj EXCEPT ![t] = o]
        /\ \/ /\ lockMap[k] = o
              /\ refcnt' = [refcnt EXCEPT ![o] = @ + 1]
              /\ UNCHANGED <<genNum, locked>>
           \/ /\ lockMap[k] = NoObj
              /\ Unreachable(o)
              /\ genNum' = [genNum EXCEPT ![o] = 0]
              /\ refcnt' = [refcnt EXCEPT ![o] = 1]
              /\ locked' = [locked EXCEPT ![o] = FALSE]
  <2>1. CASE CreateLock(t, k)
    <3>1. PICK x \in Objs : Unreachable(x)
      BY <2>1 DEF CreateLock
    <3>. DEFINE c == CHOOSE x1 \in Objs : Unreachable(x1)
    <3>2. c \in Objs /\ Unreachable(c)
      BY <3>1
    <3>3. /\ lockMap' = [lockMap EXCEPT ![k] = c]
          /\ obj' = [obj EXCEPT ![t] = c]
          /\ genNum' = [genNum EXCEPT ![c] = 0]
          /\ refcnt' = [refcnt EXCEPT ![c] = 1]
          /\ locked' = [locked EXCEPT ![c] = FALSE]
      BY <2>1 DEF CreateLock
    <3>4. lockMap[k] = NoObj
      BY <2>1 DEF CreateLock
    <3>. HIDE DEF c
    <3>. QED  BY <3>2, <3>3, <3>4, Zenon
  <2>2. CASE GetLock(t, k)
    BY <2>2, Zenon DEF GetLock, TypeOK
  <2>. QED  BY <2>1, <2>2 DEF getOrCreateLock
<1>1. /\ pc' = [pc EXCEPT ![t] = "lock"]
      /\ key' = [key EXCEPT ![t] = k]
      /\ pc[t] = "idle" /\ obj[t] = NoObj
      /\ handle' = handle
      /\ fatal' = fatal
  BY DEF getOrCreateLock, OnMappedObject
<1>. HIDE DEF LockInv
<1>1a. /\ TypeOK /\ OnMappedObject /\ KeysApart
       /\ RefsCountUsers /\ MutexHeld /\ HandleIsCopy
  BY DEF LockInv
<1>1b. \A j \in Keys \ {k} : lockMap[j] # o
  BY <1>0, <1>1a DEF Unreachable, KeysApart
<1>2. /\ Users(o)' = Users(o) \cup {t}
      /\ t \notin Users(o)
      /\ \A x \in Objs \ {o} : Users(x)' = Users(x)
  BY <1>0, <1>1, <1>1a DEF Users, TypeOK
<1>3. /\ refcnt'[o] = Cardinality(Users(o)) + 1
      /\ \A u \in Threads : obj[u] = o => UNCHANGED <<genNum[o], locked[o]>>
  <2>1. CASE Unreachable(o)
    <3>1. Users(o) = {}
      BY <2>1 DEF Unreachable, Users
    <3>2. Cardinality(Users(o)) = 0
      BY <3>1, Zenon DEF Counting
    <3>. QED  BY <1>0, <1>1a, <2>1, <3>2, SMTT(60) DEF Unreachable, TypeOK
  <2>2. CASE ~Unreachable(o)
    BY <1>0, <1>1a, <2>2, SMTT(60) DEF RefsCountUsers, TypeOK
  <2>. QED  BY <2>1, <2>2
<1>4. TypeOK'
  <2>1. locked' \in [Objs -> BOOLEAN]
    <3>1. CASE locked' = locked
      BY <1>1a, <3>1 DEF TypeOK
    <3>2. CASE locked' = [locked EXCEPT ![o] = FALSE]
      BY <1>1a, <3>2, Zenon DEF TypeOK
    <3>. QED  BY <1>0, <3>1, <3>2, SMTT(60)
  <2>2. genNum' \in [Objs -> Nat] /\ refcnt' \in [Objs -> Nat]
    BY <1>0, <1>1a, SMTT(60) DEF TypeOK
  <2>. QED  BY <1>0, <1>1, <1>1a, <2>1, <2>2, SMTT(60) DEF TypeOK
<1>5. OnMappedObject'
  BY <1>0, <1>1, <1>1a, SMTT(60) DEF OnMappedObject, TypeOK
<1>8. KeysApart'
  BY <1>0, <1>1a, <1>1b, SMTT(60) DEF KeysApart, TypeOK
<1>6. RefsCountUsers'
  <2>. SUFFICES ASSUME NEW j \in Keys, lockMap'[j] # NoObj
                PROVE  /\ Users(lockMap[j])' # {}
                       /\ refcnt'[lockMap'[j]] = Cardinality(Users(lockMap[j])')
    BY DEF RefsCountUsers
  <2>1. PICK x \in Objs : x = lockMap'[j]
    BY <1>4 DEF TypeOK
  <2>2. Users(lockMap[j])' = Users(x)'
    BY <2>1, SMTT(60) DEF Users
  <2>3. CASE x = o
    <3>1. Cardinality(Users(o) \cup {t}) = Cardinality(Users(o)) + 1
      BY <1>2, Zenon DEF Counting, Users
    <3>. QED  BY <1>2, <1>3, <2>1, <2>2, <2>3, <3>1, SMTT(60)
  <2>4. CASE x # o
    <3>1. lockMap[j] = x /\ refcnt'[x] = refcnt[x] /\ Users(x)' = Users(x)
      BY <1>0, <1>1a, <1>2, <2>1, <2>4 DEF TypeOK
    <3>. QED  BY <1>1a, <2>1, <2>2, <3>1 DEF RefsCountUsers
  <2>. QED  BY <2>3, <2>4, SMTT(60)
<1>7. MutexHeld' /\ HandleIsCopy'
  BY <1>0, <1>1, <1>1a, <1>3
  DEF MutexHeld, HandleIsCopy, OnMappedObject, Inside, TypeOK
<1>. QED  BY <1>1, <1>4, <1>5, <1>6, <1>7, <1>8 DEF LockInv

\* Taking the mutex: nobody else is past it, because it was unlocked.
LEMMA MutexLockInv ==
  ASSUME LockInv, NEW t \in Threads, MutexLock(t)
  PROVE  LockInv'
<1>. USE DEF LockInv, MutexLock, MutexFree
<1>1. \A x : Users(x)' = Users(x)
  BY SMTT(60) DEF Users, TypeOK
<1>2. TypeOK' /\ OnMappedObject' /\ KeysApart'
  BY SMTT(60) DEF TypeOK, OnMappedObject, KeysApart
<1>3. RefsCountUsers'
  <2>1. \A k \in Keys : Users(lockMap[k])' = Users(lockMap[k])
    BY SMTT(60) DEF Users, TypeOK
  <2>. QED  BY <2>1 DEF RefsCountUsers
<1>4. MutexHeld' /\ HandleIsCopy'
  BY SMTT(60) DEF MutexHeld, HandleIsCopy, OnMappedObject, Inside, TypeOK
<1>. QED  BY <1>2, <1>3, <1>4, SMTT(60)

\* The new holder's handle is a copy of its object; no other holder has one.
LEMMA ReturnHandleInv ==
  ASSUME LockInv, NEW t \in Threads, ReturnHandle(t)
  PROVE  LockInv'
<1>. USE DEF LockInv, ReturnHandle, NextGen, CopyOfLock
<1>0. key[t] \in Keys /\ obj[t] \in Objs /\ Inside(t)
  BY SMTT(60) DEF OnMappedObject, Inside
<1>1. TypeOK'
  <2>1. handle'[t] \in Handles
    BY <1>0, SMTT(60) DEF Handles, TypeOK
  <2>2. handle' \in [Threads -> Handles]
    BY <2>1, SMTT(60) DEF TypeOK
  <2>. QED  BY <1>0, <2>2, SMTT(60) DEF TypeOK
<1>2. OnMappedObject' /\ KeysApart'
  BY SMTT(60) DEF TypeOK, OnMappedObject, KeysApart
<1>3. RefsCountUsers'
  <2>1. \A k \in Keys : Users(lockMap[k])' = Users(lockMap[k])
    BY SMTT(60) DEF Users, TypeOK
  <2>. QED  BY <2>1, Zenon DEF RefsCountUsers
<1>4. MutexHeld'
  BY SMTT(60) DEF MutexHeld, Inside, TypeOK
<1>5. HandleIsCopy'
  BY <1>0, SMTT(60) DEF HandleIsCopy, MutexHeld, OnMappedObject, Inside, TypeOK
<1>. QED  BY <1>1, <1>2, <1>3, <1>4, <1>5, Zenon

\* A holder's Release: the handle is accepted, the mutex was locked, and the
\* key leaves the map when the holder was the object's only user.
LEMMA ReleaseHeldInv ==
  ASSUME Counting, LockInv, NEW t \in Threads, ReleaseHeld(t)
  PROVE  LockInv'
<1>0. PICK o, k : o = obj[t] /\ k = key[t]
  OBVIOUS
<1>1. /\ TypeOK /\ ~fatal /\ OnMappedObject /\ KeysApart
      /\ RefsCountUsers /\ MutexHeld /\ HandleIsCopy
  BY SMTT(60) DEF LockInv
<1>2. /\ pc[t] = "held" /\ k \in Keys /\ o \in Objs /\ lockMap[k] = o
      /\ handle[t] = [id |-> k, genNum |-> genNum[o], mutex |-> o]
      /\ locked[o]
  BY <1>0, <1>1, SMTT(60) DEF ReleaseHeld, OnMappedObject, HandleIsCopy, MutexHeld, Inside
<1>3. ReleaseOutcome(handle[t]) = "ok"
  BY <1>2 DEF ReleaseOutcome
<1>4. /\ fatal' = FALSE
      /\ locked' = [locked EXCEPT ![o] = FALSE]
      /\ refcnt' = [refcnt EXCEPT ![o] = @ - 1]
      /\ lockMap' = [lockMap EXCEPT ![k] = IF refcnt[o] - 1 = 0 THEN NoObj ELSE @]
      /\ pc' = [pc EXCEPT ![t] = "idle"]
      /\ key' = [key EXCEPT ![t] = NoKey]
      /\ obj' = [obj EXCEPT ![t] = NoObj]
      /\ handle' = [handle EXCEPT ![t] = ZeroHandle]
      /\ genNum' = genNum
  <2>1. Unlock(handle[t])
    BY <1>3, SMTT(60) DEF ReleaseHeld, Release
  <2>2. handle[t].id = k
    BY <1>2
  <2>3. /\ fatal' = ~locked[o]
        /\ locked' = [locked EXCEPT ![o] = FALSE]
        /\ refcnt' = [refcnt EXCEPT ![o] = @ - 1]
        /\ lockMap' = [lockMap EXCEPT ![k] = IF refcnt[o] - 1 = 0 THEN NoObj ELSE @]
    BY <1>2, <2>1, <2>2, Zenon DEF Unlock, RefsLeft, DeleteLock
  <2>4. fatal' = FALSE
    BY <1>2, <2>3, ZenonT(60)
  <2>. QED  BY <2>3, <2>4, Zenon DEF ReleaseHeld
<1>6. /\ t \in Users(o)
      /\ Users(o)' = Users(o) \ {t}
      /\ \A x \in Objs \ {o} : Users(x)' = Users(x)
  BY <1>0, <1>1, <1>2, <1>4, SMTT(60) DEF Users, TypeOK
<1>7. /\ Cardinality(Users(o) \ {t}) = refcnt[o] - 1
      /\ refcnt[o] = 1 <=> Users(o) \ {t} = {}
  <2>1. refcnt[o] = Cardinality(Users(o))
    BY <1>1, <1>2, SMTT(60) DEF RefsCountUsers
  <2>2. Users(o) \in SUBSET Threads /\ Users(o) \ {t} \in SUBSET Threads
    BY Zenon DEF Users
  <2>3. /\ Cardinality(Users(o) \ {t}) = Cardinality(Users(o)) - 1
        /\ Cardinality(Users(o)) \in Nat
        /\ Cardinality(Users(o) \ {t}) = 0 <=> Users(o) \ {t} = {}
    BY <1>6, <2>2, Zenon DEF Counting
  <2>. QED  BY <2>1, <2>3
<1>5. TypeOK'
  <2>1. ZeroHandle \in Handles
    BY DEF ZeroHandle, Handles
  <2>2. locked' \in [Objs -> BOOLEAN] /\ fatal' \in BOOLEAN
    BY <1>1, <1>4, Zenon DEF TypeOK
  <2>3. refcnt[o] - 1 \in Nat
    <3>1. Users(o) \ {t} \in SUBSET Threads
      BY Zenon DEF Users
    <3>2. Cardinality(Users(o) \ {t}) \in Nat
      BY <3>1, Zenon DEF Counting
    <3>. QED  BY <1>7, <3>2, Zenon
  <2>. QED  BY <1>1, <1>2, <1>4, <2>1, <2>2, <2>3, SMTT(60) DEF TypeOK
<1>8. OnMappedObject'
  <2>. SUFFICES ASSUME NEW u \in Threads
                PROVE  /\ pc'[u] = "idle" => obj'[u] = NoObj
                       /\ pc'[u] # "idle" => /\ key'[u] \in Keys
                                             /\ obj'[u] \in Objs
                                             /\ lockMap'[key'[u]] = obj'[u]
    BY SMTT(60) DEF OnMappedObject
  <2>1. CASE u = t
    BY <1>1, <1>4, <2>1, SMTT(60) DEF TypeOK
  <2>2. CASE u # t /\ pc[u] # "idle" /\ key[u] = k
    <3>1. u \in Users(o) \ {t}
      BY <1>1, <1>2, <2>2, Zenon DEF Users, OnMappedObject
    <3>. QED  BY <1>1, <1>2, <1>4, <1>7, <2>2, <3>1, SMTT(60) DEF OnMappedObject, TypeOK
  <2>3. CASE u # t /\ ~(pc[u] # "idle" /\ key[u] = k)
    BY <1>1, <1>2, <1>4, <2>3, SMTT(60) DEF OnMappedObject, TypeOK
  <2>. QED  BY <2>1, <2>2, <2>3, Zenon
<1>9. KeysApart'
  BY <1>1, <1>2, <1>4, SMTT(60) DEF KeysApart, TypeOK
<1>10. RefsCountUsers'
  <2>. SUFFICES ASSUME NEW j \in Keys, lockMap'[j] # NoObj
                PROVE  /\ Users(lockMap[j])' # {}
                       /\ refcnt'[lockMap'[j]] = Cardinality(Users(lockMap[j])')
    BY DEF RefsCountUsers
  <2>1. PICK x \in Objs : x = lockMap'[j]
    BY <1>5, SMTT(60) DEF TypeOK
  <2>2. Users(lockMap[j])' = Users(x)' /\ lockMap[j] = x
    BY <1>1, <1>2, <1>4, <2>1, SMTT(60) DEF Users, TypeOK
  <2>3. CASE x = o
    <3>1. j = k /\ refcnt[o] # 1
      BY <1>1, <1>2, <1>4, <2>1, <2>2, <2>3 DEF KeysApart, TypeOK
    <3>. QED  BY <1>1, <1>4, <1>6, <1>7, <2>1, <2>2, <2>3, <3>1, ZenonT(60) DEF TypeOK
  <2>4. CASE x # o
    <3>1. Users(x)' = Users(x) /\ refcnt'[x] = refcnt[x]
      BY <1>1, <1>4, <1>6, <2>4, SMTT(60) DEF TypeOK
    <3>. QED  BY <1>1, <2>1, <2>2, <3>1 DEF RefsCountUsers
  <2>. QED  BY <2>3, <2>4, SMTT(60)
<1>11. MutexHeld' /\ HandleIsCopy'
  BY <1>1, <1>2, <1>4, SMTT(60) DEF MutexHeld, HandleIsCopy, OnMappedObject, Inside, TypeOK
<1>. QED  BY <1>4, <1>5, <1>8, <1>9, <1>10, <1>11, SMTT(60) DEF LockInv

\* Every step of callers that release once preserves the invariant.
LEMMA NextLockInv == Counting /\ LockInv /\ [Next]_vars => LockInv'
<1>. SUFFICES ASSUME Counting, LockInv, [Next]_vars PROVE LockInv'
  OBVIOUS
<1>1. ASSUME NEW t \in Threads, NEW k \in Keys, getOrCreateLock(t, k) PROVE LockInv'
  BY <1>1, getOrCreateLockInv
<1>2. ASSUME NEW t \in Threads, MutexLock(t) PROVE LockInv'
  BY <1>2, MutexLockInv
<1>3. ASSUME NEW t \in Threads, ReturnHandle(t) PROVE LockInv'
  BY <1>3, ReturnHandleInv, SMTT(60)
<1>4. ASSUME NEW t \in Threads, ReleaseHeld(t) PROVE LockInv'
  BY <1>4, ReleaseHeldInv
<1>5. CASE UNCHANGED vars
  <2>1. \A k \in Keys : Users(lockMap[k])' = Users(lockMap[k])
    BY <1>5, SMTT(60) DEF vars, Users
  <2>2. RefsCountUsers'
    BY <1>5, <2>1, SMTT(60) DEF vars, LockInv, RefsCountUsers
  <2>3. TypeOK' /\ ~fatal'
    BY <1>5, SMTT(60) DEF vars, LockInv, TypeOK
  <2>4. OnMappedObject' /\ KeysApart' /\ MutexHeld' /\ HandleIsCopy'
    BY <1>5, Zenon DEF vars, LockInv, OnMappedObject, KeysApart, MutexHeld, HandleIsCopy,
                Inside
  <2>. QED  BY <2>2, <2>3, <2>4, SMTT(60) DEF LockInv
<1>. QED  BY <1>1, <1>2, <1>3, <1>4, <1>5, SMTT(60) DEF Next, Acquire

-----------------------------------------------------------------------------
(* The keyLock implements one mutex per key.                               *)

\* The abstract holder of a key is the thread inside its lock.
LEMMA HolderIs ==
  LockInv => \A t \in Threads : Inside(t) => HolderOf(key[t]) = t
<1>. SUFFICES ASSUME LockInv, NEW t \in Threads, Inside(t)
              PROVE  HolderOf(key[t]) = t
  BY SMTT(60)
<1>1. \A u \in Threads : Inside(u) /\ key[u] = key[t] => u = t
  BY SMTT(60) DEF LockInv, OnMappedObject, MutexHeld, Inside
<1>. QED  BY <1>1 DEF HolderOf

\* A key whose insiders do not change keeps its holder.
LEMMA SameHolder ==
  ASSUME LockInv, LockInv', NEW k \in Keys,
         \A u \in Threads : (Inside(u) /\ key[u] = k)' <=> Inside(u) /\ key[u] = k
  PROVE  HolderOf(k)' = HolderOf(k)
<1>1. CASE \E u \in Threads : Inside(u) /\ key[u] = k
  <2>1. PICK u \in Threads : Inside(u) /\ key[u] = k
    BY <1>1, SMTT(60)
  <2>2. HolderOf(k) = u
    BY <2>1, HolderIs
  <2>3. (\A t \in Threads : Inside(t) => HolderOf(key[t]) = t)'
    BY HolderIs, PTL
  <2>4. Inside(u)' /\ key'[u] = k
    BY <2>1, SMTT(60)
  <2>5. HolderOf(k)' = u
    BY <2>3, <2>4, SMTT(60) DEF HolderOf
  <2>. QED  BY <2>2, <2>5, SMTT(60)
<1>2. CASE ~\E u \in Threads : Inside(u) /\ key[u] = k
  BY <1>2, SMTT(60) DEF HolderOf
<1>. QED  BY <1>1, <1>2, SMTT(60)

\* Locking an object's mutex takes the key's abstract mutex, Release gives it
\* back, and the other steps of Acquire change no holder.
LEMMA StepRefines ==
  LockInv /\ LockInv' /\ [Next]_vars
    => [Mutexes!Next]_([k \in Keys |-> HolderOf(k)])
<1>. DEFINE holder == [k \in Keys |-> HolderOf(k)]
<1>. SUFFICES ASSUME LockInv, LockInv', [Next]_vars
              PROVE  Mutexes!Next \/ holder' = holder
  OBVIOUS
<1>0. (\A t \in Threads : Inside(t) => HolderOf(key[t]) = t)'
  BY HolderIs, PTL
<1>1. ASSUME NEW t \in Threads, NEW k \in Keys, getOrCreateLock(t, k)
      PROVE  holder' = holder
  <2>1. \A j \in Keys : \A u \in Threads :
          (Inside(u) /\ key[u] = j)' <=> Inside(u) /\ key[u] = j
    BY <1>1, SMTT(60) DEF getOrCreateLock, Inside, LockInv, TypeOK
  <2>. QED  BY <2>1, SameHolder, SMTT(60)
<1>2. ASSUME NEW t \in Threads, ReturnHandle(t)
      PROVE  holder' = holder
  <2>1. \A j \in Keys : \A u \in Threads :
          (Inside(u) /\ key[u] = j)' <=> Inside(u) /\ key[u] = j
    BY <1>2, SMTT(60) DEF ReturnHandle, Inside, LockInv, TypeOK
  <2>. QED  BY <2>1, SameHolder, Zenon
<1>3. ASSUME NEW t \in Threads, MutexLock(t)
      PROVE  Mutexes!Next
  <2>1. PICK k \in Keys : k = key[t]
    BY <1>3, Zenon DEF MutexLock, LockInv, OnMappedObject
  <2>2. HolderOf(k) = Nobody
    BY <1>3, <2>1 DEF MutexLock, MutexFree, HolderOf, LockInv, OnMappedObject, MutexHeld, Inside
  <2>3. HolderOf(k)' = t
    <3>1. Inside(t)' /\ key'[t] = k
      BY <1>3, <2>1, SMTT(60) DEF MutexLock, Inside, LockInv, TypeOK
    <3>. QED  BY <1>0, <3>1, SMTT(60) DEF HolderOf
  <2>4. \A j \in Keys \ {k} : HolderOf(j)' = HolderOf(j)
    <3>1. \A j \in Keys \ {k} : \A u \in Threads :
            (Inside(u) /\ key[u] = j)' <=> Inside(u) /\ key[u] = j
      BY <1>3, <2>1, SMTT(60) DEF MutexLock, Inside, LockInv, TypeOK
    <3>. QED  BY <3>1, SameHolder, Zenon
  <2>5. holder[k] = Nobody /\ holder' = [holder EXCEPT ![k] = t]
    <3>1. holder' = [j \in Keys |-> IF j = k THEN t ELSE HolderOf(j)]
      BY <2>3, <2>4, Zenon
    <3>. QED  BY <2>2, <3>1, Zenon
  <2>. QED  BY <2>5, Zenon DEF Mutexes!Next, Mutexes!Take
<1>4. ASSUME NEW t \in Threads, ReleaseHeld(t)
      PROVE  Mutexes!Next
  <2>1. PICK k \in Keys : k = key[t]
    BY <1>4, Zenon DEF ReleaseHeld, LockInv, OnMappedObject
  <2>2. HolderOf(k) = t
    BY <1>4, <2>1, HolderIs, SMTT(60) DEF ReleaseHeld, Inside
  <2>3. HolderOf(k)' = Nobody
    <3>1. \A u \in Threads : Inside(u) /\ key[u] = k => u = t
      BY <1>4, <2>1, SMTT(60) DEF ReleaseHeld, LockInv, OnMappedObject, MutexHeld, Inside
    <3>2. pc \in [Threads -> {"idle", "lock", "gen", "held"}] /\ key \in [Threads -> Keys \cup {NoKey}]
      BY Zenon DEF LockInv, TypeOK
    <3>3. pc'[t] = "idle" /\ \A u \in Threads \ {t} : pc'[u] = pc[u] /\ key'[u] = key[u]
      BY <1>4, <3>2 DEF ReleaseHeld
    <3>4. \A u \in Threads : ~(Inside(u)' /\ key'[u] = k)
      BY <3>1, <3>3, Zenon DEF Inside
    <3>. QED  BY <3>4 DEF HolderOf
  <2>4. \A j \in Keys \ {k} : HolderOf(j)' = HolderOf(j)
    <3>1. \A j \in Keys \ {k} : \A u \in Threads :
            (Inside(u) /\ key[u] = j)' <=> Inside(u) /\ key[u] = j
      BY <1>4, <2>1, SMTT(60) DEF ReleaseHeld, Inside, LockInv, TypeOK
    <3>. QED  BY <3>1, SameHolder
  <2>5. holder[k] = t /\ holder' = [holder EXCEPT ![k] = Nobody]
    <3>1. holder' = [j \in Keys |-> IF j = k THEN Nobody ELSE HolderOf(j)]
      BY <2>3, <2>4, Zenon
    <3>. QED  BY <2>2, <3>1, Zenon
  <2>. QED  BY <2>5, Zenon DEF Mutexes!Next, Mutexes!Give
<1>5. CASE UNCHANGED vars
  <2>1. \A j \in Keys : \A u \in Threads :
          (Inside(u) /\ key[u] = j)' <=> Inside(u) /\ key[u] = j
    BY <1>5, Zenon DEF vars, Inside
  <2>. QED  BY <2>1, SameHolder, Zenon
<1>. QED  BY <1>1, <1>2, <1>3, <1>4, <1>5, SMTT(60) DEF Next, Acquire

-----------------------------------------------------------------------------
(* The threads are finitely many, so the counts are numbers.               *)

INSTANCE FiniteSetTheorems

\* Cardinalities of sets of threads count.
LEMMA CountingHolds == Counting
<1>. SUFFICES ASSUME NEW S \in SUBSET Threads
              PROVE  /\ Cardinality(S) \in Nat
                     /\ Cardinality(S) = 0 <=> S = {}
                     /\ \A t \in Threads \ S : Cardinality(S \cup {t}) = Cardinality(S) + 1
                     /\ \A t \in S : Cardinality(S \ {t}) = Cardinality(S) - 1
  BY Zenon DEF Counting
<1>1. IsFiniteSet(S)
  BY FS_Subset, ZenonT(60)
<1>. QED  BY <1>1, FS_CardinalityType, FS_EmptySet, FS_AddElement, FS_RemoveElement, Zenon

\* The inductive invariant holds in every reachable state.
THEOREM LockInvariant == Spec => []LockInv
BY InitLockInv, NextLockInv, CountingHolds, PTL DEF Spec

\* Every variable keeps its type.
THEOREM TypeCorrect == Spec => []TypeOK
<1>1. LockInv => TypeOK
  BY DEF LockInv
<1>. QED  BY <1>1, LockInvariant, PTL

\* No two threads are ever inside the lock of one key.
THEOREM MutualExclusionHolds == Spec => []MutualExclusion
<1>1. LockInv => MutualExclusion
  BY SMTT(60) DEF LockInv, MutualExclusion, OnMappedObject, MutexHeld, Inside
<1>. QED  BY <1>1, LockInvariant, PTL

\* A lock is in the map exactly while it has users.
THEOREM MapMatchesUsersHolds == Spec => []MapMatchesUsers
<1>1. LockInv => MapMatchesUsers
  BY Zenon  DEF LockInv, MapMatchesUsers, OnMappedObject, RefsCountUsers
<1>. QED  BY <1>1, LockInvariant, PTL

\* The Release of a holder succeeds and never meets the runtime's panic.
THEOREM HolderCanReleaseHolds == Spec => []HolderCanRelease
<1>1. LockInv => HolderCanRelease
  <2>. SUFFICES ASSUME LockInv, NEW t \in Threads, pc[t] = "held"
                PROVE  /\ ReleaseOutcome(handle[t]) = "ok"
                       /\ locked[lockMap[handle[t].id]]
    BY Zenon  DEF LockInv, HolderCanRelease
  <2>1. /\ key[t] \in Keys /\ obj[t] \in Objs /\ lockMap[key[t]] = obj[t]
        /\ handle[t] = [id |-> key[t], genNum |-> genNum[obj[t]], mutex |-> obj[t]]
    BY Zenon DEF LockInv, OnMappedObject, HandleIsCopy
  <2>2. locked[obj[t]]
    BY DEF LockInv, MutexHeld, Inside
  <2>. QED  BY <2>1, <2>2, SMTT(60) DEF ReleaseOutcome
<1>. QED  BY <1>1, LockInvariant, PTL

\* Every behaviour of the keyLock, seen through who is inside each key's lock,
\* is a behaviour of one mutex per key.
THEOREM Refinement == Spec => ImplementsMutexPerKey
<1>1. Init => Mutexes!Init
  BY Zenon DEF Init, Mutexes!Init, HolderOf, Inside
<1>. QED  BY <1>1, StepRefines, LockInvariant, PTL
          DEF Spec, ImplementsMutexPerKey, Mutexes!Spec
=============================================================================
