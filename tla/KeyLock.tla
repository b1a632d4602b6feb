------------------------------- MODULE KeyLock -------------------------------
(***************************************************************************)
(* pkg/keylock/keylock.go: locks on arbitrary keys, created on first use   *)
(* and deleted when the last user releases them.                           *)
(*                                                                         *)
(* A lock is a heap object with a mutex, a generation number and a         *)
(* reference count; lockMap says which object currently stands for a key.  *)
(* Acquire is three steps, because only the first runs under the keyLock's *)
(* own mutex: find or create the object and count a reference; block on    *)
(* the object's mutex; advance the generation and hand out a copy of the   *)
(* object as the handle.  Release runs wholly under that mutex.            *)
(***************************************************************************)
EXTENDS Integers, FiniteSets

CONSTANTS Threads,   \* goroutines that use the keyLock
          Keys,      \* the strings locked
          Objs,      \* identities of LockHandle objects on the heap
          NoKey, NoObj, Nobody,
          MaxGen     \* bound: no new reference to a lock of this generation

ASSUME KeyLockAssumption ==
  /\ IsFiniteSet(Threads)
  /\ NoKey \notin Keys
  /\ NoObj \notin Objs
  /\ Nobody \notin Threads
  /\ MaxGen \in Nat

VARIABLES lockMap,  \* keyLock.lockMap
          genNum, refcnt, locked,  \* the fields of each LockHandle object
          pc, key, obj,   \* what each thread is doing, with which object
          handle,   \* the LockHandle value each thread last got from Acquire
          fatal     \* the Go runtime stopped: unlock of unlocked mutex

vars == <<lockMap, genNum, refcnt, locked, pc, key, obj, handle, fatal>>

Handles == [id: Keys \cup {NoKey}, genNum: Nat, mutex: Objs \cup {NoObj}]

\* A LockHandle variable that no Acquire has filled in yet.
ZeroHandle == [id |-> NoKey, genNum |-> 0, mutex |-> NoObj]

TypeOK ==
  /\ lockMap \in [Keys -> Objs \cup {NoObj}]
  /\ genNum \in [Objs -> Nat]
  /\ refcnt \in [Objs -> Nat]
  /\ locked \in [Objs -> BOOLEAN]
  /\ pc \in [Threads -> {"idle", "lock", "gen", "held"}]
  /\ key \in [Threads -> Keys \cup {NoKey}]
  /\ obj \in [Threads -> Objs \cup {NoObj}]
  /\ handle \in [Threads -> Handles]
  /\ fatal \in BOOLEAN

Init ==
  /\ lockMap = [k \in Keys |-> NoObj]
  /\ genNum = [o \in Objs |-> 0]
  /\ refcnt = [o \in Objs |-> 0]
  /\ locked = [o \in Objs |-> FALSE]
  /\ pc = [t \in Threads |-> "idle"]
  /\ key = [t \in Threads |-> NoKey]
  /\ obj = [t \in Threads |-> NoObj]
  /\ handle = [t \in Threads |-> ZeroHandle]
  /\ fatal = FALSE

-----------------------------------------------------------------------------
(* Acquire                                                                 *)

\* An object nothing points to: the allocator may hand out its memory.
Unreachable(o) ==
  /\ \A k \in Keys : lockMap[k] # o
  /\ \A t \in Threads : obj[t] # o /\ handle[t].mutex # o

CreateLock(t, k) ==
  LET o == CHOOSE x \in Objs : Unreachable(x) IN
  /\ lockMap[k] = NoObj
  /\ \E x \in Objs : Unreachable(x)
  /\ lockMap' = [lockMap EXCEPT ![k] = o]
  /\ genNum' = [genNum EXCEPT ![o] = 0]
  /\ refcnt' = [refcnt EXCEPT ![o] = 1]
  /\ locked' = [locked EXCEPT ![o] = FALSE]
  /\ obj' = [obj EXCEPT ![t] = o]

GetLock(t, k) ==
  /\ lockMap[k] # NoObj
  /\ genNum[lockMap[k]] < MaxGen
  /\ refcnt' = [refcnt EXCEPT ![lockMap[k]] = @ + 1]
  /\ obj' = [obj EXCEPT ![t] = lockMap[k]]
  /\ UNCHANGED <<lockMap, genNum, locked>>

getOrCreateLock(t, k) ==
  /\ ~fatal
  /\ pc[t] = "idle"
  /\ \/ CreateLock(t, k)
     \/ GetLock(t, k)
  /\ pc' = [pc EXCEPT ![t] = "lock"]
  /\ key' = [key EXCEPT ![t] = k]
  /\ UNCHANGED <<handle, fatal>>

\* Mutant: a shared lock is taken instead of an exclusive one.
MutexShared(o) == TRUE

MutexFree(o) == ~locked[o]

MutexLock(t) ==
  /\ ~fatal
  /\ pc[t] = "lock"
  /\ MutexFree(obj[t])
  /\ locked' = [locked EXCEPT ![obj[t]] = TRUE]
  /\ pc' = [pc EXCEPT ![t] = "gen"]
  /\ UNCHANGED <<lockMap, genNum, refcnt, key, obj, handle, fatal>>

NextGen(o) == genNum[o] + 1

\* Mutant: the handle is copied before the generation advances.
CopyBeforeGen(t) == [id |-> key[t], genNum |-> genNum[obj[t]], mutex |-> obj[t]]

CopyOfLock(t) == [id |-> key[t], genNum |-> NextGen(obj[t]), mutex |-> obj[t]]

ReturnHandle(t) ==
  /\ ~fatal
  /\ pc[t] = "gen"
  /\ genNum' = [genNum EXCEPT ![obj[t]] = NextGen(obj[t])]
  /\ handle' = [handle EXCEPT ![t] = CopyOfLock(t)]
  /\ pc' = [pc EXCEPT ![t] = "held"]
  /\ UNCHANGED <<lockMap, refcnt, locked, key, obj, fatal>>

-----------------------------------------------------------------------------
(* Release                                                                 *)

\* The error Release returns for handle h, or "ok".
ReleaseOutcome(h) ==
  IF h.id = NoKey THEN "ErrInvalidHandle"
  ELSE IF lockMap[h.id] = NoObj THEN "ErrKeyLockNotFound"
  ELSE IF genNum[lockMap[h.id]] # h.genNum THEN "ErrInvalidHandle"
  ELSE "ok"

RefsLeft(o) == refcnt[o] - 1

\* Mutant: the key leaves the map although others wait for the lock.
DeleteAlways(o) == TRUE

\* Mutant: off by one, the key stays in the map without users.
DeleteLate(o) == RefsLeft(o) < 0

DeleteLock(o) == RefsLeft(o) = 0

\* mutex.Unlock(), refcnt--, and the key leaves the map with its last user.
\* Unlocking a mutex that is not locked stops the process.
Unlock(h) ==
  LET o == lockMap[h.id] IN
  /\ fatal' = ~locked[o]
  /\ locked' = [locked EXCEPT ![o] = FALSE]
  /\ refcnt' = [refcnt EXCEPT ![o] = RefsLeft(o)]
  /\ lockMap' = [lockMap EXCEPT ![h.id] = IF DeleteLock(o) THEN NoObj ELSE @]

Release(h) ==
  /\ ~fatal
  /\ \/ ReleaseOutcome(h) = "ok" /\ Unlock(h)
     \/ ReleaseOutcome(h) # "ok" /\ UNCHANGED <<lockMap, refcnt, locked, fatal>>

\* A holder gives its lock back, once; the variable that has the handle goes out
\* of scope.
ReleaseHeld(t) ==
  /\ pc[t] = "held"
  /\ Release(handle[t])
  /\ pc' = [pc EXCEPT ![t] = "idle"]
  /\ key' = [key EXCEPT ![t] = NoKey]
  /\ obj' = [obj EXCEPT ![t] = NoObj]
  /\ handle' = [handle EXCEPT ![t] = ZeroHandle]
  /\ UNCHANGED genNum

-----------------------------------------------------------------------------
Acquire(t) ==
  \/ \E k \in Keys : getOrCreateLock(t, k)
  \/ MutexLock(t)
  \/ ReturnHandle(t)

\* Callers that release each handle exactly once.
Next == \E t \in Threads : Acquire(t) \/ ReleaseHeld(t)

Spec == Init /\ [][Next]_vars

\* A critical section ends, and Go's mutex hands a waiter that keeps losing
\* the race the lock next (starvation mode), hence strong fairness of Lock.
Fairness ==
  \A t \in Threads : /\ WF_vars(ReleaseHeld(t))
                     /\ WF_vars(ReturnHandle(t))
                     /\ SF_vars(MutexLock(t))

FairSpec == Spec /\ Fairness

-----------------------------------------------------------------------------
(* Properties                                                              *)

Users(o) == {t \in Threads : pc[t] # "idle" /\ obj[t] = o}

Inside(t) == pc[t] \in {"gen", "held"}

\* Two threads never hold the lock of one key, although the object that
\* stands for the key is deleted and created anew as users come and go.
MutualExclusion ==
  \A t, u \in Threads : Inside(t) /\ Inside(u) /\ key[t] = key[u] => t = u

\* The lock of a key is deleted exactly when its last user releases it: no
\* thread waits on or holds an object the map has dropped, and no object
\* without users stays in the map (Release's refcnt and delete).
MapMatchesUsers ==
  /\ \A t \in Threads : pc[t] # "idle" => lockMap[key[t]] = obj[t]
  /\ \A k \in Keys : lockMap[k] # NoObj =>
       /\ Users(lockMap[k]) # {}
       /\ refcnt[lockMap[k]] = Cardinality(Users(lockMap[k]))

\* A holder's own Release is accepted and unlocks a locked mutex, so the
\* error paths of Release and the runtime's panic are never met by a caller
\* that releases once.
HolderCanRelease ==
  /\ ~fatal
  /\ \A t \in Threads : pc[t] = "held" =>
       ReleaseOutcome(handle[t]) = "ok" /\ locked[lockMap[handle[t].id]]

HolderOf(k) ==
  IF \E t \in Threads : Inside(t) /\ key[t] = k
  THEN CHOOSE t \in Threads : Inside(t) /\ key[t] = k
  ELSE Nobody

Mutexes == INSTANCE MutexPerKey WITH holder <- [k \in Keys |-> HolderOf(k)]

\* The keyLock implements one mutex per key: a thread takes a key's lock
\* when it locks the object's mutex and gives it back in Release.
ImplementsMutexPerKey == Mutexes!Spec

\* Every Acquire returns (callers hold a lock for a finite time).
AcquireReturns == \A t \in Threads : pc[t] = "lock" ~> pc[t] = "held"
=============================================================================
