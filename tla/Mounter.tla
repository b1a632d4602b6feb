------------------------------ MODULE Mounter ------------------------------
(***************************************************************************)
(* The mount table of pkg/mount/mount.go.  A Mounter maps a device to an   *)
(* Info, the list of paths the device is mounted at.  Three locks guard    *)
(* it: the Mounter's mutex (held only inside one action here), one mutex   *)
(* per Info, and one key lock per path (module KeyLock).  Several calls    *)
(* run at once, and a removal of a mount path that was asked to wait runs  *)
(* in a goroutine of the scheduler.                                        *)
(*                                                                         *)
(* Info is a pointer in the code: an Info that was deleted from the map    *)
(* can still be used by a call that read the map earlier.  The model keeps *)
(* a heap of Infos; an identifier is free again when nothing refers to it. *)
(*                                                                         *)
(* chattr works on what is visible at a path: the directory itself, the    *)
(* directory bind-mounted over it, or the root of the device mounted last. *)
(***************************************************************************)
EXTENDS Integers, FiniteSets, Sequences

CONSTANTS Procs,        \* goroutines that call Mount, Unmount and Reload
          Workers,      \* goroutines in which the scheduler runs removals
          Devices,
          Paths,
          Allowed,      \* the paths below allowedDirs
          NoChattr,     \* the paths on a file system without attributes
          Requests,     \* the <<process, operation, device, path>> called
          Deletes,      \* the removal options Unmount is called with
          Failing,      \* the system calls that may fail
          MaxTasks,     \* bound: scheduled removals of one path
          MaxStack,     \* bound: mounts at a path when Mount is called
          MaxRestarts   \* bound: restarts of the process

VARIABLES mounts,       \* m.mounts: device -> Info, or NoInfo
          mp,           \* info.Mountpoint of every Info of the heap
          infoLock,     \* holder of every Info's mutex
          keyLock,      \* holder of every path's key lock
          kernel,       \* the kernel's stack of mounts at every path
          immutable,    \* the directories that carry the immutable bit
          dirs,         \* the mount paths that exist
          links,        \* the symlinks in trashLocation
          tasks,        \* removals the scheduler will run, per path
          call,         \* the call every process is in
          restarts

vars == <<mounts, mp, infoLock, keyLock, kernel, immutable, dirs, links,
          tasks, call, restarts>>
locks == <<infoLock, keyLock>>
disk  == <<kernel, immutable, dirs>>
trash == <<links, tasks, restarts>>

NoInfo  == 0
NoProc  == "no process"
Actors  == Procs \cup Workers
InfoIds == 1 .. (Cardinality(Devices) + Cardinality(Procs))

\* The directory under volume.MountBase that is bind-mounted over a path.
BindDir(path) == <<"readonly", path>>

Idle == [pc |-> "idle", op |-> "none", dev |-> NoProc, path |-> NoProc,
         del |-> "no", info |-> NoInfo, was |-> FALSE, bound |-> FALSE,
         found |-> {}, ret |-> "nil"]

-----------------------------------------------------------------------------
(* The kernel and the file system.                                         *)

Visible(path) ==
  IF kernel[path] = <<>> THEN path ELSE kernel[path][Len(kernel[path])]

Pop(path) == [kernel EXCEPT ![path] = SubSeq(@, 1, Len(@) - 1)]

Push(path, what) == [kernel EXCEPT ![path] = Append(@, what)]

MountedAt(dev, path) == \E i \in DOMAIN kernel[path] : kernel[path][i] = dev

PathsOf(dev) == {path \in Paths : MountedAt(dev, path)}

HasAttributes(path) == Visible(path) \notin NoChattr

\* An unreadable attribute counts as set, a missing directory too.
IsImmutable(path) ==
  \/ path \notin dirs
  \/ ~ HasAttributes(path)
  \/ Visible(path) \in immutable

Immutable(path) == IF path \in dirs THEN immutable \cup {Visible(path)} ELSE immutable

Writeable(path) == immutable \ {Visible(path)}

-----------------------------------------------------------------------------
(* The table.                                                              *)

Referenced == {mounts[d] : d \in Devices} \cup {call[p].info : p \in Actors}

NewInfo == CHOOSE i \in InfoIds : i \notin Referenced

Table(dev) == IF mounts[dev] = NoInfo THEN {} ELSE mp[mounts[dev]]

Targets(path) == {d \in Devices : path \in Table(d)}


-----------------------------------------------------------------------------
(* Calls.                                                                  *)

At(p, pc) == call[p].pc = pc

\* Mutant: HasTarget also takes the mutex of every Info it reads.
WhenNoInfoIsLocked(p) ==
  \A d \in Devices : mounts[d] # NoInfo => infoLock[mounts[d]] = NoProc

\* HasTarget needs the Mounter's mutex only.
MayReadTable(p) == TRUE

Goto(p, pc) == call' = [call EXCEPT ![p].pc = pc]

Unlocked(lock, p) == [x \in DOMAIN lock |-> IF lock[x] = p THEN NoProc ELSE lock[x]]

\* Mutant: a deferred unlock of the Info is missing on the error paths.
KeepsLockOnError(p, result) ==
  infoLock' = IF result = "error" THEN infoLock ELSE Unlocked(infoLock, p)

ReleasesInfo(p, result) == infoLock' = Unlocked(infoLock, p)

\* The deferred unlocks run and the result is handed to the caller.
Return(p, result) ==
  /\ call' = [call EXCEPT ![p] = [Idle EXCEPT !.ret = result]]
  /\ ReleasesInfo(p, result)
  /\ keyLock' = Unlocked(keyLock, p)

CallMount(p, dev, path) ==
  /\ At(p, "idle")
  /\ Len(kernel[path]) < MaxStack
  /\ call' = [call EXCEPT ![p] = [Idle EXCEPT !.pc = "target", !.op = "mount",
                                              !.dev = dev, !.path = path]]
  /\ UNCHANGED <<mounts, mp, locks, disk, trash>>

\* Mount: the allowed directories and HasTarget.  The map is walked in any
\* order, so any device that has the path may be the one that is returned.
MountTarget(p) ==
  LET path == call[p].path IN
  /\ At(p, "target")
  /\ MayReadTable(p)
  /\ \/ /\ path \in Allowed
        /\ Targets(path) = {} \/ call[p].dev \in Targets(path)
        /\ Goto(p, "lookup")
        /\ UNCHANGED locks
     \/ /\ path \in Allowed
        /\ Targets(path) \ {call[p].dev} # {}
        /\ Return(p, "ErrExist")
     \/ /\ path \notin Allowed
        /\ Return(p, "ErrMountpathNotAllowed")
  /\ UNCHANGED <<mounts, mp, disk, trash>>

\* Mount: the Info of the device, made if there is none.
MountLookup(p) ==
  LET dev == call[p].dev
      id  == IF mounts[dev] = NoInfo THEN NewInfo ELSE mounts[dev] IN
  /\ At(p, "lookup")
  /\ mounts' = [mounts EXCEPT ![dev] = id]
  /\ mp' = IF mounts[dev] = NoInfo THEN [mp EXCEPT ![id] = {}] ELSE mp
  /\ call' = [call EXCEPT ![p].info = id, ![p].pc = "lock"]
  /\ UNCHANGED <<locks, disk, trash>>

\* info.Lock() in Mount and in Unmount.
LockInfo(p) ==
  /\ At(p, "lock")
  /\ infoLock[call[p].info] = NoProc
  /\ infoLock' = [infoLock EXCEPT ![call[p].info] = p]
  /\ Goto(p, IF call[p].op = "mount" THEN "check" ELSE "unmount")
  /\ UNCHANGED <<mounts, mp, keyLock, disk, trash>>

\* Mount: another file system is refused, and a path that is there is enough.
MountCheck(p) ==
  /\ At(p, "check")
  /\ \/ "fs" \in Failing /\ Return(p, "ErrEinval")
     \/ call[p].path \in mp[call[p].info] /\ Return(p, "nil")
     \/ /\ call[p].path \notin mp[call[p].info]
        /\ Goto(p, "key")
        /\ UNCHANGED locks
  /\ UNCHANGED <<mounts, mp, disk, trash>>


KeyFree(path) == keyLock[path] = NoProc

\* m.kl.Acquire(path) in Mount and in removeMountPath.
AcquireKey(p) ==
  /\ call[p].pc \in {"key", "rkey"}
  /\ KeyFree(call[p].path)
  /\ keyLock' = [keyLock EXCEPT ![call[p].path] = p]
  /\ Goto(p, IF At(p, "key") THEN "readonly" ELSE "rtarget")
  /\ UNCHANGED <<mounts, mp, infoLock, disk, trash>>

\* Mutant: the original directory is made read-only, not the one over it.
OriginalReadOnly(path) == immutable \cup {path}

BindReadOnly(path) == immutable \cup {BindDir(path)}

\* Mount: the path is made read-only, through a bind mount when the file
\* system of the path has no attributes.
MountReadOnly(p) ==
  LET path == call[p].path IN
  /\ At(p, "readonly")
  /\ \/ /\ path \in dirs => HasAttributes(path)
        /\ immutable' = Immutable(path)
        /\ call' = [call EXCEPT ![p].was = IsImmutable(path), ![p].pc = "mount"]
        /\ UNCHANGED <<locks, kernel>>
     \/ /\ path \in dirs /\ ~ HasAttributes(path)
        /\ kernel' = Push(path, BindDir(path))
        /\ immutable' = BindReadOnly(path)
        /\ call' = [call EXCEPT ![p].was = IsImmutable(path), ![p].bound = TRUE,
                                ![p].pc = "mount"]
        /\ UNCHANGED locks
     \/ /\ "chattr" \in Failing
        /\ Return(p, "error")
        /\ UNCHANGED <<kernel, immutable>>
  /\ UNCHANGED <<mounts, mp, dirs, trash>>

\* Mutant: the path is recorded although the mount failed.
RecordsFailure(p) == [mp EXCEPT ![call[p].info] = @ \cup {call[p].path}]

NotRecorded(p) == mp

\* Mount: the mount itself.  A failure is rolled back if the path had been
\* writeable; isPathSetImmutable said it was not when it could not tell.
MountDevice(p) ==
  LET path == call[p].path IN
  /\ At(p, "mount")
  /\ \/ /\ path \in dirs
        /\ kernel' = Push(path, call[p].dev)
        /\ mp' = [mp EXCEPT ![call[p].info] = @ \cup {path}]
        /\ Return(p, "nil")
        /\ UNCHANGED immutable
     \/ /\ path \notin dirs \/ "mount" \in Failing
        /\ mp' = NotRecorded(p)
        /\ IF call[p].was THEN UNCHANGED <<kernel, immutable>>
           ELSE /\ immutable' = Writeable(path)
                /\ kernel' = IF call[p].bound THEN Pop(path) ELSE kernel
        /\ Return(p, "error")
  /\ UNCHANGED <<mounts, dirs, trash>>

CallUnmount(p, dev, path, del) ==
  /\ At(p, "idle")
  /\ call' = [call EXCEPT ![p] = [Idle EXCEPT !.pc = "ulookup", !.op = "unmount",
                                    !.dev = dev, !.path = path, !.del = del]]
  /\ UNCHANGED <<mounts, mp, locks, disk, trash>>

UnmountLookup(p) ==
  /\ At(p, "ulookup")
  /\ IF mounts[call[p].dev] = NoInfo THEN Return(p, "ErrEnoent")
     ELSE /\ call' = [call EXCEPT ![p].info = mounts[call[p].dev], ![p].pc = "lock"]
          /\ UNCHANGED locks
  /\ UNCHANGED <<mounts, mp, disk, trash>>

\* Unmount: the kernel unmounts whatever was mounted last at the path.  A
\* path the Info does not have is not an error.
UnmountDevice(p) ==
  LET path == call[p].path IN
  /\ At(p, "unmount")
  /\ \/ /\ path \notin mp[call[p].info]
        /\ Return(p, "nil")
        /\ UNCHANGED <<mp, kernel>>
     \/ /\ path \in mp[call[p].info]
        /\ "unmount" \in Failing \/ kernel[path] = <<>>
        /\ Return(p, "error")
        /\ UNCHANGED <<mp, kernel>>
     \/ /\ path \in mp[call[p].info]
        /\ kernel[path] # <<>>
        /\ kernel' = Pop(path)
        /\ mp' = [mp EXCEPT ![call[p].info] = @ \ {path}]
        /\ Goto(p, "maybe")
        /\ UNCHANGED locks
  /\ UNCHANGED <<mounts, immutable, dirs, trash>>

\* maybeRemoveDevice, which looks the device up again.
MaybeRemoveDevice(p) ==
  LET dev == call[p].dev IN
  /\ At(p, "maybe")
  /\ mounts' = IF Table(dev) = {} THEN [mounts EXCEPT ![dev] = NoInfo] ELSE mounts
  /\ IF call[p].del = "no" THEN Return(p, "nil")
     ELSE Goto(p, "remove") /\ UNCHANGED locks
  /\ UNCHANGED <<mp, disk, trash>>

-----------------------------------------------------------------------------
(* Removal of a mount path.                                                *)

\* Mutant: nothing is scheduled when the symlink is already there.
OncePerLink(path) ==
  IF path \in links THEN tasks ELSE [tasks EXCEPT ![path] = @ + 1]

Scheduled(path) == [tasks EXCEPT ![path] = @ + 1]

\* RemoveMountPath, called by Unmount with its Info still locked.
RemoveMountPath(p) ==
  LET path == call[p].path IN
  /\ At(p, "remove")
  /\ \/ /\ path \notin dirs
        /\ Return(p, "nil")
        /\ UNCHANGED <<links, tasks>>
     \/ /\ path \in dirs /\ call[p].del = "wait"
        /\ tasks[path] < MaxTasks
        /\ links' = links \cup {path}
        /\ tasks' = Scheduled(path)
        /\ Return(p, "nil")
     \/ /\ path \in dirs /\ call[p].del = "now"
        /\ Goto(p, "rkey")
        /\ UNCHANGED <<locks, links, tasks>>
  /\ UNCHANGED <<mounts, mp, disk, restarts>>

\* The scheduler runs the function of a removal that has waited.
RunTask(w, path) ==
  /\ At(w, "idle")
  /\ tasks[path] > 0
  /\ tasks' = [tasks EXCEPT ![path] = @ - 1]
  /\ call' = [call EXCEPT ![w] = [Idle EXCEPT !.pc = "rkey", !.op = "task",
                                              !.path = path]]
  /\ UNCHANGED <<mounts, mp, locks, disk, links, restarts>>

\* removeMountPath is over: a task goes on to its symlink, unless it failed;
\* Unmount ignores the result.
RemovalOver(p, result) ==
  IF call[p].op = "task" /\ result = "nil"
  THEN /\ Goto(p, "unlink")
       /\ keyLock' = Unlocked(keyLock, p)
       /\ UNCHANGED infoLock
  ELSE Return(p, IF call[p].op = "task" THEN result ELSE "nil")

\* Mutant: the removal does not look at the table.
NeverMounted(path) == {}

StillMounted(path) == Targets(path)

\* removeMountPath: nothing happens to a path the table has.
RemovalTarget(p) ==
  /\ At(p, "rtarget")
  /\ MayReadTable(p)
  /\ IF StillMounted(call[p].path) # {} THEN RemovalOver(p, "nil")
     ELSE Goto(p, "rclean") /\ UNCHANGED locks
  /\ UNCHANGED <<mounts, mp, disk, trash>>

\* removeMountPath: the path is made writeable, a mount that is found there
\* by a fresh bind mounter (every mount of a shared mount tree) is undone,
\* and the directory is removed.
RemovalClean(p) ==
  LET path    == call[p].path
      mounted == kernel[path] # <<>>
      bare    == IF mounted THEN Pop(path) ELSE kernel IN
  /\ At(p, "rclean")
  /\ \/ /\ path \notin dirs
        /\ RemovalOver(p, "nil")
        /\ UNCHANGED disk
     \/ /\ path \in dirs
        /\ "chattr" \in Failing \/ ~ HasAttributes(path)
        /\ RemovalOver(p, "error")
        /\ UNCHANGED disk
     \/ /\ path \in dirs /\ HasAttributes(path)
        /\ immutable' = Writeable(path)
        /\ mounted /\ "unmount" \in Failing
        /\ RemovalOver(p, "error")
        /\ UNCHANGED <<kernel, dirs>>
     \/ /\ path \in dirs /\ HasAttributes(path)
        /\ immutable' = Writeable(path)
        /\ kernel' = bare
        /\ \/ /\ bare[path] = <<>> /\ path \notin immutable'
              /\ dirs' = dirs \ {path}
              /\ RemovalOver(p, "nil")
           \/ /\ bare[path] # <<>> \/ path \in immutable' \/ "rmdir" \in Failing
              /\ RemovalOver(p, "error")
              /\ UNCHANGED dirs
  /\ UNCHANGED <<mounts, mp, trash>>

\* os.Remove(symlinkPath)
RemovalUnlink(p) ==
  /\ At(p, "unlink")
  /\ links' = links \ {call[p].path}
  /\ Return(p, "nil")
  /\ UNCHANGED <<mounts, mp, disk, tasks, restarts>>

-----------------------------------------------------------------------------
(* Reading the kernel's table.                                             *)

CallReload(p, dev) ==
  /\ At(p, "idle")
  /\ call' = [call EXCEPT ![p] = [Idle EXCEPT !.pc = "load", !.op = "reload",
                                              !.dev = dev]]
  /\ UNCHANGED <<mounts, mp, locks, disk, trash>>

\* Reload: a new Mounter loads the mounts of the device.
ReloadLoad(p) ==
  /\ At(p, "load")
  /\ call' = [call EXCEPT ![p].found = PathsOf(call[p].dev), ![p].pc = "swap"]
  /\ UNCHANGED <<mounts, mp, locks, disk, trash>>

\* reload: the new Info, if there is one, replaces the old.
ReloadSwap(p) ==
  LET dev == call[p].dev
      id  == IF call[p].found = {} THEN NoInfo ELSE NewInfo IN
  /\ At(p, "swap")
  /\ mounts' = [mounts EXCEPT ![dev] = id]
  /\ mp' = IF id = NoInfo THEN mp ELSE [mp EXCEPT ![id] = call[p].found]
  /\ Return(p, "nil")
  /\ UNCHANGED <<disk, trash>>

\* Mutant: nobody empties the trash directory after a restart.
TrashForgotten(found) == [path \in Paths |-> 0]

\* EmptyTrashDir schedules the removal of the files it reads.
EmptyTrashDir(found) == [path \in Paths |-> IF path \in found THEN 1 ELSE 0]

\* The process dies; what the kernel and the disk hold survives.  The next
\* one loads the kernel's table and empties the trash directory.
Restart ==
  LET id == CHOOSE f \in [Devices -> 1 .. Cardinality(Devices)] :
              \A d, e \in Devices : f[d] = f[e] => d = e IN
  /\ restarts < MaxRestarts
  /\ restarts' = restarts + 1
  /\ call' = [p \in Actors |-> Idle]
  /\ infoLock' = [i \in InfoIds |-> NoProc]
  /\ keyLock' = [path \in Paths |-> NoProc]
  /\ mounts' = [d \in Devices |-> IF PathsOf(d) = {} THEN NoInfo ELSE id[d]]
  /\ mp' = [i \in InfoIds |->
              UNION {PathsOf(d) : d \in {e \in Devices : id[e] = i}}]
  /\ tasks' = EmptyTrashDir(links)
  /\ UNCHANGED <<disk, links>>

\* The caller of Mount makes the directory before it calls.
MakePath(path) ==
  /\ path \notin dirs
  /\ \A p \in Procs : call[p].path # path
  /\ dirs' = dirs \cup {path}
  /\ immutable' = immutable \ {path}
  /\ UNCHANGED <<mounts, mp, locks, kernel, trash, call>>

-----------------------------------------------------------------------------
Init ==
  /\ mounts = [d \in Devices |-> NoInfo]
  /\ mp = [i \in InfoIds |-> {}]
  /\ infoLock = [i \in InfoIds |-> NoProc]
  /\ keyLock = [path \in Paths |-> NoProc]
  /\ kernel = [path \in Paths |-> <<>>]
  /\ immutable = {}
  /\ dirs = Paths
  /\ links = {}
  /\ tasks = [path \in Paths |-> 0]
  /\ call = [p \in Actors |-> Idle]
  /\ restarts = 0

Call(p) ==
  \E r \in Requests :
    /\ r[1] = p
    /\ \/ r[2] = "mount" /\ CallMount(p, r[3], r[4])
       \/ r[2] = "unmount" /\ \E del \in Deletes : CallUnmount(p, r[3], r[4], del)
       \/ r[2] = "reload" /\ CallReload(p, r[3])

Proceed(p) ==
  \/ MountTarget(p) \/ MountLookup(p) \/ MountCheck(p)
  \/ MountReadOnly(p) \/ MountDevice(p)
  \/ UnmountLookup(p) \/ UnmountDevice(p) \/ MaybeRemoveDevice(p)
  \/ RemoveMountPath(p) \/ RemovalTarget(p) \/ RemovalClean(p)
  \/ RemovalUnlink(p) \/ ReloadLoad(p) \/ ReloadSwap(p)

Next ==
  \/ \E p \in Procs : Call(p)
  \/ \E w \in Workers, path \in Paths : RunTask(w, path)
  \/ \E p \in Actors : Proceed(p) \/ LockInfo(p) \/ AcquireKey(p)
  \/ Restart
  \/ \E path \in Paths : MakePath(path)

Spec == Init /\ [][Next]_vars

-----------------------------------------------------------------------------
(* Properties.                                                             *)

Objects == Paths \cup Devices \cup {BindDir(path) : path \in Paths}

\* Type invariant, with what the locks mean: a mutex is held by a call that
\* is past its Lock and has not returned.
TypeOK ==
  /\ mounts \in [Devices -> InfoIds \cup {NoInfo}]
  /\ mp \in [InfoIds -> SUBSET Paths]
  /\ \A path \in Paths : \A i \in DOMAIN kernel[path] : kernel[path][i] \in Objects
  /\ immutable \subseteq Objects
  /\ dirs \subseteq Paths /\ links \subseteq Paths
  /\ tasks \in [Paths -> 0 .. MaxTasks]
  /\ restarts \in 0 .. MaxRestarts
  /\ \A i \in InfoIds : infoLock[i] # NoProc =>
       /\ call[infoLock[i]].info = i
       /\ call[infoLock[i]].pc \notin {"idle", "target", "lookup", "ulookup", "lock"}
  /\ \A path \in Paths : keyLock[path] # NoProc =>
       /\ call[keyLock[path]].path = path
       /\ call[keyLock[path]].pc \in {"readonly", "mount", "rtarget", "rclean"}

\* While a device is mounted at a path, what the mount covers carries the
\* immutable bit, so nobody can write below the mount: a delayed
\* removeMountPath never makes a path writeable that was mounted again.
ReadOnlyWhileMounted ==
  \A path \in Paths : \A i \in DOMAIN kernel[path] :
    kernel[path][i] \in Devices =>
      (IF i = 1 THEN path ELSE kernel[path][i - 1]) \in immutable

\* When no call for a device is running, the table has the paths the kernel
\* has for it, whatever failed, was removed late or was cut off by a restart.
TableMatchesKernel ==
  \A d \in Devices :
    (\A p \in Procs : call[p].dev # d) => Table(d) = PathsOf(d)

\* A path the table has for a device is mounted there, however the calls for
\* the device interleave: Unmount never fails for a path that was lost.
EntriesAreMounted == \A d \in Devices : Table(d) \subseteq PathsOf(d)

\* Every call returns: Mount and Unmount take the key lock of a path with an
\* Info's mutex held, and the removal reads the table with both.
CallsReturn == \A p \in Actors : call[p].pc # "idle" ~> call[p].pc = "idle"

\* An Unmount that asked for a delayed removal of its path is followed by
\* the removal of the directory, or the path is mounted again: no removal of
\* the path that is already under way may stand for it.
RemovedAfterDelay ==
  \A path \in Paths :
    (\E p \in Procs : call[p].pc = "remove" /\ call[p].del = "wait" /\ call[p].path = path)
      ~> (path \notin dirs \/ kernel[path] # <<>> \/ restarts > 0)

\* A symlink in the trash directory goes away, across a restart too.
TrashEmptied == \A path \in Paths : path \in links ~> path \notin links
=============================================================================
