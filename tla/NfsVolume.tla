------------------------------ MODULE NfsVolume ------------------------------
(***************************************************************************)
(* The life of volumes: the requests of the SDK server (api/server/sdk),   *)
(* the NFS driver that carries them out (volume/drivers/nfs/nfs.go) and    *)
(* the store of volume records it shares with other drivers                *)
(* (volume/drivers/common/default_store_enumerator.go).                    *)
(*                                                                         *)
(* The server runs every request in a goroutine, and nothing locks a       *)
(* volume: a request reads the record, works on the file system, the loop  *)
(* devices or the mounts, and writes back the copy of the record it has.   *)
(* A call that only reads, or is refused before it has changed anything,   *)
(* leaves no trace and is not a step.                                      *)
(*                                                                         *)
(* Requests name volumes by id; every volume has mount paths of its own;   *)
(* the driver is configured with a server, which labels every volume.      *)
(* The driver refuses Set with a spec, which the server always sends.      *)
(***************************************************************************)
EXTENDS Naturals, FiniteSets

CONSTANTS Procs,        \* goroutines of the server
          Ids, Names,   \* the uuids that may be drawn, the names asked for
          Devs,         \* loop devices
          Paths,        \* the mount paths of each volume
          None,
          Kinds,        \* the kinds of volume that are asked for
          Requests,     \* who may ask for what of which volume: <<proc, request, id>>
          Failing,      \* what may fail: "kvdb", "fs", "mount"
          MaxCrashes    \* bound: restarts of the daemon or of the node

VARIABLES
  vols,       \* the records in kvdb, None for an absent one
  files,      \* the volumes whose directory or block file exists
  loop,       \* the volume whose file a loop device is bound to
  clearing,   \* the loop devices that are released with their last mount
  mounted,    \* the kernel's mounts: <<source, volume, path>>
  table,      \* the mount table of the driver's mounter, for shared volumes
  used,       \* the uuids drawn so far
  op,         \* the request each goroutine works on
  crashes,
  removed,    \* history: the volumes whose files a Delete has removed
  unsure,     \* history: the names that were created without knowing them free
  unclean     \* history: the volumes whose operations met, were cut off or
              \* failed half-way, or whose device another volume's operation took

kernel == <<loop, clearing, mounted>>
history == <<removed, unsure, unclean>>
vars == <<vols, files, kernel, table, used, op, crashes, history>>

Dir == "dir"    \* the source of a bind mount
States == {"PENDING", "AVAILABLE", "ATTACHED"}
Records == [name : Names, kind : {"shared", "block", "raw"}, state : States,
            dev : Devs \cup {None}, paths : SUBSET Paths]

ASSUME NfsAssumption ==
  /\ None \notin Ids \cup Names \cup Devs \cup Paths \cup Records
  /\ Dir \notin Devs /\ \A S \in SUBSET Paths : S # None
  /\ Kinds \subseteq {"shared", "block", "raw"}
  /\ MaxCrashes \in Nat

Idle == [pc |-> "idle", id |-> None, name |-> None, kind |-> "shared", parent |-> None,
         path |-> None, dev |-> None, v |-> None]

\* A volume that Create is about to record, and one it has recorded.
Fresh(o) == o.pc \in {"snap", "mkdir", "record"}

Present(id) == vols[id] # None
Named(n) == {id \in Ids : Present(id) /\ vols[id].name = n}
InFlight(id) == {p \in Procs : op[p].pc # "idle" /\ op[p].id = id}

NewVolume(o, state) ==
  [name |-> o.name, kind |-> o.kind, state |-> state, dev |-> None, paths |-> {}]

-----------------------------------------------------------------------------
(* Requests                                                                *)

Begin(p, o) ==
  /\ op' = [op EXCEPT ![p] = o]
  /\ unclean' = IF InFlight(o.id) = {} THEN unclean ELSE unclean \cup {o.id}

Goto(p, pc) == op' = [op EXCEPT ![p].pc = pc]

\* The request returns; a loop device that it has bound for itself is released first.
Return(p) ==
  op' = [op EXCEPT ![p] = IF @.dev = None THEN Idle ELSE [@ EXCEPT !.pc = "release"]]

\* It returns and leaves something behind that is neither as before nor as wanted.
Abandon(p) == Return(p) /\ unclean' = unclean \cup {op[p].id}

UpdateVol(id, v) == vols' = [vols EXCEPT ![id] = v]

-----------------------------------------------------------------------------
(* Create, Clone and SnapshotCreate                                        *)

\* What the server may get to know when it looks for a volume of the name n.
VolumeFromName(n) ==
  {CASE Named(n) = {}               -> "none"
     [] Cardinality(Named(n)) = 1   -> "one"
     [] OTHER                       -> "several"}
  \cup (IF "kvdb" \in Failing THEN {"failed"} ELSE {})

\* Mutant: Create and Clone do not mind a volume of the name.
AlwaysCreates(found) == TRUE

\* Create and Clone look the name up and create a volume if that does not locate
\* exactly one; otherwise they wait for its status to be UP, which it is from the
\* start, and answer its id, or AlreadyExists.
Lookup(found) == found # "one"

\* The server creates although volumes have the name, which it does not know or not
\* care for, or although another request is about to record one.
Doubtful(n, found) ==
  \/ found \in {"several", "failed"} /\ Named(n) # {}
  \/ \E q \in Procs : Fresh(op[q]) /\ op[q].name = n

Draw(n, id, found) ==
  /\ used' = used \cup {id}
  /\ unsure' = IF Doubtful(n, found) THEN unsure \cup {n} ELSE unsure

CreateCall(p, n, kind, id) ==
  /\ <<p, "create", id>> \in Requests
  /\ \E found \in VolumeFromName(n) : Lookup(found) /\ Draw(n, id, found)
  /\ Begin(p, [Idle EXCEPT !.pc = IF kind = "shared" THEN "mkdir" ELSE "record",
                           !.id = id, !.name = n, !.kind = kind])
  /\ UNCHANGED <<vols, files, kernel, table, crashes, removed>>

CloneCall(p, n, parent, id) ==
  /\ <<p, "clone", id>> \in Requests
  /\ Present(parent)
  /\ \E found \in VolumeFromName(n) : Lookup(found) /\ Draw(n, id, found)
  /\ Begin(p, [Idle EXCEPT !.pc = "snap", !.id = id, !.name = n, !.parent = parent])
  /\ UNCHANGED <<vols, files, kernel, table, crashes, removed>>

\* SnapshotCreate does not look for the name.
SnapshotCall(p, n, parent, id) ==
  /\ <<p, "snapshot", id>> \in Requests
  /\ Present(parent)
  /\ Begin(p, [Idle EXCEPT !.pc = "snap", !.id = id, !.name = n, !.parent = parent])
  /\ Draw(n, id, "failed")
  /\ UNCHANGED <<vols, files, kernel, table, crashes, removed>>

\* The driver's Snapshot takes the parent's spec.
Snapshot(p) ==
  /\ op[p].pc = "snap"
  /\ Present(op[p].parent)
  /\ LET kind == vols[op[p].parent].kind
     IN  op' = [op EXCEPT ![p].kind = kind,
                          ![p].pc = IF kind = "shared" THEN "mkdir" ELSE "record"]
  /\ UNCHANGED <<vols, files, kernel, table, used, crashes, history>>

Mkdir(p) ==
  /\ op[p].pc = "mkdir"
  /\ \/ Goto(p, "record") /\ files' = files \cup {op[p].id}
     \/ "fs" \in Failing /\ Return(p) /\ UNCHANGED files
  /\ UNCHANGED <<vols, kernel, table, used, crashes, history>>

\* Where Create goes on to once it has recorded the volume as PENDING.
AfterRecord(o) ==
  CASE o.parent # None    -> "copy"
    [] o.kind = "shared"  -> "publish"
    [] OTHER              -> "blockfile"

CreateVol(p) ==
  /\ op[p].pc = "record"
  /\ \/ /\ UpdateVol(op[p].id, NewVolume(op[p], "PENDING"))
        /\ Goto(p, AfterRecord(op[p]))
        /\ UNCHANGED unclean
     \/ \* the directory stays
        /\ "kvdb" \in Failing
        /\ Return(p)
        /\ unclean' = unclean \cup ({op[p].id} \cap files)
        /\ UNCHANGED vols
  /\ UNCHANGED <<files, kernel, table, used, crashes, removed, unsure>>

\* Mutant: Create goes on after clone has failed.
IgnoresError(p) == Goto(p, "publish")

CloneFails(p) == Goto(p, "undo")

\* The files of the parent are copied; if that fails Create deletes the new volume.
Clone(p) ==
  /\ op[p].pc = "copy"
  /\ \/ /\ Present(op[p].parent) /\ op[p].parent \in files
        /\ files' = files \cup {op[p].id}
        /\ op' = [op EXCEPT ![p].pc = "publish", ![p].parent = None]
     \/ /\ ~ Present(op[p].parent) \/ op[p].parent \notin files
        /\ CloneFails(p) /\ UNCHANGED files
     \/ \* the copy fails, before or after the new file exists
        /\ "fs" \in Failing
        /\ CloneFails(p)
        /\ files' \in {files, files \cup {op[p].id}}
  /\ UNCHANGED <<vols, kernel, table, used, crashes, history>>

\* A failure from here to Format returns and leaves the PENDING record.
BlockFile(p) ==
  /\ op[p].pc = "blockfile"
  /\ \/ /\ files' = files \cup {op[p].id}
        /\ Goto(p, IF op[p].kind = "raw" THEN "publish" ELSE "format")
        /\ UNCHANGED unclean
     \/ "fs" \in Failing /\ Abandon(p) /\ files' \in {files, files \cup {op[p].id}}
  /\ UNCHANGED <<vols, kernel, table, used, crashes, removed, unsure>>

\* losetup.Attach; the device is detached when the caller returns.
Bind(p, dev, pc) ==
  /\ loop[dev] = None
  /\ op[p].id \in files
  /\ loop' = [loop EXCEPT ![dev] = op[p].id]
  /\ op' = [op EXCEPT ![p].pc = pc, ![p].dev = dev]

NoDevice(p) ==
  op[p].id \notin files \/ "fs" \in Failing \/ \A dev \in Devs : loop[dev] # None

Format(p) ==
  /\ op[p].pc = "format"
  /\ \/ \E dev \in Devs : Bind(p, dev, "publish") /\ UNCHANGED unclean
     \/ \* mkfs fails
        /\ "fs" \in Failing
        /\ \E dev \in Devs : Bind(p, dev, "release")
        /\ unclean' = unclean \cup {op[p].id}
     \/ NoDevice(p) /\ Abandon(p) /\ UNCHANGED loop
  /\ UNCHANGED <<vols, files, clearing, mounted, table, used, crashes, removed, unsure>>

Publish(p) ==
  /\ op[p].pc = "publish"
  /\ \/ UpdateVol(op[p].id, NewVolume(op[p], "AVAILABLE")) /\ Return(p)
     \/ "kvdb" \in Failing /\ Goto(p, "undo") /\ UNCHANGED vols
  /\ UNCHANGED <<files, kernel, table, used, crashes, history>>

\* LOOP_CLR_FD: a device that is mounted is released with its last mount.
Busy(dev) == \E m \in mounted : m[1] = dev

ClearFd(p, dev) ==
  /\ IF Busy(dev)
     THEN clearing' = clearing \cup {dev} /\ UNCHANGED loop
     ELSE clearing' = clearing \ {dev} /\ loop' = [loop EXCEPT ![dev] = None]
  /\ unclean' = IF loop[dev] \in {None, op[p].id} THEN unclean
                ELSE unclean \cup {loop[dev], op[p].id}

Release(p) ==
  /\ op[p].pc = "release"
  /\ ClearFd(p, op[p].dev)
  /\ op' = [op EXCEPT ![p] = Idle]
  /\ UNCHANGED <<vols, files, mounted, table, used, crashes, removed, unsure>>

-----------------------------------------------------------------------------
(* Delete and SnapshotRestore                                              *)

DeleteCall(p, id) ==
  /\ <<p, "delete", id>> \in Requests
  /\ Present(id) /\ vols[id].state # "ATTACHED"
  /\ Begin(p, [Idle EXCEPT !.pc = "remove", !.id = id, !.kind = vols[id].kind])
  /\ UNCHANGED <<vols, files, kernel, table, used, crashes, removed, unsure>>

\* Create deletes the volume it could not finish, with the same function.
Undo(p) ==
  /\ op[p].pc = "undo"
  /\ IF Present(op[p].id) /\ vols[op[p].id].state # "ATTACHED"
     THEN Goto(p, "remove") /\ UNCHANGED unclean
     ELSE Abandon(p)
  /\ UNCHANGED <<vols, files, kernel, table, used, crashes, removed, unsure>>

\* Delete fails. A clone of a directory that failed is deleted by clone and,
\* again, by Create.
DeleteFails(p) ==
  IF op[p].parent # None /\ op[p].kind = "shared"
  THEN op' = [op EXCEPT ![p].pc = "undo", ![p].parent = None] /\ UNCHANGED unclean
  ELSE Abandon(p)

Remove(p) ==
  /\ op[p].pc = "remove"
  /\ \/ /\ op[p].kind = "shared" \/ op[p].id \in files
        /\ files' = files \ {op[p].id}
        /\ removed' = removed \cup {op[p].id}
        /\ Goto(p, "delvol")
        /\ UNCHANGED unclean
     \/ /\ "fs" \in Failing \/ (op[p].kind # "shared" /\ op[p].id \notin files)
        /\ DeleteFails(p)
        /\ UNCHANGED <<files, removed>>
  /\ UNCHANGED <<vols, kernel, table, used, crashes, unsure>>

Deleted(id) == None

\* Mutant: Create tries again to publish a formatted volume that it has deleted.
GoesOn(p) == IF op[p].dev = None THEN Return(p) ELSE Goto(p, "publish")

Deletion(p) == Return(p)

DeleteVol(p) ==
  /\ op[p].pc = "delvol"
  /\ \/ /\ Present(op[p].id)
        /\ UpdateVol(op[p].id, Deleted(op[p].id))
        /\ Deletion(p)
        /\ UNCHANGED unclean
     \/ /\ ~ Present(op[p].id) \/ "kvdb" \in Failing
        /\ DeleteFails(p)
        /\ UNCHANGED vols
  /\ UNCHANGED <<files, kernel, table, used, crashes, removed, unsure>>

\* Restore copies the directory of the snapshot; there is none for a block volume.
RestoreCall(p, id, snap) ==
  /\ <<p, "restore", id>> \in Requests
  /\ id # snap
  /\ Present(id) /\ Present(snap)
  /\ vols[id].kind = "shared" /\ vols[snap].kind = "shared"
  /\ Begin(p, [Idle EXCEPT !.pc = "restore", !.id = id, !.parent = snap])
  /\ UNCHANGED <<vols, files, kernel, table, used, crashes, removed, unsure>>

Restore(p) ==
  /\ op[p].pc = "restore"
  /\ files' = IF op[p].parent \in files THEN files \cup {op[p].id} ELSE files
  /\ op' = [op EXCEPT ![p] = Idle]
  /\ UNCHANGED <<vols, kernel, table, used, crashes, history>>

-----------------------------------------------------------------------------
(* Attach and Detach of block volumes                                      *)

\* A request that goes on with its copy of the record.
Copy(pc, id) == [Idle EXCEPT !.pc = pc, !.id = id, !.kind = vols[id].kind, !.v = vols[id]]

\* It writes back its copy, changed; if that fails what it has done stays.
SaveCopy(p, v) ==
  \/ UpdateVol(op[p].id, v) /\ op' = [op EXCEPT ![p] = Idle] /\ UNCHANGED unclean
  \/ "kvdb" \in Failing /\ Abandon(p) /\ UNCHANGED vols

AttachCall(p, id) ==
  /\ <<p, "attach", id>> \in Requests
  /\ Present(id) /\ vols[id].kind # "shared" /\ vols[id].state # "ATTACHED"
  /\ Begin(p, Copy("attach", id))
  /\ UNCHANGED <<vols, files, kernel, table, used, crashes, removed, unsure>>

Attach(p) ==
  /\ op[p].pc = "attach"
  /\ \/ \E dev \in Devs : Bind(p, dev, "attached")
     \/ NoDevice(p) /\ Return(p) /\ UNCHANGED loop
  /\ UNCHANGED <<vols, files, clearing, mounted, table, used, crashes, history>>

\* Mutant: the device stays bound when the record cannot be written.
KeepsDevice(p) == op' = [op EXCEPT ![p] = Idle]

AttachFails(p) == Return(p)

\* If the record cannot be written the device is detached again.
AttachSave(p) ==
  /\ op[p].pc = "attached"
  /\ \/ /\ UpdateVol(op[p].id, [op[p].v EXCEPT !.dev = op[p].dev, !.state = "ATTACHED"])
        /\ op' = [op EXCEPT ![p] = Idle]
     \/ "kvdb" \in Failing /\ AttachFails(p) /\ UNCHANGED vols
  /\ UNCHANGED <<files, kernel, table, used, crashes, history>>

DetachCall(p, id) ==
  /\ <<p, "detach", id>> \in Requests
  /\ Present(id) /\ vols[id].kind # "shared" /\ vols[id].state = "ATTACHED"
  /\ Begin(p, Copy("detach", id))
  /\ UNCHANGED <<vols, files, kernel, table, used, crashes, removed, unsure>>

\* The mounts of the device are not looked at. Clearing fails with ENXIO on a device that is not bound.
Detach(p) ==
  /\ op[p].pc = "detach"
  /\ IF loop[op[p].v.dev] = None
     THEN Return(p) /\ UNCHANGED <<loop, clearing, unclean>>
     ELSE Goto(p, "detached") /\ ClearFd(p, op[p].v.dev)
  /\ UNCHANGED <<vols, files, mounted, table, used, crashes, removed, unsure>>

DetachSave(p) ==
  /\ op[p].pc = "detached"
  /\ SaveCopy(p, [op[p].v EXCEPT !.dev = None, !.state = "AVAILABLE"])
  /\ UNCHANGED <<files, kernel, table, used, crashes, removed, unsure>>

-----------------------------------------------------------------------------
(* Mount and Unmount                                                       *)

MountCall(p, id, path) ==
  /\ <<p, "mount", id>> \in Requests
  /\ Present(id) /\ vols[id].kind # "raw"
  /\ vols[id].state = (IF vols[id].kind = "shared" THEN "AVAILABLE" ELSE "ATTACHED")
  /\ Begin(p, [Copy("mount", id) EXCEPT !.path = path])
  /\ UNCHANGED <<vols, files, kernel, table, used, crashes, removed, unsure>>

MountsAt(id, path) == {m \in mounted : m[2] = id /\ m[3] = path}

\* mounter.Mounts: the paths the mounter knows of the volume's directory.
Mounts(id) == IF table[id] = None THEN {} ELSE table[id]

\* mounter.Mount binds the directory to the path, unless it is mounted there already.
\* A mount that fails leaves an entry without paths for the directory.
MountShared(p) ==
  LET id == op[p].id  path == op[p].path
  IN  \/ path \in Mounts(id) /\ Goto(p, "addpath") /\ UNCHANGED <<mounted, table>>
      \/ \* after a restart: ErrExist
         /\ path \notin Mounts(id) /\ MountsAt(id, path) # {}
         /\ Return(p) /\ UNCHANGED <<mounted, table>>
      \/ /\ MountsAt(id, path) = {} /\ id \in files
         /\ mounted' = mounted \cup {<<Dir, id, path>>}
         /\ table' = [table EXCEPT ![id] = Mounts(id) \cup {path}]
         /\ Goto(p, "addpath")
      \/ /\ MountsAt(id, path) = {} /\ (id \notin files \/ "mount" \in Failing)
         /\ table' = [table EXCEPT ![id] = Mounts(id)]
         /\ Return(p) /\ UNCHANGED mounted

\* The system call mounts what the recorded device is bound to by now.
MountBlock(p) ==
  LET m == <<op[p].v.dev, op[p].id, op[p].path>>
  IN  /\ \/ /\ loop[op[p].v.dev] # None /\ m \notin mounted
            /\ mounted' = mounted \cup {m}
            /\ Goto(p, "addpath")
         \/ /\ loop[op[p].v.dev] = None \/ m \in mounted \/ "mount" \in Failing
            /\ Return(p) /\ UNCHANGED mounted
      /\ UNCHANGED table

Mount(p) ==
  /\ op[p].pc = "mount"
  /\ IF op[p].kind = "shared" THEN MountShared(p) ELSE MountBlock(p)
  /\ UNCHANGED <<vols, files, loop, clearing, used, crashes, history>>

MountSave(p) ==
  /\ op[p].pc = "addpath"
  /\ SaveCopy(p, [op[p].v EXCEPT !.paths = @ \cup {op[p].path}])
  /\ UNCHANGED <<files, kernel, table, used, crashes, removed, unsure>>

UnmountCall(p, id, path) ==
  /\ <<p, "unmount", id>> \in Requests
  /\ Present(id) /\ vols[id].paths # {}
  /\ Begin(p, [Copy("unmount", id) EXCEPT !.path = path])
  /\ UNCHANGED <<vols, files, kernel, table, used, crashes, removed, unsure>>

\* mounter.Unmount succeeds for a path that the entry of the directory lacks. The
\* record gets the paths that the mounter has left.
UnmountShared(p) ==
  LET id == op[p].id
      left == Mounts(id) \ {op[p].path}
  IN  /\ \/ /\ table[id] # None
            /\ mounted' = IF op[p].path \in Mounts(id)
                          THEN mounted \ MountsAt(id, op[p].path) ELSE mounted
            /\ table' = [table EXCEPT ![id] = IF left = {} /\ @ # {} THEN None ELSE left]
            /\ op' = [op EXCEPT ![p].pc = "setpaths", ![p].v.paths = left]
         \/ /\ table[id] = None \/ (op[p].path \in Mounts(id) /\ "mount" \in Failing)
            /\ Return(p) /\ UNCHANGED <<mounted, table>>
      /\ UNCHANGED <<loop, clearing>>

\* The last unmount of a device that was cleared while mounted releases it. The
\* record loses all its paths.
UnmountBlock(p) ==
  LET at == MountsAt(op[p].id, op[p].path)
  IN  /\ \/ \E m \in at :
              /\ mounted' = mounted \ {m}
              /\ IF m[1] \in clearing /\ \A k \in mounted' : k[1] # m[1]
                 THEN clearing' = clearing \ {m[1]} /\ loop' = [loop EXCEPT ![m[1]] = None]
                 ELSE UNCHANGED <<clearing, loop>>
              /\ op' = [op EXCEPT ![p].pc = "setpaths", ![p].v.paths = {}]
         \/ (at = {} \/ "mount" \in Failing) /\ Return(p) /\ UNCHANGED kernel
      /\ UNCHANGED table

Unmount(p) ==
  /\ op[p].pc = "unmount"
  /\ IF op[p].kind = "shared" THEN UnmountShared(p) ELSE UnmountBlock(p)
  /\ UNCHANGED <<vols, files, used, crashes, history>>

UnmountSave(p) ==
  /\ op[p].pc = "setpaths"
  /\ SaveCopy(p, op[p].v)
  /\ UNCHANGED <<files, kernel, table, used, crashes, removed, unsure>>

-----------------------------------------------------------------------------
(* Restarts                                                                *)

\* The daemon stops and starts again. Its mounter finds the bind mounts under the
\* server they come from, not under the volume's directory.
Restart ==
  /\ crashes < MaxCrashes
  /\ crashes' = crashes + 1
  /\ op' = [p \in Procs |-> Idle]
  /\ table' = [id \in Ids |-> None]
  /\ UNCHANGED <<vols, files, used, removed, unsure>>

CutOff == {id \in Ids : InFlight(id) # {}}

Crash ==
  /\ Restart
  /\ unclean' = unclean \cup CutOff \cup {id \in Ids : Mounts(id) # {}}
  /\ UNCHANGED kernel

\* Snapshot takes the first of the volumes that Inspect has found without looking
\* whether there is one; nothing recovers from the panic.
SnapshotPanics(p) ==
  /\ op[p].pc = "snap"
  /\ ~ Present(op[p].parent) \/ "kvdb" \in Failing
  /\ Crash

\* The node stops: its mounts and loop devices are gone.
Reboot ==
  /\ Restart
  /\ loop' = [dev \in Devs |-> None]
  /\ clearing' = {}
  /\ mounted' = {}
  /\ unclean' = unclean \cup CutOff \cup
       {id \in Ids : Present(id) /\ (vols[id].state = "ATTACHED" \/ vols[id].paths # {})}

-----------------------------------------------------------------------------
Init ==
  /\ vols = [id \in Ids |-> None]
  /\ files = {}
  /\ loop = [dev \in Devs |-> None]
  /\ clearing = {}
  /\ mounted = {}
  /\ table = [id \in Ids |-> None]
  /\ used = {}
  /\ op = [p \in Procs |-> Idle]
  /\ crashes = 0
  /\ removed = {} /\ unsure = {} /\ unclean = {}

NewRequest(p) ==
  /\ op[p].pc = "idle"
  /\ \E n \in Names, id \in Ids \ used :
       \/ \E kind \in Kinds : CreateCall(p, n, kind, id)
       \/ \E parent \in Ids : CloneCall(p, n, parent, id) \/ SnapshotCall(p, n, parent, id)

Request(p) ==
  /\ op[p].pc = "idle"
  /\ \E id \in Ids :
       \/ DeleteCall(p, id)
       \/ \E snap \in Ids : RestoreCall(p, id, snap)
       \/ AttachCall(p, id)
       \/ DetachCall(p, id)
       \/ \E path \in Paths : MountCall(p, id, path) \/ UnmountCall(p, id, path)

CreateStep(p) ==
  \/ Snapshot(p) \/ Mkdir(p) \/ CreateVol(p) \/ Clone(p) \/ BlockFile(p) \/ Format(p)
  \/ Publish(p) \/ Release(p)

DeleteStep(p) == Undo(p) \/ Remove(p) \/ DeleteVol(p) \/ Restore(p)

NodeStep(p) ==
  \/ Attach(p) \/ AttachSave(p) \/ Detach(p) \/ DetachSave(p)
  \/ Mount(p) \/ MountSave(p) \/ Unmount(p) \/ UnmountSave(p)

Next ==
  \/ \E p \in Procs : NewRequest(p) \/ Request(p) \/ CreateStep(p) \/ DeleteStep(p) \/ NodeStep(p)
  \/ \E p \in Procs : SnapshotPanics(p)
  \/ Crash
  \/ Reboot

Spec == Init /\ [][Next]_vars

-----------------------------------------------------------------------------
(* Properties                                                              *)

PCs == {"idle", "snap", "mkdir", "record", "copy", "blockfile", "format", "publish", "release",
        "undo", "remove", "delvol", "restore", "attach", "attached", "detach", "detached",
        "mount", "addpath", "unmount", "setpaths"}

Operations == [pc : PCs, id : Ids \cup {None}, name : Names \cup {None},
               kind : {"shared", "block", "raw"}, parent : Ids \cup {None},
               path : Paths \cup {None}, dev : Devs \cup {None}, v : Records \cup {None}]

\* The steps of Create on a volume it has recorded, and those of a request that goes
\* on with its copy of the record.
Creating == {"copy", "blockfile", "format", "publish"}
Copying == {"attach", "attached", "detach", "detached", "mount", "addpath", "unmount", "setpaths"}

RecordOK(v) == v \in Records /\ (v.state = "ATTACHED" => v.dev \in Devs)

\* A request has what its next steps work with.
RequestOK(o) ==
  /\ o.pc # "idle" => o.id \in Ids
  /\ o.pc = "snap" => o.parent \in Ids
  /\ Fresh(o) \/ o.pc \in Creating => o.name \in Names
  /\ o.pc \in Copying => RecordOK(o.v)
  /\ o.pc = "detach" \/ (o.pc = "mount" /\ o.kind # "shared") => o.v.state = "ATTACHED"
  /\ o.pc \in {"attached", "release"} => o.dev \in Devs
  /\ o.pc \in {"mount", "addpath", "unmount"} => o.path \in Paths

\* Every record, device, mount and request has its shape; a record that is ATTACHED, and
\* a request that is to detach or mount, has a device.
TypeOK ==
  /\ vols \in [Ids -> Records \cup {None}]
  /\ \A id \in Ids : Present(id) => RecordOK(vols[id])
  /\ files \in SUBSET Ids /\ used \in SUBSET Ids
  /\ removed \in SUBSET Ids /\ unclean \in SUBSET Ids /\ unsure \in SUBSET Names
  /\ loop \in [Devs -> Ids \cup {None}]
  /\ clearing \in SUBSET Devs
  /\ mounted \in SUBSET ((Devs \cup {Dir}) \X Ids \X Paths)
  /\ table \in [Ids -> (SUBSET Paths) \cup {None}]
  /\ crashes \in 0 .. MaxCrashes
  /\ op \in [Procs -> Operations]
  /\ \A p \in Procs : RequestOK(op[p])

\* A volume that is shown as AVAILABLE or ATTACHED has its directory or block file,
\* however the requests on it and restarts interleave, unless a Delete has removed it:
\* Create publishes the record last, and no request writes such a state for a
\* volume without files.
ReadyHasData ==
  \A id \in Ids : Present(id) /\ vols[id].state # "PENDING" => id \in files \cup removed

\* A volume that was deleted does not come back, unless a request that had read the
\* record before met the Delete (UpdateVol writes whether or not there is a record).
DeletedIsGone ==
  [][ \A id \in Ids :
        ~ Present(id) /\ Present(id)'
          => id \in unclean \/ \E p \in Procs : op[p].pc = "record" /\ op[p].id = id ]_vars

\* Two volumes have the same name only if the name was not known to be free when one
\* of them was created (a snapshot, two creations that met, a lookup that failed), or
\* one of them is what a request that met its Delete has written back.
NamesUnique ==
  \A a, b \in Ids :
    Present(a) /\ Present(b) /\ a # b /\ vols[a].name = vols[b].name
      => vols[a].name \in unsure \/ {a, b} \cap unclean # {}

\* What is true of a volume when no request works on it: it has files if and only if
\* it has a record; it is ready; it is ATTACHED if and only if a device is bound to it,
\* and the recorded one is; the recorded paths are mounted, and for a directory
\* they are all that is.
Settled(id) ==
  LET v == vols[id]
      bound == {dev \in Devs \ clearing : loop[dev] = id}
  IN  IF ~ Present(id) THEN id \notin files
      ELSE /\ id \in files
           /\ v.state # "PENDING"
           /\ IF v.state = "ATTACHED" THEN bound = {v.dev} ELSE bound = {} /\ v.dev = None
           /\ \A path \in v.paths : MountsAt(id, path) # {}
           /\ v.kind = "shared" => v.paths = Mounts(id)

\* Record, file system, loop devices and mounts agree about every volume whose
\* requests came one after the other and were not cut off, whatever they were and
\* whatever happened to other volumes.
AgreeWhenQuiet ==
  \A id \in used \ unclean : InFlight(id) = {} => Settled(id)

=============================================================================
