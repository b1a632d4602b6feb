--------------------------- MODULE NfsAgreeProofs ----------------------------
(***************************************************************************)
(* QuietVolumesAgree: the records, the files, the loop devices and the     *)
(* mounts of NfsVolume agree about every volume whose requests did not     *)
(* meet, for any number of goroutines, volumes, names, devices, paths and  *)
(* restarts, whatever fails.                                               *)
(***************************************************************************)
EXTENDS NfsVolumeProofs

-----------------------------------------------------------------------------
(* Agreement. Every step of a request has a stage: what it has made of its *)
(* volume by then, if no other request has met it. A step on another       *)
(* volume leaves a volume as it is (Frame); each of its own steps leads    *)
(* from stage to stage or, at the end, to a settled volume (After...).     *)

\* The devices that are bound to the volume and not about to be released.
Bound(id) == {dev \in Devs \ clearing : loop[dev] = id}

\* The recorded paths of v are mounted, and for a directory they are all that is.
PathsFit(id, v) ==
  /\ \A path \in v.paths : MountsAt(id, path) # {}
  /\ v.kind = "shared" => v.paths = Mounts(id)

\* The volume would be settled with the record v.
Fits(id, v) ==
  /\ id \in files /\ v.state # "PENDING"
  /\ IF v.state = "ATTACHED" THEN Bound(id) = {v.dev} ELSE Bound(id) = {} /\ v.dev = None
  /\ PathsFit(id, v)

\* As Fits for a volume that is not attached, but for the devices.
FitsFree(id, v) ==
  id \in files /\ v.state \notin {"PENDING", "ATTACHED"} /\ v.dev = None /\ PathsFit(id, v)

\* The device that the request is to release.
Own(o) == IF o.dev = None THEN {} ELSE {o.dev}

\* Nothing is there of the volume yet.
Blank(id) == ~ Present(id) /\ id \notin files /\ Bound(id) = {} /\ Mounts(id) = {}

\* What holds of the volume of a request that has met no other, at each of its steps.
StageNew(o) ==
  /\ ~ Present(o.id) /\ Bound(o.id) = {} /\ Mounts(o.id) = {} /\ o.dev = None
  /\ o.id \in files <=> o.pc = "record" /\ o.kind = "shared"
  /\ o.pc = "mkdir" => o.kind = "shared"

StageCreating(o) ==
  /\ vols[o.id] = NewVolume(o, "PENDING") /\ Bound(o.id) = Own(o) /\ Mounts(o.id) = {}
  /\ o.pc # "publish" => o.dev = None
  /\ o.pc \in {"format", "publish"} => o.id \in files

StageDeleting(o) ==
  /\ Present(o.id) /\ vols[o.id].state # "ATTACHED" /\ Bound(o.id) = Own(o)
  /\ o.pc = "delvol" => o.id \notin files

StageRelease(o) ==
  /\ Bound(o.id) = {o.dev}
  /\ IF Present(o.id) THEN FitsFree(o.id, vols[o.id]) ELSE o.id \notin files

StageReading(o) ==
  /\ vols[o.id] = o.v /\ Fits(o.id, o.v) /\ o.dev = None /\ o.kind = o.v.kind
  /\ o.pc = "attach" => o.v.state # "ATTACHED"

Stage(o) ==
  /\ Fresh(o) => StageNew(o)
  /\ o.pc \in Creating => StageCreating(o)
  /\ o.pc \in {"undo", "remove", "delvol"} => StageDeleting(o)
  /\ o.pc = "release" => StageRelease(o)
  /\ o.pc = "restore" => Present(o.id) /\ Fits(o.id, vols[o.id])
  /\ o.pc \in {"attach", "detach", "mount", "unmount"} => StageReading(o)
  /\ o.pc = "attached" => FitsFree(o.id, o.v) /\ Bound(o.id) = {o.dev} /\ vols[o.id] = o.v
  /\ o.pc = "detached" => /\ o.id \in files /\ Bound(o.id) = {} /\ PathsFit(o.id, o.v)
                          /\ o.dev = None
  /\ o.pc = "addpath" => Fits(o.id, [o.v EXCEPT !.paths = @ \cup {o.path}]) /\ o.dev = None
  /\ o.pc = "setpaths" => Fits(o.id, o.v) /\ o.dev = None

\* A goroutine without a request.
LEMMA IdlePc == Idle.pc = "idle"
  BY DEF Idle

\* Requests and records are of uuids that were drawn.
UsedInv ==
  /\ \A p \in Procs : op[p].pc # "idle" => op[p].id \in used
  /\ \A id \in Ids : Present(id) => id \in used

\* A device that is mounted, or to be released, is bound.
KernelInv ==
  /\ \A m \in mounted : m[1] \in Devs => loop[m[1]] # None
  /\ \A dev \in clearing : loop[dev] # None

\* The invariant: uuids not yet drawn, volumes at rest, volumes at work.
AgreeInv ==
  /\ \A id \in Ids \ (used \cup unclean) : Blank(id)
  /\ AgreeWhenQuiet
  /\ \A p \in Procs : op[p].pc # "idle" /\ op[p].id \notin unclean => Stage(op[p])

\* The step leaves all that Settled looks at as it is.
SameView(id) ==
  /\ vols'[id] = vols[id] /\ (id \in files' <=> id \in files)
  /\ Bound(id)' = Bound(id) /\ Mounts(id)' = Mounts(id)
  /\ \A path \in Paths : MountsAt(id, path)' = MountsAt(id, path)

\* Requests and records stay within the drawn uuids.
LEMMA UsedStep ==
  ASSUME TypeOK, UsedInv, NEW p \in Procs, Step(p)
  PROVE  UsedInv'
<1>1. used \subseteq used' /\ \A q \in Procs \ {p} : op'[q] = op[q]
      BY Grows, Others
<1>2. op'[p].pc # "idle" => op'[p].id \in used'
  <2>1. CASE NewRequest(p)
        BY <2>1, BeginsNew DEF Draw
  <2>2. CASE Request(p)
        BY <2>2, Begins, SMTT(60) DEF UsedInv
  <2>3. CASE Progress(p)
        BY <1>1, <2>3, SameVolume DEF UsedInv, Idle
  <2>4. QED
        BY <2>1, <2>2, <2>3 DEF Step
<1>3. \A id \in Ids : Present(id)' => id \in used'
  <2> SUFFICES ASSUME NEW id \in Ids, vols'[id] # None
               PROVE  id \in used'
      BY DEF Present
  <2>1. CASE vols'[id] = vols[id]
        BY <1>1, <2>1 DEF UsedInv, Present
  <2>2. CASE vols'[id] # vols[id]
        BY <1>1, <2>2, OwnRecord, SameVolume, SMTT(60) DEF UsedInv
  <2>3. QED
        BY <2>1, <2>2
<1>4. QED
      BY <1>1, <1>2, <1>3 DEF UsedInv

\* A step changes the files and the mount table of its own volume only.
LEMMA OwnFiles ==
  ASSUME TypeOK, NEW p \in Procs, Progress(p), NEW id \in Ids, id # op[p].id
  PROVE  (id \in files' <=> id \in files) /\ table'[id] = table[id]
<1>0. table \in [Ids -> (SUBSET Paths) \cup {None}]
      BY SMTT(60) DEF TypeOK
<1>1. CASE CreateStep(p)
      BY <1>1, Zenon DEF CreateStep, Snapshot, Mkdir, CreateVol, Clone, BlockFile, Format, Publish,
         Release
<1>2. CASE DeleteStep(p)
      BY <1>2, SMTT(60) DEF DeleteStep, Undo, Remove, DeleteVol, Restore
<1>3. CASE Mount(p)
      BY <1>0, <1>3, SMTT(60) DEF Mount, MountShared, MountBlock
<1>4. CASE Unmount(p)
      BY <1>0, <1>4, SMTT(60) DEF Unmount, UnmountShared, UnmountBlock
<1>5. CASE Attach(p) \/ Detach(p) \/ AttachSave(p) \/ DetachSave(p) \/ MountSave(p) \/ UnmountSave(p)
      BY <1>5, SMTT(60) DEF Attach, Detach, AttachSave, DetachSave, MountSave, UnmountSave
<1>6. QED
      BY <1>1, <1>2, <1>3, <1>4, <1>5, SMTT(60) DEF Progress, NodeStep

\* What a step may do to the kernel's state: bind a device, clear one, mount, unmount.
LEMMA KernelCases ==
  ASSUME TypeOK, NEW p \in Procs, Progress(p)
  PROVE  \/ UNCHANGED kernel
         \/ (\E dev \in Devs, pc \in PCs : Bind(p, dev, pc)) /\ UNCHANGED <<clearing, mounted>>
         \/ (\E dev \in Devs : ClearFd(p, dev)) /\ UNCHANGED mounted
         \/ Mount(p) \/ Unmount(p)
<1>0. RequestOK(op[p])
      BY SMTT(60) DEF TypeOK
<1>1. CASE Format(p) \/ Attach(p)
      BY <1>1 DEF Format, Attach, PCs, kernel
<1>2. CASE Release(p)
      BY <1>0, <1>2 DEF Release, RequestOK
<1>3. CASE Detach(p)
      BY <1>0, <1>3, Zenon DEF Detach, RequestOK, RecordOK, Copying, kernel
<1>4. CASE Snapshot(p) \/ Mkdir(p) \/ CreateVol(p) \/ Clone(p) \/ BlockFile(p) \/ Publish(p)
      BY <1>4, Zenon DEF Snapshot, Mkdir, CreateVol, Clone, BlockFile, Publish
<1>5. CASE DeleteStep(p)
      BY <1>5, SMTT(60) DEF DeleteStep, Undo, Remove, DeleteVol, Restore
<1>6. CASE AttachSave(p) \/ DetachSave(p) \/ MountSave(p) \/ UnmountSave(p)
      BY <1>6 DEF AttachSave, DetachSave, MountSave, UnmountSave
<1>7. QED
      BY <1>1, <1>2, <1>3, <1>4, <1>5, <1>6, SMTT(60) DEF Progress, CreateStep, NodeStep

\* Mounted devices, and devices to be released, stay bound.
LEMMA KernelStep ==
  ASSUME TypeOK, KernelInv, NEW p \in Procs, Step(p)
  PROVE  KernelInv'
<1>0. /\ loop \in [Devs -> Ids \cup {None}] /\ clearing \in SUBSET Devs /\ RequestOK(op[p])
      /\ mounted \in SUBSET ((Devs \cup {Dir}) \X Ids \X Paths)
      BY SMTT(60) DEF TypeOK
<1>1. CASE NewRequest(p) \/ Request(p)
      BY <1>1, BeginsNew, Begins, SMTT(60) DEF KernelInv, kernel
<1>2. CASE Progress(p)
  <2>1. CASE UNCHANGED kernel
        BY <2>1 DEF KernelInv, kernel
  <2>2. ASSUME NEW dev \in Devs, NEW pc \in PCs, Bind(p, dev, pc), UNCHANGED <<clearing, mounted>>
        PROVE  KernelInv'
    <3>1. op[p].id # None
          BY <1>2, SameVolume, NfsAssumption, SMTT(60)
    <3>2. QED
          BY <1>0, <2>2, <3>1, SMTT(60) DEF KernelInv, Bind
  <2>3. ASSUME NEW dev \in Devs, ClearFd(p, dev), UNCHANGED mounted
        PROVE  KernelInv'
        BY <1>0, <2>3, SMTT(60) DEF KernelInv, ClearFd, Busy
  <2>4. CASE Mount(p)
    <3>1. loop' = loop /\ clearing' = clearing
          BY <2>4, ZenonT(60) DEF Mount
    <3>2. CASE op[p].kind = "shared"
          BY <1>0, <2>4, <3>1, <3>2, NfsAssumption, SMTT(60) DEF KernelInv, Mount, MountShared
    <3>3. CASE op[p].kind # "shared"
          BY <1>0, <2>4, <3>1, <3>3, SMTT(60) DEF KernelInv, Mount, MountBlock
    <3>4. QED
          BY <3>2, <3>3, SMTT(60)
  <2>5. CASE Unmount(p)
    <3>1. CASE op[p].kind = "shared"
          BY <2>5, <3>1, SMTT(60) DEF KernelInv, Unmount, UnmountShared
    <3>2. CASE op[p].kind # "shared"
          BY <1>0, <2>5, <3>2 DEF KernelInv, Unmount, UnmountBlock, MountsAt, kernel
    <3>3. QED
          BY <3>1, <3>2
  <2>6. QED
        BY <1>2, <2>1, <2>2, <2>3, <2>4, <2>5, KernelCases, SMTT(60)
<1>3. QED
      BY <1>1, <1>2, SMTT(60) DEF Step

\* A step on another volume leaves a volume as it is, unless it takes its device.
LEMMA Frame ==
  ASSUME TypeOK, KernelInv, NEW p \in Procs, Step(p), NEW id \in Ids,
         id \notin unclean', NewRequest(p) \/ Request(p) \/ id # op[p].id
  PROVE  SameView(id)
<1>0. /\ loop \in [Devs -> Ids \cup {None}] /\ clearing \in SUBSET Devs
      /\ mounted \in SUBSET ((Devs \cup {Dir}) \X Ids \X Paths)
      BY SMTT(60) DEF TypeOK
<1>1. CASE NewRequest(p) \/ Request(p)
      BY <1>1, BeginsNew, Begins, SMTT(60) DEF SameView, Bound, Mounts, MountsAt, kernel
<1>2. CASE Progress(p) /\ id # op[p].id
  <2>1. vols'[id] = vols[id] /\ (id \in files' <=> id \in files) /\ Mounts(id)' = Mounts(id)
        BY <1>2, OwnFiles, OwnRecord, SMTT(60) DEF Mounts
  <2>2. Bound(id)' = Bound(id) /\ \A path \in Paths : MountsAt(id, path)' = MountsAt(id, path)
    <3>1. CASE UNCHANGED kernel
          BY <3>1 DEF Bound, MountsAt, kernel
    <3>2. ASSUME NEW dev \in Devs, NEW pc \in PCs, Bind(p, dev, pc), UNCHANGED <<clearing, mounted>>
          PROVE  Bound(id)' = Bound(id) /\ \A path \in Paths : MountsAt(id, path)' = MountsAt(id, path)
          BY <1>0, <1>2, <3>2, NfsAssumption, SMTT(60) DEF Bound, MountsAt, Bind
    <3>3. ASSUME NEW dev \in Devs, ClearFd(p, dev), UNCHANGED mounted
          PROVE  Bound(id)' = Bound(id) /\ \A path \in Paths : MountsAt(id, path)' = MountsAt(id, path)
      <4>1. loop[dev] # id
            BY <1>2, <3>3, NfsAssumption, ZenonT(60) DEF ClearFd
      <4>2. QED
            BY <1>0, <3>3, <4>1, NfsAssumption, SMTT(60) DEF Bound, MountsAt, ClearFd
    <3>4. CASE Mount(p)
      <4>1. CASE op[p].kind = "shared"
            BY <1>2, <3>4, <4>1, SMTT(60) DEF Mount, MountShared, Bound, MountsAt
      <4>2. CASE op[p].kind # "shared"
            BY <1>2, <3>4, <4>2, SMTT(60) DEF Mount, MountBlock, Bound, MountsAt
      <4>3. QED
            BY <4>1, <4>2, Zenon
    <3>5. CASE Unmount(p)
      <4>1. CASE op[p].kind = "shared"
            BY <1>2, <3>5, <4>1, SMTT(60) DEF Unmount, UnmountShared, Bound, MountsAt
      <4>2. CASE op[p].kind # "shared"
            BY <1>0, <1>2, <3>5, <4>2, NfsAssumption, SMTT(60) DEF Unmount, UnmountBlock, Bound, MountsAt,
               kernel
      <4>3. QED
            BY <4>1, <4>2, SMTT(60)
    <3>6. QED
          BY <1>2, <3>1, <3>2, <3>3, <3>4, <3>5, KernelCases, SMTT(60)
  <2>3. QED
        BY <2>1, <2>2, SMTT(60) DEF SameView
<1>3. QED
      BY <1>1, <1>2, SMTT(60) DEF Step

\* Only Create, Clone and SnapshotCreate draw uuids.
LEMMA SameUsed ==
  ASSUME TypeOK, NEW p \in Procs, Step(p), ~ NewRequest(p)
  PROVE  used' = used
<1>1. CASE Request(p)
      BY <1>1, Begins, Zenon
<1>2. CASE CreateStep(p)
      BY <1>2, Zenon DEF CreateStep, Snapshot, Mkdir, CreateVol, Clone, BlockFile, Format,
         Publish, Release
<1>3. CASE DeleteStep(p)
      BY <1>3 DEF DeleteStep, Undo, Remove, DeleteVol, Restore
<1>4. CASE NodeStep(p)
      BY <1>4, Zenon DEF NodeStep, Attach, AttachSave, Detach, DetachSave, Mount, MountSave,
         Unmount,
         UnmountSave
<1>5. QED
      BY <1>1, <1>2, <1>3, <1>4 DEF Step, Progress

\* Settled in terms of Fits, in this state and the next.
LEMMA SettledFits ==
  ASSUME NEW id \in Ids
  PROVE  /\ Settled(id) <=> IF Present(id) THEN Fits(id, vols[id]) ELSE id \notin files
         /\ Settled(id)' <=> IF vols'[id] # None THEN Fits(id, vols[id])' ELSE id \notin files'
  BY SMTT(60) DEF Settled, Fits, PathsFit, Bound, Present

\* A volume that a step leaves as it is stays settled.
LEMMA SameSettled ==
  ASSUME TypeOK, NEW id \in Ids, SameView(id), Settled(id)
  PROVE  Settled(id)'
<1>1. Present(id) => vols[id].paths \subseteq Paths
      BY DEF TypeOK, Present, Records
<1>2. QED
      BY <1>1, SettledFits, SMTT(60) DEF SameView, Fits, PathsFit, Present

\* A record fits such a volume as before.
LEMMA SameFits ==
  ASSUME NEW id \in Ids, SameView(id), NEW v, v.paths \subseteq Paths
  PROVE  /\ PathsFit(id, v)' <=> PathsFit(id, v)
         /\ Fits(id, v)' <=> Fits(id, v)
         /\ FitsFree(id, v)' <=> FitsFree(id, v)
  BY ZenonT(60)  DEF SameView, Fits, FitsFree, PathsFit

\* A request on such a volume stays at its stage.
LEMMA SameStage ==
  ASSUME TypeOK, NEW q \in Procs, op[q].pc # "idle", op'[q] = op[q], SameView(op[q].id), Stage(op[q])
  PROVE  Stage(op[q])'
<1> DEFINE o == op[q]
<1>0. o \in Operations /\ RequestOK(o) /\ o.id \in Ids
      BY ZenonT(60)  DEF TypeOK, RequestOK
<1>1. vols[o.id] # None => vols[o.id].paths \subseteq Paths
      BY <1>0, Zenon DEF TypeOK, Records
<1>2. o.pc \in Copying => o.v.paths \subseteq Paths /\ o.v \in Records
      BY <1>0, Zenon DEF RequestOK, RecordOK, Records
<1>3. o.pc = "addpath" => [o.v EXCEPT !.paths = @ \cup {o.path}].paths \subseteq Paths
      BY <1>0, <1>2, SMTT(60) DEF RequestOK, Records, Copying
<1>4. Fresh(o) => StageNew(op[q])'
      BY <1>0, Zenon DEF SameView, Stage, StageNew, Present
<1>5. o.pc \in Creating => StageCreating(op[q])'
      BY <1>0, Zenon DEF SameView, Stage, StageCreating, NewVolume, Own
<1>6. o.pc \in {"undo", "remove", "delvol"} => StageDeleting(op[q])'
      BY <1>0, Zenon DEF SameView, Stage, StageDeleting, Present, Own
<1>7. o.pc = "release" => StageRelease(op[q])'
      BY <1>0, <1>1, SameFits DEF SameView, Stage, StageRelease, Present
<1>8. o.pc = "restore" => (Present(op[q].id) /\ Fits(op[q].id, vols[op[q].id]))'
      BY <1>0, <1>1, SameFits, ZenonT(60) DEF SameView, Stage, Present
<1>9. o.pc \in {"attach", "detach", "mount", "unmount"} => StageReading(op[q])'
      BY <1>0, <1>2, SameFits, Zenon DEF SameView, Stage, StageReading, Copying
<1>10. o.pc = "attached" => (FitsFree(op[q].id, op[q].v) /\ Bound(op[q].id) = {op[q].dev} /\ vols[op[q].id] = op[q].v)'
      BY <1>0, <1>2, SameFits, Zenon DEF SameView, Stage, Copying
<1>11. o.pc = "detached" => (op[q].id \in files /\ Bound(op[q].id) = {} /\ PathsFit(op[q].id, op[q].v) /\ op[q].dev = None)'
      BY <1>0, <1>2, SameFits DEF SameView, Stage, Copying
<1>12. o.pc = "addpath" => (Fits(op[q].id, [op[q].v EXCEPT !.paths = @ \cup {op[q].path}]) /\ op[q].dev = None)'
      BY <1>0, <1>3, SameFits, Zenon DEF Stage
<1>13. o.pc = "setpaths" => (Fits(op[q].id, op[q].v) /\ op[q].dev = None)'
      BY <1>0, <1>2, SameFits, SMTT(60) DEF Stage, Copying
<1>14. QED
      BY <1>4, <1>5, <1>6, <1>7, <1>8, <1>9, <1>10, <1>11, <1>12, <1>13, ZenonT(60) DEF Stage,
         Fresh

\* What a step of the request p makes of its volume.
After(o, id) == IF o.pc = "idle" THEN Settled(id) ELSE Stage(o)

\* The stage of the next request, named by a constant.
LEMMA Rigid ==
  ASSUME NEW p \in Procs, NEW o, o = op'[p], Stage(o)'
  PROVE  Stage(op[p])'
<1>1. StageNew(o)' => StageNew(op[p])'
      BY Zenon DEF StageNew, Bound, Present, Mounts, MountsAt
<1>2. StageCreating(o)' => StageCreating(op[p])'
      BY Zenon DEF StageCreating, NewVolume, Own, Bound, Mounts, MountsAt
<1>3. StageDeleting(o)' => StageDeleting(op[p])'
      BY Zenon DEF StageDeleting, Own, Present, Bound
<1>4. StageRelease(o)' => StageRelease(op[p])'
      BY DEF StageRelease, FitsFree, PathsFit, Present, Bound, Mounts, MountsAt
<1>5. StageReading(o)' => StageReading(op[p])'
      BY Zenon DEF StageReading, Fits, PathsFit, Bound, Mounts, MountsAt
<1>6. (Present(o.id) /\ Fits(o.id, vols[o.id]))' => (Present(op[p].id) /\ Fits(op[p].id, vols[op[p].id]))'
      BY Zenon DEF Present, Fits, PathsFit, Bound, Mounts, MountsAt
<1>7. (FitsFree(o.id, o.v) /\ Bound(o.id) = {o.dev} /\ vols[o.id] = o.v)'
      => (FitsFree(op[p].id, op[p].v) /\ Bound(op[p].id) = {op[p].dev} /\ vols[op[p].id] = op[p].v)'
      BY Zenon DEF FitsFree, PathsFit, Bound, Mounts, MountsAt
<1>8. (o.id \in files /\ Bound(o.id) = {} /\ PathsFit(o.id, o.v))'
      => (op[p].id \in files /\ Bound(op[p].id) = {} /\ PathsFit(op[p].id, op[p].v))'
      BY Zenon DEF PathsFit, Bound, Mounts, MountsAt
<1>9. Fits(o.id, [o.v EXCEPT !.paths = @ \cup {o.path}])'
      => Fits(op[p].id, [op[p].v EXCEPT !.paths = @ \cup {op[p].path}])'
      BY Zenon DEF Fits, PathsFit, Bound, Mounts, MountsAt
<1>10. Fits(o.id, o.v)' => Fits(op[p].id, op[p].v)'
      BY Zenon DEF Fits, PathsFit, Bound, Mounts, MountsAt
<1>11. QED
      BY <1>1, <1>2, <1>3, <1>4, <1>5, <1>6, <1>7, <1>8, <1>9, <1>10, SMTT(60) DEF Stage, Fresh, Creating

\* What TypeOK says about a request at work.
LEMMA Typed ==
  ASSUME TypeOK, NEW p \in Procs, op[p].pc # "idle"
  PROVE  /\ op \in [Procs -> Operations] /\ op[p] \in Operations /\ RequestOK(op[p]) /\ op[p].id \in Ids
         /\ vols \in [Ids -> Records \cup {None}] /\ files \in SUBSET Ids
         /\ loop \in [Devs -> Ids \cup {None}] /\ table \in [Ids -> (SUBSET Paths) \cup {None}]
         /\ None \notin Ids /\ None \notin Devs
  BY NfsAssumption, ZenonT(60) DEF TypeOK, RequestOK

\* A step that leaves devices, mounts and mount table alone leaves what depends on them.
LEMMA Quiet ==
  ASSUME NEW id, UNCHANGED <<loop, clearing, mounted, table>>
  PROVE  /\ Bound(id)' = Bound(id) /\ Mounts(id)' = Mounts(id)
         /\ \A v : PathsFit(id, v)' <=> PathsFit(id, v)
  BY Zenon DEF Bound, Mounts, PathsFit, MountsAt

\* Where Return leads.
LEMMA Returned ==
  ASSUME TypeOK, NEW p \in Procs, op[p].pc # "idle", Return(p)
  PROVE  /\ op[p].dev = None => op'[p] = Idle /\ op'[p].pc = "idle"
         /\ op[p].dev # None => op'[p].pc = "release" /\ op'[p].id = op[p].id /\ op'[p].dev = op[p].dev
  BY Typed DEF Return, Idle, Operations

\* What Goto changes.
LEMMA Went ==
  ASSUME TypeOK, NEW p \in Procs, op[p].pc # "idle", NEW pc, Goto(p, pc)
  PROVE  /\ op'[p].pc = pc /\ op'[p].id = op[p].id /\ op'[p].dev = op[p].dev
         /\ op'[p].name = op[p].name /\ op'[p].kind = op[p].kind /\ op'[p].parent = op[p].parent
         /\ op'[p].path = op[p].path /\ op'[p].v = op[p].v
  BY Typed DEF Goto, Operations

\* Snapshot leads to the next stage, or to a settled volume.
LEMMA AfterSnapshot ==
  ASSUME TypeOK, NEW p \in Procs, NEW id, id = op[p].id, NEW o, o = op'[p], Stage(op[p]), Snapshot(p)
  PROVE  After(o, id)'
<1>0. op[p].pc = "snap" /\ StageNew(op[p]) /\ vols' = vols /\ files' = files
      BY DEF Snapshot, Stage, Fresh
<1>q. Bound(id)' = Bound(id) /\ Mounts(id)' = Mounts(id)
      BY Quiet, ZenonT(60) DEF Snapshot, kernel
<1>1. /\ o.pc \in {"mkdir", "record"} /\ o.id = id /\ o.dev = None
      /\ o.pc = "mkdir" <=> o.kind = "shared"
      BY <1>0, Typed DEF Snapshot, Operations, StageNew
<1>2. StageNew(o)'
      BY <1>0, <1>q, <1>1, Zenon DEF StageNew, Present
<1>3. QED
      BY <1>1, <1>2, Zenon DEF After, Stage, Fresh, Creating

\* Mkdir leads to the next stage, or to a settled volume.
LEMMA AfterMkdir ==
  ASSUME TypeOK, NEW p \in Procs, NEW id, id = op[p].id, NEW o, o = op'[p], Stage(op[p]), Mkdir(p)
  PROVE  After(o, id)'
<1>0. op[p].pc # "idle" /\ StageNew(op[p]) /\ UNCHANGED <<vols, kernel, table>> /\ id \in Ids
      BY Typed, Zenon DEF Mkdir, Stage, Fresh
<1>q. Bound(id)' = Bound(id) /\ Mounts(id)' = Mounts(id)
      BY Quiet, ZenonT(60) DEF Mkdir, kernel
<1>1. CASE Goto(p, "record") /\ files' = files \cup {id}
  <2>1. StageNew(o)'
        BY <1>0, <1>q, <1>1, Went, Zenon DEF StageNew, Present, Mkdir
  <2>2. QED
        BY <1>0, <1>1, <2>1, Went, SMTT(60) DEF After, Stage, Fresh, Creating
<1>2. CASE Return(p) /\ UNCHANGED files
      BY <1>0, <1>2, Returned, SettledFits, ZenonT(60) DEF StageNew, After, Present, Mkdir
<1>3. QED
      BY <1>1, <1>2, SMTT(60) DEF Mkdir

\* CreateVol leads to the next stage, or to a settled volume.
LEMMA AfterCreateVol ==
  ASSUME TypeOK, NEW p \in Procs, NEW id, id = op[p].id, NEW o, o = op'[p], Stage(op[p]),
         CreateVol(p), id \notin unclean'
  PROVE  After(o, id)'
<1>0. op[p].pc = "record" /\ StageNew(op[p]) /\ UNCHANGED <<files, kernel, table>> /\ id \in Ids
      BY Typed, Zenon DEF CreateVol, Stage, Fresh
<1>q. Bound(id)' = Bound(id) /\ Mounts(id)' = Mounts(id)
      BY Quiet, ZenonT(60) DEF CreateVol, kernel
<1>1. CASE UpdateVol(id, NewVolume(op[p], "PENDING")) /\ Goto(p, AfterRecord(op[p]))
  <2>1. AfterRecord(op[p]) \in {"copy", "publish", "blockfile"} /\ (AfterRecord(op[p]) = "publish" => op[p].kind = "shared")
        BY Zenon DEF AfterRecord
  <2>2. vols'[id] = NewVolume(op[p], "PENDING")
        BY <1>0, <1>1, Typed, Zenon DEF UpdateVol
  <2>3. StageCreating(o)'
    <3>1. /\ o.pc = AfterRecord(op[p]) /\ o.id = id /\ o.dev = None
          /\ NewVolume(o, "PENDING") = NewVolume(op[p], "PENDING") /\ Own(o) = {}
          BY <1>0, <1>1, Went, ZenonT(60) DEF StageNew, NewVolume, Own
    <3>2. QED
          BY <1>0, <1>q, <2>1, <2>2, <3>1, Zenon DEF StageNew, StageCreating
  <2>4. QED
        BY <1>0, <1>1, <2>1, <2>3, Went, SMTT(60) DEF After, Stage, Fresh, Creating
<1>2. CASE Return(p) /\ unclean' = unclean \cup ({id} \cap files) /\ UNCHANGED vols
      BY <1>0, <1>2, Returned, SettledFits, Zenon DEF StageNew, After, Present
<1>3. QED
      BY <1>1, <1>2, Zenon DEF CreateVol

\* Clone leads to the next stage, or to a settled volume.
LEMMA AfterClone ==
  ASSUME TypeOK, NEW p \in Procs, NEW id, id = op[p].id, NEW o, o = op'[p], Stage(op[p]), Clone(p)
  PROVE  After(o, id)'
<1>0. op[p].pc = "copy" /\ StageCreating(op[p]) /\ UNCHANGED <<vols, kernel, table>> /\ id \in Ids /\ op[p].dev = None
      BY Typed, Zenon DEF Clone, Stage, Creating, StageCreating
<1>q. Bound(id)' = Bound(id) /\ Mounts(id)' = Mounts(id)
      BY Quiet, Zenon DEF Clone, kernel
<1>1. CASE files' = files \cup {id} /\ op' = [op EXCEPT ![p].pc = "publish", ![p].parent = None]
  <2>1. /\ o.pc = "publish" /\ o.id = id /\ o.name = op[p].name /\ o.kind = op[p].kind
        /\ o.dev = op[p].dev
        BY <1>0, <1>1, Typed, SMTT(60) DEF Operations
  <2>2. StageCreating(o)'
    <3>1. NewVolume(o, "PENDING") = NewVolume(op[p], "PENDING") /\ Own(o) = Own(op[p])
          BY <2>1, Zenon DEF NewVolume, Own
    <3>2. files' = files \cup {id} /\ vols' = vols
          BY <1>0, <1>1, Zenon
    <3>3. QED
          BY <1>0, <1>q, <2>1, <3>1, <3>2, ZenonT(60) DEF StageCreating
  <2>3. QED
        BY <2>1, <2>2, SMTT(60) DEF After, Stage, Fresh, Creating
<1>2. CASE CloneFails(p)
  <2>1. o.pc = "undo" /\ o.id = id /\ o.dev = None
        BY <1>0, <1>2, Went, ZenonT(60) DEF CloneFails
  <2>2. Present(id) /\ vols[id].state = "PENDING"
        BY <1>0, Typed, NfsAssumption, SMTT(60) DEF StageCreating, Present, NewVolume,
           RequestOK, Records,
           States, Operations, Creating
  <2>3. StageDeleting(o)'
        BY <1>0, <1>q, <2>1, <2>2, Zenon DEF StageCreating, StageDeleting, Own, Present
  <2>4. QED
        BY <2>1, <2>3, Zenon DEF After, Stage, Fresh, Creating
<1>3. QED
      BY <1>1, <1>2, Zenon DEF Clone

\* BlockFile leads to the next stage, or to a settled volume.
LEMMA AfterBlockFile ==
  ASSUME TypeOK, NEW p \in Procs, NEW id, id = op[p].id, NEW o, o = op'[p], Stage(op[p]),
         BlockFile(p), id \notin unclean'
  PROVE  After(o, id)'
<1>0. op[p].pc = "blockfile" /\ StageCreating(op[p]) /\ UNCHANGED <<vols, kernel, table>> /\ id \in Ids
      BY Typed, Zenon DEF BlockFile, Stage, Creating
<1>q. Bound(id)' = Bound(id) /\ Mounts(id)' = Mounts(id)
      BY Quiet, Zenon DEF BlockFile, kernel
<1>1. files' = files \cup {id} /\ Goto(p, IF op[p].kind = "raw" THEN "publish" ELSE "format")
      BY Zenon DEF BlockFile, Abandon
<1>2. o.pc \in {"publish", "format"} /\ o.id = id
      BY <1>0, <1>1, Went, Zenon
<1>3. StageCreating(o)'
  <2>1. /\ o.dev = op[p].dev /\ NewVolume(o, "PENDING") = NewVolume(op[p], "PENDING") /\ Own(o) = Own(op[p])
        BY <1>0, <1>1, Went, ZenonT(60) DEF NewVolume, Own
  <2>2. QED
        BY <1>0, <1>q, <1>1, <1>2, <2>1, Zenon DEF StageCreating
<1>4. QED
      BY <1>2, <1>3, Zenon DEF After, Stage, Fresh, Creating

\* Binding a free device to the volume, and clearing the one that it has.
LEMMA Bound1 ==
  ASSUME TypeOK, KernelInv, NEW p \in Procs, NEW id \in Ids, id = op[p].id, NEW dev \in Devs, NEW pc,
         Bind(p, dev, pc), UNCHANGED <<clearing, mounted, table>>
  PROVE  /\ Bound(id)' = Bound(id) \cup {dev} /\ Mounts(id)' = Mounts(id)
         /\ \A v : PathsFit(id, v)' <=> PathsFit(id, v)
<1>1. loop \in [Devs -> Ids \cup {None}] /\ dev \notin clearing /\ loop[dev] = None /\ loop' = [loop EXCEPT ![dev] = id]
      BY SMTT(60) DEF TypeOK, KernelInv, Bind
<1>2. Bound(id)' = Bound(id) \cup {dev}
      BY <1>1, NfsAssumption, SMTT(60) DEF Bound
<1>3. QED
      BY <1>2, Zenon DEF Mounts, PathsFit, MountsAt

\* Clearing the device of the volume.
LEMMA Cleared ==
  ASSUME TypeOK, NEW p \in Procs, NEW id \in Ids, id = op[p].id, NEW dev \in Devs,
         ClearFd(p, dev), UNCHANGED <<mounted, table>>
  PROVE  /\ Bound(id)' = Bound(id) \ {dev} /\ Mounts(id)' = Mounts(id)
         /\ \A v : PathsFit(id, v)' <=> PathsFit(id, v)
<1>1. loop \in [Devs -> Ids \cup {None}]
      BY Zenon DEF TypeOK
<1>2. Bound(id)' = Bound(id) \ {dev}
      BY <1>1, NfsAssumption, Zenon DEF Bound, ClearFd
<1>3. QED
      BY <1>2, Zenon DEF Mounts, PathsFit, MountsAt

\* Format leads to the next stage, or to a settled volume.
LEMMA AfterFormat ==
  ASSUME TypeOK, KernelInv, NEW p \in Procs, NEW id, id = op[p].id, NEW o, o = op'[p],
         Stage(op[p]), Format(p), id \notin unclean'
  PROVE  After(o, id)'
<1>0. /\ op[p].pc = "format" /\ StageCreating(op[p]) /\ vols' = vols /\ files' = files /\ id \in Ids
      /\ UNCHANGED <<clearing, mounted, table>>
      BY Typed, Zenon DEF Format, Stage, Creating
<1>1. PICK dev \in Devs : Bind(p, dev, "publish")
      BY Zenon  DEF Format, Abandon
<1>2. o.pc = "publish" /\ o.id = id /\ o.name = op[p].name /\ o.kind = op[p].kind /\ o.dev = dev
      BY <1>0, <1>1, Typed, SMTT(60) DEF Bind, Operations
<1>3. NewVolume(o, "PENDING") = NewVolume(op[p], "PENDING") /\ Own(op[p]) = {} /\ Own(o) = {dev}
      BY <1>0, <1>2, NfsAssumption, ZenonT(60) DEF NewVolume, Own, StageCreating
<1>4. Bound(id)' = {dev} /\ Mounts(id)' = Mounts(id)
      BY <1>0, <1>1, <1>3, Bound1, SMTT(60) DEF StageCreating
<1>5. StageCreating(o)'
      BY <1>0, <1>2, <1>3, <1>4, Zenon DEF StageCreating
<1>6. QED
      BY <1>2, <1>5, Zenon DEF After, Stage, Fresh, Creating

\* Publish leads to the next stage, or to a settled volume.
LEMMA AfterPublish ==
  ASSUME TypeOK, NEW p \in Procs, NEW id, id = op[p].id, NEW o, o = op'[p], Stage(op[p]), Publish(p)
  PROVE  After(o, id)'
<1>0. /\ op[p].pc = "publish" /\ StageCreating(op[p]) /\ files' = files /\ id \in Ids /\ id \in files
      BY Typed, Zenon DEF Publish, Stage, Creating, StageCreating
<1>q. Bound(id)' = Bound(id) /\ Mounts(id)' = Mounts(id) /\ \A v : PathsFit(id, v)' <=> PathsFit(id, v)
      BY Quiet, Zenon DEF Publish, kernel
<1>1. CASE UpdateVol(id, NewVolume(op[p], "AVAILABLE")) /\ Return(p)
  <2>0. PICK v : v = NewVolume(op[p], "AVAILABLE")
        BY Zenon
  <2>1. vols'[id] = v
        BY <1>0, <1>1, <2>0, Typed, ZenonT(60) DEF UpdateVol
  <2>2. v # None /\ v.state = "AVAILABLE" /\ v.dev = None /\ v.paths = {}
        BY <1>0, <2>0, Typed, NfsAssumption, SMTT(60) DEF NewVolume, RequestOK, Records, States,
           Operations, Creating
  <2>3. PathsFit(id, v)' /\ FitsFree(id, v)'
        BY <1>0, <1>q, <2>2, Zenon DEF PathsFit, FitsFree, StageCreating
  <2>4. CASE op[p].dev = None
    <3>1. Fits(id, v)'
          BY <1>0, <1>q, <2>2, <2>3, <2>4, ZenonT(60) DEF Fits, StageCreating, Own
    <3>2. Settled(id)'
          BY <1>0, <2>1, <2>2, <3>1, SettledFits, ZenonT(60) DEF Fits, PathsFit
    <3>3. QED
          BY <1>0, <1>1, <2>4, <3>2, Returned, ZenonT(60) DEF After
  <2>5. CASE op[p].dev # None
    <3>1. o.pc = "release" /\ o.id = id /\ o.dev = op[p].dev
          BY <1>0, <1>1, <2>5, Returned, Zenon
    <3>2. StageRelease(o)'
          BY <1>0, <1>q, <2>1, <2>2, <2>3, <2>5, <3>1, ZenonT(60) DEF StageRelease, StageCreating,
             Own,
             Present, FitsFree, PathsFit
    <3>3. QED
          BY <3>1, <3>2, Zenon DEF After, Stage, Fresh, Creating
  <2>6. QED
        BY <2>4, <2>5, Zenon
<1>2. CASE Goto(p, "undo") /\ UNCHANGED vols
  <2>1. o.pc = "undo" /\ o.id = id /\ o.dev = op[p].dev
        BY <1>0, <1>2, Went, Zenon
  <2>2. Present(id) /\ vols[id].state = "PENDING"
        BY <1>0, Typed, NfsAssumption, SMTT(60) DEF StageCreating, Present, NewVolume,
           RequestOK, Records,
           States, Operations, Creating
  <2>3. StageDeleting(o)'
        BY <1>0, <1>q, <1>2, <2>1, <2>2, Zenon DEF StageCreating, StageDeleting, Own, Present
  <2>4. QED
        BY <2>1, <2>3, Zenon DEF After, Stage, Fresh, Creating
<1>3. QED
      BY <1>1, <1>2, Zenon DEF Publish

\* Release leads to the next stage, or to a settled volume.
LEMMA AfterRelease ==
  ASSUME TypeOK, NEW p \in Procs, NEW id, id = op[p].id, NEW o, o = op'[p], Stage(op[p]), Release(p)
  PROVE  After(o, id)'
<1>0. /\ op[p].pc = "release" /\ StageRelease(op[p]) /\ files' = files /\ vols' = vols /\ id \in Ids /\ op[p].dev \in Devs
      /\ UNCHANGED <<mounted, table>>
      BY Typed, ZenonT(60) DEF Release, Stage, RequestOK
<1>1. Bound(id)' = {} /\ \A v : PathsFit(id, v)' <=> PathsFit(id, v)
  <2>0. PICK dev \in Devs : dev = op[p].dev
        BY <1>0, Zenon
  <2>1. ClearFd(p, dev) /\ Bound(id) = {dev}
        BY <1>0, <2>0, Zenon DEF Release, StageRelease
  <2>2. Bound(id)' = Bound(id) \ {dev} /\ \A v : PathsFit(id, v)' <=> PathsFit(id, v)
        BY <1>0, <2>1, Cleared, Zenon
  <2>3. Bound(id) \ {dev} = {}
        BY <2>1, Zenon
  <2>4. QED
        BY <2>2, <2>3, Zenon
<1>2. Settled(id)'
      BY <1>0, <1>1, SettledFits, Zenon DEF StageRelease, Fits, FitsFree, Present, PathsFit
<1>3. o.pc = "idle"
      BY <1>0, Typed, Zenon DEF Release, Idle
<1>4. QED
      BY <1>2, <1>3, Zenon DEF After

\* Undo leads to the next stage, or to a settled volume.
LEMMA AfterUndo ==
  ASSUME TypeOK, NEW p \in Procs, NEW id, id = op[p].id, NEW o, o = op'[p], Stage(op[p]), Undo(p),
         id \notin unclean'
  PROVE  After(o, id)'
<1>0. op[p].pc = "undo" /\ StageDeleting(op[p]) /\ files' = files /\ vols' = vols /\ id \in Ids
      BY Typed, Zenon DEF Undo, Stage
<1>q. Bound(id)' = Bound(id) /\ Mounts(id)' = Mounts(id)
      BY Quiet, Zenon DEF Undo, kernel
<1>1. Goto(p, "remove")
      BY Zenon DEF Undo, Abandon
<1>2. o.pc = "remove" /\ o.id = id /\ o.dev = op[p].dev
      BY <1>0, <1>1, Went, ZenonT(60)
<1>3. StageDeleting(o)'
      BY <1>0, <1>q, <1>2, Zenon DEF StageDeleting, Own, Present
<1>4. QED
      BY <1>2, <1>3, Zenon DEF After, Stage, Fresh, Creating

\* A delete that fails is tried again or leaves an unclean volume.
LEMMA TriesAgain ==
  ASSUME TypeOK, NEW p \in Procs, op[p].pc # "idle", NEW id, id = op[p].id, NEW o, o = op'[p],
         DeleteFails(p), id \notin unclean',
         StageDeleting(op[p]), UNCHANGED <<vols, kernel, table>>
  PROVE  After(o, id)'
<1>q. Bound(id)' = Bound(id) /\ Mounts(id)' = Mounts(id)
      BY Quiet, SMTT(60) DEF kernel
<1>1. o.pc = "undo" /\ o.id = id /\ o.dev = op[p].dev
      BY Typed, SMTT(60) DEF DeleteFails, Abandon, Operations
<1>2. StageDeleting(o)'
      BY <1>q, <1>1, Zenon DEF StageDeleting, Own, Present
<1>3. QED
      BY <1>1, <1>2, ZenonT(60) DEF After, Stage, Fresh, Creating

\* Remove leads to the next stage, or to a settled volume.
LEMMA AfterRemove ==
  ASSUME TypeOK, NEW p \in Procs, NEW id, id = op[p].id, NEW o, o = op'[p], Stage(op[p]),
         Remove(p), id \notin unclean'
  PROVE  After(o, id)'
<1>0. op[p].pc = "remove" /\ StageDeleting(op[p]) /\ vols' = vols /\ id \in Ids /\ UNCHANGED <<vols, kernel, table>>
      BY Typed, Zenon DEF Remove, Stage
<1>q. Bound(id)' = Bound(id) /\ Mounts(id)' = Mounts(id)
      BY Quiet, Zenon DEF Remove, kernel
<1>1. CASE files' = files \ {id} /\ Goto(p, "delvol")
  <2>1. o.pc = "delvol" /\ o.id = id /\ o.dev = op[p].dev
        BY <1>0, <1>1, Went, Zenon
  <2>2. StageDeleting(o)'
        BY <1>0, <1>q, <1>1, <2>1, Zenon DEF StageDeleting, Own, Present
  <2>3. QED
        BY <2>1, <2>2, Zenon DEF After, Stage, Fresh, Creating
<1>2. CASE DeleteFails(p)
      BY <1>0, <1>2, TriesAgain, Zenon
<1>3. QED
      BY <1>1, <1>2, Zenon DEF Remove

\* DeleteVol leads to the next stage, or to a settled volume.
LEMMA AfterDeleteVol ==
  ASSUME TypeOK, NEW p \in Procs, NEW id, id = op[p].id, NEW o, o = op'[p], Stage(op[p]),
         DeleteVol(p), id \notin unclean'
  PROVE  After(o, id)'
<1>0. op[p].pc = "delvol" /\ StageDeleting(op[p]) /\ files' = files /\ id \in Ids /\ id \notin files
      BY Typed, Zenon DEF DeleteVol, Stage, StageDeleting
<1>q. Bound(id)' = Bound(id) /\ Mounts(id)' = Mounts(id)
      BY Quiet, Zenon DEF DeleteVol, kernel
<1>1. CASE UpdateVol(id, Deleted(id)) /\ Deletion(p)
  <2>1. vols'[id] = None
        BY <1>0, <1>1, Typed, Zenon DEF UpdateVol, Deleted
  <2>2. CASE op[p].dev = None
        BY <1>0, <1>1, <2>1, <2>2, Returned, SettledFits, ZenonT(60) DEF Deletion, After
  <2>3. CASE op[p].dev # None
    <3>1. o.pc = "release" /\ o.id = id /\ o.dev = op[p].dev
          BY <1>0, <1>1, <2>3, Returned, Zenon DEF Deletion
    <3>2. StageRelease(o)'
          BY <1>0, <1>q, <2>1, <2>3, <3>1, Zenon DEF StageRelease, StageDeleting, Own, Present
    <3>3. QED
          BY <3>1, <3>2, Zenon DEF After, Stage, Fresh, Creating
  <2>4. QED
        BY <2>2, <2>3, Zenon
<1>2. CASE DeleteFails(p) /\ UNCHANGED vols
      BY <1>0, <1>2, TriesAgain, Zenon DEF DeleteVol
<1>3. QED
      BY <1>1, <1>2, Zenon DEF DeleteVol

\* Restore leads to the next stage, or to a settled volume.
LEMMA AfterRestore ==
  ASSUME TypeOK, NEW p \in Procs, NEW id, id = op[p].id, NEW o, o = op'[p], Stage(op[p]), Restore(p)
  PROVE  After(o, id)'
<1>0. op[p].pc = "restore" /\ Fits(id, vols[id]) /\ vols' = vols /\ id \in Ids /\ Present(id)
      BY Typed, Zenon DEF Restore, Stage
<1>q. Bound(id)' = Bound(id) /\ Mounts(id)' = Mounts(id) /\ \A v : PathsFit(id, v)' <=> PathsFit(id, v)
      BY Quiet, Zenon DEF Restore, kernel
<1>1. id \in files'
      BY <1>0, Zenon DEF Restore, Fits
<1>2. Fits(id, vols[id])'
  <2>1. PICK v : v = vols[id]
        BY SMTT(60)
  <2>2. Fits(id, v)'
        BY <1>0, <1>q, <1>1, <2>1, Zenon DEF Fits
  <2>3. QED
        BY <1>0, <2>1, <2>2, Zenon DEF Fits, PathsFit
<1>3. Settled(id)' /\ o.pc = "idle"
      BY <1>0, <1>2, SettledFits, Typed, Zenon DEF Present, Restore, Idle
<1>4. QED
      BY <1>3, Zenon DEF After

\* A request that has only read its record is on a settled volume.
LEMMA ReadingSettled ==
  ASSUME TypeOK, NEW p \in Procs, op[p].pc \in Copying, StageReading(op[p])
  PROVE  Settled(op[p].id) /\ op[p].v \in Records /\ op[p].v # None
<1>1. op[p].v \in Records /\ op[p].v # None
      BY NfsAssumption, ZenonT(60) DEF TypeOK, RequestOK, RecordOK
<1>2. op[p].id \in Ids
      BY Typed, Zenon DEF Copying
<1>3. QED
      BY <1>1, <1>2, SettledFits, ZenonT(60) DEF StageReading, Present

\* A request that returns at once leaves the volume as it was.
LEMMA Refused ==
  ASSUME TypeOK, NEW p \in Procs, op[p].pc \in Copying, NEW id, id = op[p].id, NEW o, o = op'[p],
         StageReading(op[p]), SameView(id), Return(p)
  PROVE  After(o, id)'
  BY ReadingSettled, SameSettled, Returned, Typed, Zenon DEF After, StageReading, Copying

\* Attach leads to the next stage, or to a settled volume.
LEMMA AfterAttach ==
  ASSUME TypeOK, KernelInv, NEW p \in Procs, NEW id, id = op[p].id, NEW o, o = op'[p],
         Stage(op[p]), Attach(p)
  PROVE  After(o, id)'
<1>0. /\ op[p].pc = "attach" /\ StageReading(op[p]) /\ vols' = vols /\ files' = files /\ id \in Ids
      /\ UNCHANGED <<clearing, mounted, table>>
      BY Typed, Zenon DEF Attach, Stage
<1>1. ASSUME NEW dev \in Devs, Bind(p, dev, "attached")
      PROVE  After(o, id)'
  <2>1. o.pc = "attached" /\ o.id = id /\ o.v = op[p].v /\ o.dev = dev
        BY <1>0, <1>1, Typed, ZenonT(60) DEF Bind, Operations
  <2>2. Bound(id)' = Bound(id) \cup {dev} /\ \A v : PathsFit(id, v)' <=> PathsFit(id, v)
        BY <1>0, <1>1, Bound1, Zenon
  <2>3. FitsFree(id, o.v)' /\ Bound(id)' = {dev} /\ vols'[id] = o.v
        BY <1>0, <2>1, <2>2, Zenon DEF StageReading, Fits, FitsFree
  <2>4. QED
        BY <2>1, <2>3, Zenon DEF After, Stage, Fresh, Creating
<1>2. CASE Return(p) /\ UNCHANGED loop
  <2>1. SameView(id)
        BY <1>0, <1>2, Zenon DEF SameView, Bound, Mounts, MountsAt
  <2>2. QED
        BY <1>0, <1>2, <2>1, Refused, ZenonT(60) DEF Copying
<1>3. QED
      BY <1>1, <1>2, Zenon DEF Attach

\* AttachSave leads to the next stage, or to a settled volume.
LEMMA AfterAttachSave ==
  ASSUME TypeOK, NEW p \in Procs, NEW id, id = op[p].id, NEW o, o = op'[p], Stage(op[p]), AttachSave(p)
  PROVE  After(o, id)'
<1>0. /\ op[p].pc = "attached" /\ FitsFree(id, op[p].v) /\ Bound(id) = {op[p].dev} /\ vols[id] = op[p].v
      /\ files' = files /\ id \in Ids /\ op[p].dev \in Devs /\ op[p].v \in Records
      BY Typed, Zenon DEF AttachSave, Stage, RequestOK, RecordOK, Copying
<1>q. Bound(id)' = Bound(id) /\ Mounts(id)' = Mounts(id) /\ \A v : PathsFit(id, v)' <=> PathsFit(id, v)
      BY Quiet DEF AttachSave, kernel
<1>1. CASE UpdateVol(id, [op[p].v EXCEPT !.dev = op[p].dev, !.state = "ATTACHED"]) /\ op' = [op EXCEPT ![p] = Idle]
  <2>0. PICK v : v = [op[p].v EXCEPT !.dev = op[p].dev, !.state = "ATTACHED"]
        BY Zenon
  <2>1. v \in Records /\ v # None /\ v.state = "ATTACHED" /\ v.dev = op[p].dev /\ v.kind = op[p].v.kind /\ v.paths = op[p].v.paths
        BY <1>0, <2>0, NfsAssumption, ZenonT(60) DEF Records, States
  <2>2. PathsFit(id, v)
        BY <1>0, <2>1, Zenon DEF PathsFit, FitsFree
  <2>3. Fits(id, v)'
        BY <1>0, <1>q, <2>1, <2>2, Zenon DEF Fits, FitsFree
  <2>4. vols'[id] = v
        BY <1>0, <1>1, <2>0, Typed, Zenon DEF UpdateVol
  <2>5. Settled(id)'
        BY <1>0, <2>1, <2>3, <2>4, SettledFits, ZenonT(60) DEF Fits, PathsFit
  <2>6. QED
        BY <1>0, <1>1, <2>5, Typed, ZenonT(60) DEF After, Idle
<1>2. CASE Return(p) /\ UNCHANGED vols
  <2>1. o.pc = "release" /\ o.id = id /\ o.dev = op[p].dev
        BY <1>0, <1>2, Returned, NfsAssumption, Zenon
  <2>2. PICK v : v = op[p].v
        BY Zenon
  <2>3. FitsFree(id, v)' /\ vols'[id] = v /\ v # None
        BY <1>0, <1>q, <1>2, <2>2, NfsAssumption, Zenon DEF FitsFree
  <2>4. StageRelease(o)'
        BY <1>0, <1>q, <2>1, <2>3, Zenon DEF StageRelease, Present, FitsFree, PathsFit
  <2>5. QED
        BY <2>1, <2>4, Zenon DEF After, Stage, Fresh, Creating
<1>3. QED
      BY <1>1, <1>2, ZenonT(60) DEF AttachSave, AttachFails

\* Detach leads to the next stage, or to a settled volume.
LEMMA AfterDetach ==
  ASSUME TypeOK, NEW p \in Procs, NEW id, id = op[p].id, NEW o, o = op'[p], Stage(op[p]), Detach(p)
  PROVE  After(o, id)'
<1>0. /\ op[p].pc = "detach" /\ StageReading(op[p]) /\ files' = files /\ id \in Ids
      /\ op[p].v.state = "ATTACHED" /\ op[p].v.dev \in Devs /\ UNCHANGED <<mounted, table>>
      BY Typed, Zenon DEF Detach, Stage, RequestOK, RecordOK, Copying
<1>1. loop[op[p].v.dev] = id /\ Bound(id) = {op[p].v.dev}
      BY <1>0, Zenon DEF StageReading, Fits, Bound
<1>2. Goto(p, "detached") /\ ClearFd(p, op[p].v.dev)
      BY <1>0, <1>1, NfsAssumption, Zenon DEF Detach
<1>3. o.pc = "detached" /\ o.id = id /\ o.v = op[p].v /\ o.dev = None
      BY <1>0, <1>2, Went, ZenonT(60) DEF StageReading
<1>4. Bound(id)' = {} /\ \A v : PathsFit(id, v)' <=> PathsFit(id, v)
  <2>1. PICK dev \in Devs : dev = op[p].v.dev
        BY <1>0, Zenon
  <2>2. ClearFd(p, dev)
        BY <1>2, <2>1, Zenon
  <2>3. Bound(id)' = Bound(id) \ {dev} /\ \A v : PathsFit(id, v)' <=> PathsFit(id, v)
        BY <1>0, <2>2, Cleared, Zenon
  <2>4. Bound(id) \ {dev} = {}
        BY <1>1, <2>1, Zenon
  <2>5. QED
        BY <2>3, <2>4, Zenon
<1>5. QED
      BY <1>0, <1>3, <1>4, ZenonT(60) DEF After, Stage, Fresh, Creating, StageReading, Fits

\* A request that writes back a record that fits leaves a settled volume.
LEMMA Saved ==
  ASSUME TypeOK, NEW p \in Procs, op[p].pc # "idle", NEW id, id = op[p].id, NEW o, o = op'[p],
         NEW v, v \in Records, Fits(id, v)', SaveCopy(p, v), id \notin unclean'
  PROVE  After(o, id)'
<1>1. UpdateVol(id, v) /\ op' = [op EXCEPT ![p] = Idle]
      BY Zenon DEF SaveCopy, Abandon
<1>2. vols'[id] = v /\ v # None /\ id \in Ids
      BY <1>1, Typed, NfsAssumption, ZenonT(60) DEF UpdateVol
<1>3. Settled(id)'
      BY <1>2, SettledFits, Zenon DEF Fits, PathsFit
<1>4. QED
      BY <1>1, <1>3, Typed, Zenon DEF After, Idle

\* DetachSave leads to the next stage, or to a settled volume.
LEMMA AfterDetachSave ==
  ASSUME TypeOK, NEW p \in Procs, NEW id, id = op[p].id, NEW o, o = op'[p], Stage(op[p]),
         DetachSave(p), id \notin unclean'
  PROVE  After(o, id)'
<1>0. /\ op[p].pc = "detached" /\ id \in files /\ Bound(id) = {} /\ PathsFit(id, op[p].v) /\ files' = files
      /\ op[p].v \in Records
      BY Typed, Zenon DEF DetachSave, Stage, RequestOK, RecordOK, Copying
<1>q. Bound(id)' = Bound(id) /\ Mounts(id)' = Mounts(id) /\ \A v : PathsFit(id, v)' <=> PathsFit(id, v)
      BY Quiet DEF DetachSave, kernel
<1>1. PICK v : v = [op[p].v EXCEPT !.dev = None, !.state = "AVAILABLE"]
      OBVIOUS
<1>2. v \in Records /\ v.state = "AVAILABLE" /\ v.dev = None /\ v.kind = op[p].v.kind /\ v.paths = op[p].v.paths
      BY <1>0, <1>1, ZenonT(60) DEF Records, States
<1>3. Fits(id, v)'
      BY <1>0, <1>q, <1>2, Zenon DEF Fits, PathsFit
<1>4. QED
      BY <1>0, <1>1, <1>2, <1>3, Saved, ZenonT(60) DEF DetachSave

\* MountSave leads to the next stage, or to a settled volume.
LEMMA AfterMountSave ==
  ASSUME TypeOK, NEW p \in Procs, NEW id, id = op[p].id, NEW o, o = op'[p], Stage(op[p]),
         MountSave(p), id \notin unclean'
  PROVE  After(o, id)'
<1>0. /\ op[p].pc = "addpath" /\ files' = files /\ op[p].v \in Records /\ op[p].path \in Paths
      BY Typed, Zenon DEF MountSave, RequestOK, RecordOK, Copying
<1>q. Bound(id)' = Bound(id) /\ Mounts(id)' = Mounts(id) /\ \A v : PathsFit(id, v)' <=> PathsFit(id, v)
      BY Quiet DEF MountSave, kernel
<1>1. PICK v : v = [op[p].v EXCEPT !.paths = @ \cup {op[p].path}]
      BY Zenon
<1>2. v \in Records /\ Fits(id, v)
      BY <1>0, <1>1, SMTT(60) DEF Records, Stage
<1>3. Fits(id, v)'
      BY <1>0, <1>q, <1>2, Zenon DEF Fits
<1>4. QED
      BY <1>0, <1>1, <1>2, <1>3, Saved, ZenonT(60) DEF MountSave

\* UnmountSave leads to the next stage, or to a settled volume.
LEMMA AfterUnmountSave ==
  ASSUME TypeOK, NEW p \in Procs, NEW id, id = op[p].id, NEW o, o = op'[p], Stage(op[p]),
         UnmountSave(p), id \notin unclean'
  PROVE  After(o, id)'
<1>0. /\ op[p].pc = "setpaths" /\ files' = files /\ op[p].v \in Records /\ Fits(id, op[p].v)
      BY Typed, Zenon DEF UnmountSave, RequestOK, RecordOK, Copying, Stage
<1>q. Bound(id)' = Bound(id) /\ Mounts(id)' = Mounts(id) /\ \A v : PathsFit(id, v)' <=> PathsFit(id, v)
      BY Quiet, Zenon DEF UnmountSave, kernel
<1>1. PICK v : v = op[p].v
      BY Zenon
<1>2. Fits(id, v)'
      BY <1>0, <1>q, <1>1, Zenon DEF Fits
<1>3. QED
      BY <1>0, <1>1, <1>2, Saved, Zenon DEF UnmountSave

\* Mounting a directory leads to the next stage.
LEMMA AfterMountShared ==
  ASSUME TypeOK, NEW p \in Procs, NEW id, id = op[p].id, NEW o, o = op'[p], Stage(op[p]), Mount(p),
         op[p].kind = "shared"
  PROVE  After(o, id)'
<1>0. /\ op[p].pc = "mount" /\ StageReading(op[p]) /\ vols' = vols /\ files' = files /\ id \in Ids
      /\ UNCHANGED <<loop, clearing>> /\ op[p].v \in Records /\ op[p].v.kind = "shared" /\ op[p].path \in Paths
      /\ op[p].pc \in Copying
      BY Typed, Zenon DEF Mount, Stage, RequestOK, RecordOK, Copying, StageReading
<1>1. Bound(id)' = Bound(id) /\ MountShared(p)
      BY <1>0, Zenon DEF Bound, Mount
<1>2. PICK v : v = [op[p].v EXCEPT !.paths = @ \cup {op[p].path}]
      BY Zenon
<1>3. /\ v.state = op[p].v.state /\ v.dev = op[p].v.dev /\ v.kind = "shared"
      /\ v.paths = op[p].v.paths \cup {op[p].path} /\ op[p].v.paths = Mounts(id)
      /\ v.paths \subseteq Paths
      BY <1>0, <1>2, SMTT(60) DEF Records, StageReading, Fits, PathsFit
<1>4. ASSUME Goto(p, "addpath"), \A path \in v.paths : MountsAt(id, path)' # {}, Mounts(id)' = v.paths
      PROVE  After(o, id)'
  <2>1. o.pc = "addpath" /\ o.id = id /\ o.v = op[p].v /\ o.path = op[p].path /\ o.dev = None
        BY <1>0, <1>4, Went, Zenon DEF StageReading
  <2>2. Fits(id, v)'
        BY <1>0, <1>1, <1>3, <1>4, ZenonT(60) DEF Fits, PathsFit, StageReading
  <2>3. v = [o.v EXCEPT !.paths = @ \cup {o.path}]
        BY <1>2, <2>1, Zenon
  <2>4. QED
        BY <2>1, <2>2, <2>3, Zenon DEF After, Stage, Fresh, Creating
<1>5. CASE op[p].path \in Mounts(id) /\ Goto(p, "addpath") /\ UNCHANGED <<mounted, table>>
  <2>1. Mounts(id)' = Mounts(id) /\ \A path : MountsAt(id, path)' = MountsAt(id, path)
        BY <1>5, Zenon DEF Mounts, MountsAt
  <2>2. QED
        BY <1>0, <1>3, <1>4, <1>5, <2>1, ZenonT(60) DEF StageReading, Fits, PathsFit
<1>6. CASE Return(p) /\ mounted' = mounted /\ (table' = table \/ table' = [table EXCEPT ![id] = Mounts(id)])
  <2>1. Mounts(id)' = Mounts(id) /\ \A path : MountsAt(id, path)' = MountsAt(id, path)
        BY <1>0, <1>6, Typed, Zenon DEF Mounts, MountsAt
  <2>2. SameView(id)
        BY <1>0, <1>1, <2>1, Zenon DEF SameView
  <2>3. QED
        BY <1>0, <1>6, <2>2, Refused, ZenonT(60)
<1>7. CASE /\ mounted' = mounted \cup {<<Dir, id, op[p].path>>} /\ Goto(p, "addpath")
           /\ table' = [table EXCEPT ![id] = Mounts(id) \cup {op[p].path}]
  <2>1. PICK path \in Paths : path = op[p].path
        BY <1>0, Zenon
  <2>2. \A k : MountsAt(id, k) \subseteq MountsAt(id, k)'
        BY <1>7, Zenon DEF MountsAt
  <2>3. <<Dir, id, path>> \in MountsAt(id, path)'
        BY <1>7, <2>1, Zenon DEF MountsAt
  <2>4. Mounts(id)' = Mounts(id) \cup {path}
        BY <1>0, <1>7, <2>1, Typed, NfsAssumption, ZenonT(60) DEF Mounts
  <2>5. \A k \in v.paths : MountsAt(id, k)' # {}
        BY <1>0, <1>3, <2>1, <2>2, <2>3, ZenonT(60) DEF StageReading, Fits, PathsFit
  <2>6. QED
        BY <1>3, <1>4, <1>7, <2>1, <2>4, <2>5, ZenonT(60)
<1>8. QED
      BY <1>0, <1>1, <1>5, <1>6, <1>7, Typed, ZenonT(60) DEF MountShared

\* Mounting a device leads to the next stage.
LEMMA AfterMountBlock ==
  ASSUME TypeOK, NEW p \in Procs, NEW id, id = op[p].id, NEW o, o = op'[p], Stage(op[p]), Mount(p),
         op[p].kind # "shared"
  PROVE  After(o, id)'
<1>0. /\ op[p].pc = "mount" /\ StageReading(op[p]) /\ vols' = vols /\ files' = files /\ id \in Ids
      /\ UNCHANGED <<loop, clearing>> /\ op[p].v \in Records /\ op[p].v.kind # "shared" /\ op[p].path \in Paths
      /\ op[p].pc \in Copying
      BY Typed, Zenon DEF Mount, Stage, RequestOK, RecordOK, Copying, StageReading
<1>1. Bound(id)' = Bound(id) /\ MountBlock(p)
      BY <1>0, Zenon DEF Bound, Mount
<1>2. PICK path, dev : path \in Paths /\ path = op[p].path /\ dev = op[p].v.dev
      BY <1>0, Zenon
<1>3. PICK v : v = [op[p].v EXCEPT !.paths = @ \cup {op[p].path}]
      BY Zenon
<1>4. /\ v.state = op[p].v.state /\ v.dev = op[p].v.dev /\ v.kind # "shared"
      /\ v.paths = op[p].v.paths \cup {path}
      BY <1>0, <1>2, <1>3, SMTT(60) DEF Records
<1>5. CASE mounted' = mounted \cup {<<dev, id, path>>} /\ Goto(p, "addpath")
  <2>1. \A k : MountsAt(id, k) \subseteq MountsAt(id, k)'
        BY <1>5, Zenon DEF MountsAt
  <2>2. <<dev, id, path>> \in MountsAt(id, path)'
        BY <1>5, Zenon DEF MountsAt
  <2>3. \A k \in v.paths : MountsAt(id, k)' # {}
        BY <1>0, <1>4, <2>1, <2>2, Zenon DEF StageReading, Fits, PathsFit
  <2>4. Fits(id, v)'
        BY <1>0, <1>1, <1>4, <2>3, Zenon DEF Fits, PathsFit, StageReading
  <2>5. o.pc = "addpath" /\ o.id = id /\ o.v = op[p].v /\ o.path = op[p].path /\ o.dev = None
        BY <1>0, <1>5, Went, Zenon DEF StageReading
  <2>6. v = [o.v EXCEPT !.paths = @ \cup {o.path}]
        BY <1>3, <2>5, Zenon
  <2>7. QED
        BY <2>4, <2>5, <2>6, Zenon DEF After, Stage, Fresh, Creating
<1>6. CASE Return(p) /\ UNCHANGED mounted
  <2>1. SameView(id)
        BY <1>0, <1>1, <1>6, Zenon DEF SameView, MountBlock, Mounts, MountsAt
  <2>2. QED
        BY <1>0, <1>6, <2>1, Refused, Zenon
<1>7. QED
      BY <1>1, <1>2, <1>5, <1>6, Zenon DEF MountBlock

\* Unmounting a directory leads to the next stage.
LEMMA AfterUnmountShared ==
  ASSUME TypeOK, NEW p \in Procs, NEW id, id = op[p].id, NEW o, o = op'[p], Stage(op[p]),
         Unmount(p), op[p].kind = "shared"
  PROVE  After(o, id)'
<1>0. /\ op[p].pc = "unmount" /\ StageReading(op[p]) /\ vols' = vols /\ files' = files /\ id \in Ids
      /\ op[p].v \in Records /\ op[p].v.kind = "shared" /\ op[p].path \in Paths /\ op[p].pc \in Copying
      BY Typed, Zenon DEF Unmount, Stage, RequestOK, RecordOK, Copying, StageReading
<1>1. UnmountShared(p) /\ Bound(id)' = Bound(id)
      BY Zenon DEF Unmount, UnmountShared, Bound
<1>2. PICK path, left : path \in Paths /\ path = op[p].path /\ left = Mounts(id) \ {path}
      BY <1>0, Zenon
<1>3. Mounts(id) \in SUBSET Paths /\ op[p].v.paths = Mounts(id)
      BY <1>0, Typed, Zenon DEF Mounts, StageReading, Fits, PathsFit
<1>4. CASE /\ table[id] # None
           /\ mounted' = IF path \in Mounts(id) THEN mounted \ MountsAt(id, path) ELSE mounted
           /\ table' = [table EXCEPT ![id] = IF left = {} /\ @ # {} THEN None ELSE left]
           /\ op' = [op EXCEPT ![p].pc = "setpaths", ![p].v.paths = left]
  <2>1. Mounts(id)' = left
        BY <1>0, <1>2, <1>3, <1>4, Typed, NfsAssumption, ZenonT(60) DEF Mounts
  <2>2. \A k \in left : MountsAt(id, k)' = MountsAt(id, k)
        BY <1>2, <1>4, ZenonT(60) DEF MountsAt
  <2>3. /\ o.pc = "setpaths" /\ o.id = id /\ o.dev = None /\ o.v = [op[p].v EXCEPT !.paths = left]
        BY <1>0, <1>4, Typed, SMTT(60) DEF Operations, StageReading
  <2>4. o.v.paths = left /\ o.v.kind = "shared" /\ o.v.state = op[p].v.state /\ o.v.dev = op[p].v.dev
        BY <1>0, <2>3, Zenon DEF Records
  <2>5. \A k \in left : MountsAt(id, k)' # {}
        BY <1>0, <1>2, <1>3, <2>2, Zenon DEF StageReading, Fits, PathsFit
  <2>6. Fits(id, o.v)'
        BY <1>0, <1>1, <2>1, <2>4, <2>5, ZenonT(60) DEF Fits, PathsFit, StageReading
  <2>7. QED
        BY <2>3, <2>6, Zenon DEF After, Stage, Fresh, Creating
<1>5. CASE Return(p) /\ UNCHANGED <<mounted, table>>
  <2>1. SameView(id)
        BY <1>0, <1>1, <1>5, Zenon DEF SameView, Mounts, MountsAt
  <2>2. QED
        BY <1>0, <1>5, <2>1, Refused, Zenon
<1>6. QED
      BY <1>1, <1>2, <1>4, <1>5, Zenon DEF UnmountShared

\* Unmounting a device leads to the next stage.
LEMMA AfterUnmountBlock ==
  ASSUME TypeOK, NEW p \in Procs, NEW id, id = op[p].id, NEW o, o = op'[p], Stage(op[p]),
         Unmount(p), op[p].kind # "shared"
  PROVE  After(o, id)'
<1>0. /\ op[p].pc = "unmount" /\ StageReading(op[p]) /\ vols' = vols /\ files' = files /\ id \in Ids
      /\ op[p].v \in Records /\ op[p].v.kind # "shared" /\ op[p].path \in Paths /\ op[p].pc \in Copying
      BY Typed, Zenon DEF Unmount, Stage, RequestOK, RecordOK, Copying, StageReading
<1>1. UnmountBlock(p) /\ table' = table
      BY <1>0, Zenon DEF Unmount, UnmountBlock
<1>2. CASE Return(p) /\ UNCHANGED kernel
  <2>1. SameView(id)
        BY <1>0, <1>1, <1>2, Zenon DEF SameView, Mounts, MountsAt, Bound, kernel
  <2>2. QED
        BY <1>0, <1>2, <2>1, Refused, ZenonT(60)
<1>a. ASSUME op' = [op EXCEPT ![p].pc = "setpaths", ![p].v.paths = {}]
      PROVE  o.pc = "setpaths" /\ o.id = id /\ o.dev = None /\ o.v = [op[p].v EXCEPT !.paths = {}]
  <2>1. op \in [Procs -> Operations] /\ op[p] \in Operations /\ op[p].dev = None
        BY <1>0, Typed, Zenon DEF StageReading
  <2>2. o = [op[p] EXCEPT !.pc = "setpaths", !.v.paths = {}]
        BY <1>a, <2>1, Zenon
  <2>3. QED
        BY <2>1, <2>2, ZenonT(60) DEF Operations
<1>3. ASSUME NEW m \in MountsAt(id, op[p].path),
             IF m[1] \in clearing /\ \A k \in mounted' : k[1] # m[1]
             THEN clearing' = clearing \ {m[1]} /\ loop' = [loop EXCEPT ![m[1]] = None]
             ELSE UNCHANGED <<clearing, loop>>,
             op' = [op EXCEPT ![p].pc = "setpaths", ![p].v.paths = {}]
      PROVE  After(o, id)'
  <2>1. Bound(id)' = Bound(id)
    <3>1. loop \in [Devs -> Ids \cup {None}] /\ None # id
          BY <1>0, Typed, Zenon
    <3>2. CASE UNCHANGED <<clearing, loop>>
          BY <3>2, Zenon DEF Bound
    <3>3. CASE clearing' = clearing \ {m[1]} /\ loop' = [loop EXCEPT ![m[1]] = None] /\ m[1] \in clearing
          BY <3>1, <3>3, Zenon DEF Bound
    <3>4. QED
          BY <1>3, <3>2, <3>3, Zenon
  <2>2. /\ o.pc = "setpaths" /\ o.id = id /\ o.dev = None /\ o.v = [op[p].v EXCEPT !.paths = {}]
        BY <1>a, <1>3, Zenon
  <2>3. o.v.paths = {} /\ o.v.kind # "shared" /\ o.v.state = op[p].v.state /\ o.v.dev = op[p].v.dev
        BY <1>0, <2>2, ZenonT(60) DEF Records
  <2>4. Fits(id, o.v)'
        BY <1>0, <2>1, <2>3, ZenonT(60) DEF Fits, PathsFit, StageReading
  <2>5. QED
        BY <2>2, <2>4, Zenon DEF After, Stage, Fresh, Creating
<1>4. QED
      BY <1>1, <1>2, <1>3, ZenonT(60) DEF UnmountBlock

\* Every step of a request on a clean volume leads to the next stage, or to a settled volume.
LEMMA AfterStep ==
  ASSUME TypeOK, KernelInv, NEW p \in Procs, Progress(p), NEW id, id = op[p].id,
         id \notin unclean', Stage(op[p])
  PROVE  (op'[p].pc = "idle" => Settled(id)') /\ (op'[p].pc # "idle" => Stage(op[p])')
<1>0. PICK o : o = op'[p]
      BY Zenon
<1>1. After(o, id)'
  <2>1. CASE CreateStep(p)
        BY <1>0, <2>1, AfterSnapshot, AfterMkdir, AfterCreateVol, AfterClone, AfterBlockFile,
           AfterFormat,
           AfterPublish, AfterRelease, ZenonT(60) DEF CreateStep
  <2>2. CASE DeleteStep(p)
        BY <1>0, <2>2, AfterUndo, AfterRemove, AfterDeleteVol, AfterRestore, ZenonT(60)
           DEF DeleteStep
  <2>3. CASE NodeStep(p)
        BY <1>0, <2>3, AfterAttach, AfterAttachSave, AfterDetach, AfterDetachSave,
           AfterMountShared, AfterMountBlock,
           AfterMountSave, AfterUnmountShared, AfterUnmountBlock, AfterUnmountSave, ZenonT(60)
           DEF NodeStep
  <2>4. QED
        BY <2>1, <2>2, <2>3, ZenonT(60) DEF Progress
<1>2. CASE o.pc = "idle"
      BY <1>0, <1>1, <1>2, ZenonT(60) DEF After
<1>3. CASE o.pc # "idle"
      BY <1>0, <1>1, <1>3, Rigid, ZenonT(60) DEF After
<1>4. QED
      BY <1>0, <1>2, <1>3, ZenonT(60)

\* A request on a settled volume begins at its first stage.
LEMMA RequestStage ==
  ASSUME TypeOK, UsedInv, AgreeInv, NEW p \in Procs, Request(p), NEW id, id = op'[p].id,
         id \notin unclean'
  PROVE  Stage(op[p])'
<1>1. PICK o : o = op'[p]
      BY Zenon
<1>2. /\ id \in Ids /\ Present(id) /\ Begin(p, o) /\ UNCHANGED <<vols, files, kernel, table>>
      BY <1>1, Begins, Zenon
<1>3. InFlight(id) = {} /\ id \notin unclean
      BY <1>1, <1>2, ZenonT(60) DEF Begin
<1>4. Settled(id) /\ Fits(id, vols[id])
      BY <1>2, <1>3, SettledFits, Zenon DEF AgreeInv, AgreeWhenQuiet, UsedInv
<1>5. PICK v : v = vols[id]
      BY Zenon
<1>6. Bound(id)' = Bound(id) /\ Mounts(id)' = Mounts(id) /\ \A k : PathsFit(id, k)' <=> PathsFit(id, k)
      BY <1>2, Quiet, Zenon DEF kernel
<1>7. Fits(id, v)' /\ v = vols'[id] /\ v # None
      BY <1>2, <1>4, <1>5, <1>6, ZenonT(60) DEF Fits, Present
<1>8. Stage(o)'
  <2>1. PICK i \in Ids :
          \/ DeleteCall(p, i)
          \/ \E snap \in Ids : RestoreCall(p, i, snap)
          \/ AttachCall(p, i)
          \/ DetachCall(p, i)
          \/ \E path \in Paths : MountCall(p, i, path) \/ UnmountCall(p, i, path)
        BY ZenonT(60)  DEF Request
  <2>2. op \in [Procs -> Operations]
        BY Zenon  DEF TypeOK
  <2>3. CASE DeleteCall(p, i)
    <3>1. o = [Idle EXCEPT !.pc = "remove", !.id = i, !.kind = vols[i].kind] /\ vols[i].state # "ATTACHED"
          BY <1>1, <2>2, <2>3, Zenon DEF DeleteCall, Begin
    <3>2. o.pc = "remove" /\ o.id = id /\ i = id /\ o.dev = None
          BY <1>1, <3>1, ZenonT(60) DEF Idle
    <3>3. StageDeleting(o)'
          BY <1>2, <1>4, <1>5, <1>6, <1>7, <3>1, <3>2, ZenonT(60) DEF StageDeleting, Own, Fits,
             Present
    <3>4. QED
          BY <3>2, <3>3, Zenon DEF Stage, Fresh, Creating
  <2>4. CASE \E snap \in Ids : RestoreCall(p, i, snap)
    <3>1. o.pc = "restore" /\ o.id = id
          BY <1>1, <2>2, <2>4, ZenonT(60) DEF RestoreCall, Begin, Idle
    <3>2. (Present(o.id) /\ Fits(o.id, vols[o.id]))'
          BY <1>7, <3>1, ZenonT(60) DEF Present, Fits, PathsFit
    <3>3. QED
          BY <3>1, <3>2, Zenon DEF Stage, Fresh, Creating
  <2>5. ASSUME o.pc \in {"attach", "detach", "mount", "unmount"}, o.v = v, o.dev = None, o.kind = v.kind,
               o.pc = "attach" => v.state # "ATTACHED"
        PROVE  Stage(o)'
    <3>1. StageReading(o)'
          BY <1>1, <1>7, <2>5, ZenonT(60) DEF StageReading
    <3>2. QED
          BY <2>5, <3>1, ZenonT(60) DEF Stage, Fresh, Creating
  <2>6. CASE AttachCall(p, i) \/ DetachCall(p, i)
    <3>1. PICK pc \in {"attach", "detach"} : o = Copy(pc, i) /\ (pc = "attach" => vols[i].state # "ATTACHED")
          BY <1>1, <2>2, <2>6, ZenonT(60) DEF AttachCall, DetachCall, Begin
    <3>2. o.id = i /\ o.pc = pc /\ o.v = vols[i] /\ o.dev = None /\ o.kind = vols[i].kind
          BY <3>1, Zenon DEF Copy, Idle
    <3>3. QED
          BY <1>1, <1>5, <2>5, <3>1, <3>2, ZenonT(60)
  <2>7. CASE \E path \in Paths : MountCall(p, i, path) \/ UnmountCall(p, i, path)
    <3>1. PICK path \in Paths, pc \in {"mount", "unmount"} : o = [Copy(pc, i) EXCEPT !.path = path]
          BY <1>1, <2>2, <2>7, Zenon DEF MountCall, UnmountCall, Begin
    <3>2. o.id = i /\ o.pc = pc /\ o.v = vols[i] /\ o.dev = None /\ o.kind = vols[i].kind
          BY <3>1, Zenon DEF Copy, Idle
    <3>3. QED
          BY <1>1, <1>5, <2>5, <3>1, <3>2, ZenonT(60)
  <2>8. QED
        BY <2>1, <2>3, <2>4, <2>6, <2>7, ZenonT(60)
<1>9. QED
      BY <1>1, <1>8, Rigid, ZenonT(60)

\* A request that creates a volume begins at its first stage.
LEMMA NewStage ==
  ASSUME TypeOK, AgreeInv, NEW p \in Procs, NewRequest(p), NEW id, id = op'[p].id, id \notin unclean'
  PROVE  Stage(op[p])'
<1>1. PICK o : o = op'[p]
      BY SMTT(60)
<1>2. /\ id \in Ids \ used /\ id \notin unclean /\ Fresh(o) /\ o.dev = None /\ UNCHANGED <<vols, files, kernel, table>>
      /\ o.pc = "record" => o.kind # "shared"
      /\ o.pc = "mkdir" => o.kind = "shared"
      BY <1>1, BeginsNew, Zenon DEF Begin
<1>3. Blank(id)
      BY <1>2, Zenon DEF AgreeInv
<1>4. Bound(id)' = Bound(id) /\ Mounts(id)' = Mounts(id)
      BY <1>2, Quiet, ZenonT(60) DEF kernel
<1>5. StageNew(o)'
      BY <1>1, <1>2, <1>3, <1>4, ZenonT(60) DEF StageNew, Blank, Present
<1>6. Stage(o)'
      BY <1>2, <1>5, ZenonT(60) DEF Stage, Fresh, Creating
<1>7. QED
      BY <1>1, <1>6, Rigid, ZenonT(60)

\* Every step of a goroutine preserves AgreeInv.
LEMMA AgreeStep ==
  ASSUME WritersInv, UsedInv, KernelInv, AgreeInv, NEW p \in Procs, Step(p)
  PROVE  AgreeInv'
<1>0. /\ TypeOK /\ Meet /\ used \subseteq used' /\ unclean \subseteq unclean' /\ UsedInv'
      /\ \A q \in Procs \ {p} : op'[q] = op[q]
      BY Grows, Others, UsedStep, ZenonT(60) DEF WritersInv
<1>1. ASSUME NEW id \in Ids \ (used' \cup unclean') PROVE Blank(id)'
  <2>1. SameView(id)
        BY <1>0, <1>1, Frame, SameVolume, ZenonT(60) DEF UsedInv, Step
  <2>2. QED
        BY <1>0, <1>1, <2>1, ZenonT(60) DEF SameView, AgreeInv, Blank, Present
<1>2. ASSUME NEW id \in used' \ unclean', InFlight(id)' = {} PROVE Settled(id)'
  <2>0. id \in Ids
        BY <1>0, <1>2, TypeStep, ZenonT(60) DEF TypeOK
  <2>1. CASE Progress(p) /\ op[p].id = id
    <3>1. op'[p].pc = "idle"
          BY <1>0, <1>2, <2>1, SameVolume, IdlePc, ZenonT(60) DEF InFlight
    <3>2. Stage(op[p])
          BY <1>0, <1>2, <2>1, SameVolume, ZenonT(60) DEF AgreeInv
    <3>3. QED
          BY <1>0, <1>2, <2>1, <3>1, <3>2, AfterStep, ZenonT(60)
  <2>2. CASE ~ (Progress(p) /\ op[p].id = id)
    <3>1. SameView(id)
          BY <1>0, <1>2, <2>0, <2>2, Frame, ZenonT(60) DEF Step
    <3>2. InFlight(id) = {}
      <4>1. ASSUME NEW q \in Procs, op[q].pc # "idle", op[q].id = id PROVE FALSE
        <5>1. CASE q # p
              BY <1>0, <1>2, <4>1, <5>1, ZenonT(60) DEF InFlight
        <5>2. CASE q = p
              BY <1>0, <2>2, <4>1, <5>2, BeginsNew, Begins, ZenonT(60) DEF Step
        <5>3. QED
              BY <5>1, <5>2, ZenonT(60)
      <4>2. QED
            BY <4>1, Zenon DEF InFlight
    <3>3. id \in used
      <4>1. CASE NewRequest(p)
        <5>1. used' = used \cup {op'[p].id} /\ op'[p].pc # "idle"
              BY <1>0, <4>1, BeginsNew, ZenonT(60) DEF Draw, Fresh
        <5>2. op'[p].id # id
              BY <1>2, <5>1, ZenonT(60) DEF InFlight
        <5>3. QED
              BY <1>2, <5>1, <5>2, ZenonT(60)
      <4>2. CASE ~ NewRequest(p)
            BY <1>0, <1>2, <4>2, SameUsed, ZenonT(60)
      <4>3. QED
            BY <4>1, <4>2, Zenon
    <3>4. QED
          BY <1>0, <1>2, <2>0, <3>1, <3>2, <3>3, SameSettled, ZenonT(60) DEF AgreeInv, AgreeWhenQuiet
  <2>3. QED
        BY <2>1, <2>2, ZenonT(60)
<1>3. ASSUME NEW q \in Procs, op'[q].pc # "idle", op'[q].id \notin unclean' PROVE Stage(op[q])'
  <2>1. CASE q = p
    <3>1. CASE NewRequest(p)
          BY <1>0, <1>3, <2>1, <3>1, NewStage, ZenonT(60)
    <3>2. CASE Request(p)
          BY <1>0, <1>3, <2>1, <3>2, RequestStage, ZenonT(60)
    <3>3. CASE Progress(p)
      <4>1. op[p].pc # "idle" /\ op'[p].id = op[p].id
            BY <1>0, <1>3, <2>1, <3>3, SameVolume, IdlePc, ZenonT(60)
      <4>2. Stage(op[p])
            BY <1>0, <1>3, <2>1, <4>1, ZenonT(60) DEF AgreeInv
      <4>3. QED
            BY <1>0, <1>3, <2>1, <3>3, <4>1, <4>2, AfterStep, ZenonT(60)
    <3>4. QED
          BY <3>1, <3>2, <3>3, ZenonT(60) DEF Step
  <2>2. CASE q # p
    <3>1. op'[q] = op[q] /\ op[q].id \in Ids
          BY <1>0, <1>3, <2>2, Typed, ZenonT(60)
    <3>2. Stage(op[q])
          BY <1>0, <1>3, <3>1, Zenon DEF AgreeInv
    <3>3. NewRequest(p) \/ Request(p) \/ op[q].id # op[p].id
          BY <1>0, <1>3, <2>2, <3>1, SameVolume, ZenonT(60) DEF Meet, Step
    <3>4. SameView(op[q].id)
      <4>1. PICK id \in Ids : id = op[q].id
            BY <3>1, Zenon
      <4>2. SameView(id)
            BY <1>0, <1>3, <3>1, <3>3, <4>1, Frame, ZenonT(60)
      <4>3. QED
            BY <3>1, <4>1, <4>2, ZenonT(60) DEF SameView, Bound, Mounts, MountsAt
    <3>5. QED
          BY <1>0, <1>3, <3>1, <3>2, <3>4, SameStage, ZenonT(60)
  <2>3. QED
        BY <2>1, <2>2, Zenon
<1>4. AgreeWhenQuiet'
      BY <1>2, Zenon DEF AgreeWhenQuiet
<1>5. QED
      BY <1>1, <1>3, <1>4, ZenonT(60) DEF AgreeInv

\* AgreeWhenQuiet: once the requests on a volume have returned one after the other, the record
\* in kvdb, the files, the loop devices and the mounts agree about it, whatever happened to
\* other volumes and whichever of the requests failed cleanly.
THEOREM QuietVolumesAgree == Spec => []AgreeWhenQuiet
<1> DEFINE Inv == UsedInv /\ KernelInv /\ AgreeInv
<1>1. Init => Inv
  <2> SUFFICES ASSUME Init PROVE Inv
      BY SMTT(60)
  <2>1. (\A p \in Procs : op[p].pc = "idle") /\ (\A id \in Ids : ~ Present(id)) /\ used = {} /\ mounted = {} /\ clearing = {}
        BY Zenon DEF Init, Idle, Present
  <2>2. \A id \in Ids : Blank(id)
        BY <2>1, NfsAssumption, ZenonT(60) DEF Init, Blank, Bound, Mounts
  <2>3. QED
        BY <2>1, <2>2, ZenonT(60) DEF UsedInv, KernelInv, AgreeInv, AgreeWhenQuiet
<1>2. ASSUME WritersInv, Inv, [Next]_vars PROVE Inv'
  <2>0. TypeOK
        BY <1>2, Zenon DEF WritersInv
  <2>1. ASSUME NEW p \in Procs, Step(p) PROVE Inv'
        BY <1>2, <2>0, <2>1, UsedStep, KernelStep, AgreeStep, ZenonT(60)
  <2>2. CASE Crash \/ Reboot
    <3>1. /\ vols' = vols /\ files' = files /\ used' = used /\ unclean \subseteq unclean'
          /\ \A p \in Procs : op'[p].pc = "idle"
      <4>1. vols' = vols /\ files' = files /\ used' = used /\ op' = [p \in Procs |-> Idle]
            BY <2>2, Zenon DEF Crash, Reboot, Restart
      <4>2. unclean \subseteq unclean'
            BY <2>2, Zenon DEF Crash, Reboot, Restart
      <4>3. QED
            BY <4>1, <4>2, IdlePc, Zenon
    <3>2. UsedInv'
          BY <1>2, <3>1, Zenon DEF UsedInv, Present
    <3>3. KernelInv'
          BY <1>2, <2>2, ZenonT(60) DEF Crash, Reboot, KernelInv, kernel
    <3>4. ASSUME NEW id \in Ids PROVE Mounts(id)' = {}
          BY <2>2, Zenon DEF Crash, Reboot, Restart, Mounts
    <3>5. ASSUME NEW id \in Ids \ unclean' PROVE InFlight(id) = {}
          BY <2>2, <3>5, ZenonT(60) DEF Crash, Reboot, CutOff
    <3>6. ASSUME NEW id \in Ids \ (used \cup unclean') PROVE Blank(id)'
      <4>1. Blank(id)
            BY <1>2, <3>1, <3>6, ZenonT(60) DEF AgreeInv
      <4>2. Bound(id)' = {}
            BY <2>2, <4>1, NfsAssumption, ZenonT(60) DEF Crash, Reboot, Blank, Bound, kernel
      <4>3. QED
            BY <3>1, <3>4, <4>1, <4>2, ZenonT(60) DEF Blank, Present
    <3>7. ASSUME NEW id \in used \ unclean' PROVE Settled(id)'
      <4>0. id \in Ids /\ Settled(id)
            BY <1>2, <2>0, <3>1, <3>5, <3>7, ZenonT(60) DEF AgreeInv, AgreeWhenQuiet, TypeOK
      <4>1. CASE Crash
        <5>1. Mounts(id) = {}
              BY <3>7, <4>0, <4>1, ZenonT(60) DEF Crash
        <5>2. SameView(id)
              BY <3>1, <3>4, <4>0, <4>1, <5>1, ZenonT(60) DEF SameView, Crash, Bound, MountsAt,
                 kernel
        <5>3. QED
              BY <2>0, <4>0, <5>2, SameSettled, ZenonT(60)
      <4>2. CASE Reboot
        <5>1. Present(id) => vols[id].state # "ATTACHED" /\ vols[id].paths = {}
              BY <3>7, <4>0, <4>2, ZenonT(60) DEF Reboot
        <5>2. Bound(id)' = {}
              BY <4>0, <4>2, NfsAssumption, ZenonT(60) DEF Reboot, Bound
        <5>3. Present(id) => Fits(id, vols[id])'
              BY <3>1, <3>4, <4>0, <5>1, <5>2, SettledFits, ZenonT(60) DEF Fits, PathsFit
        <5>4. QED
              BY <3>1, <4>0, <5>3, SettledFits, ZenonT(60) DEF Present
      <4>3. QED
            BY <2>2, <4>1, <4>2, ZenonT(60)
    <3>8. AgreeInv'
          BY <3>1, <3>6, <3>7, ZenonT(60) DEF AgreeInv, AgreeWhenQuiet
    <3>9. QED
          BY <3>2, <3>3, <3>8, ZenonT(60)
  <2>3. CASE UNCHANGED vars
    <3>1. UsedInv' /\ KernelInv'
          BY <1>2, <2>3, ZenonT(60) DEF vars, kernel, UsedInv, KernelInv, Present
    <3>2. \A id : SameView(id) /\ InFlight(id)' = InFlight(id)
          BY <2>3, ZenonT(60) DEF vars, kernel, SameView, Bound, Mounts, MountsAt, InFlight
    <3>3. AgreeWhenQuiet'
          BY <1>2, <2>0, <2>3, <3>2, SameSettled, ZenonT(60) DEF AgreeInv, AgreeWhenQuiet, vars,
             history, TypeOK
    <3>4. \A p \in Procs : op'[p].pc # "idle" /\ op'[p].id \notin unclean' => Stage(op[p])'
          BY <1>2, <2>0, <2>3, <3>2, SameStage, ZenonT(60) DEF AgreeInv, vars, history
    <3>5. \A id \in Ids \ (used' \cup unclean') : Blank(id)'
          BY <1>2, <2>3, <3>2, ZenonT(60) DEF AgreeInv, Blank, SameView, Present, vars, history
    <3>6. QED
          BY <3>1, <3>3, <3>4, <3>5, ZenonT(60) DEF AgreeInv
  <2>4. QED
        BY <1>2, <2>1, <2>2, <2>3, NextSteps, SMTT(60)
<1>3. Inv => AgreeWhenQuiet
      BY Zenon DEF AgreeInv
<1>4. QED
      BY <1>1, <1>2, <1>3, WritersInit, WritersNext, PTL DEF Spec
=============================================================================
