--------------------------- MODULE NfsVolumeProofs ---------------------------
(***************************************************************************)
(* What NfsVolume guarantees for any number of goroutines, volumes, names, *)
(* devices, paths and restarts, whatever fails:                            *)
(*   TypeCorrect         TypeOK is an invariant;                           *)
(*   DeletedStaysGone    a deleted volume comes back only by a request     *)
(*                       that its Delete has met;                          *)
(*   NamesStayUnique     two volumes of one name were not known to be so;  *)
(*   ReadyKeepsData      a volume shown as ready has its files.            *)
(***************************************************************************)
EXTENDS NfsVolume, TLAPS

-----------------------------------------------------------------------------
(* Types. TypeOK is proved in three parts: the requests, the records and   *)
(* the rest.                                                               *)

\* The requests, the records, the rest of the state.
OpsOK == op \in [Procs -> Operations] /\ \A p \in Procs : RequestOK(op[p])
RecordsOK == vols \in [Ids -> Records \cup {None}] /\ \A id \in Ids : Present(id) => RecordOK(vols[id])

KernelOK ==
  /\ files \in SUBSET Ids /\ used \in SUBSET Ids
  /\ removed \in SUBSET Ids /\ unclean \in SUBSET Ids /\ unsure \in SUBSET Names
  /\ loop \in [Devs -> Ids \cup {None}]
  /\ clearing \in SUBSET Devs
  /\ mounted \in SUBSET ((Devs \cup {Dir}) \X Ids \X Paths)
  /\ table \in [Ids -> (SUBSET Paths) \cup {None}]
  /\ crashes \in 0 .. MaxCrashes

\* TypeOK is the conjunction of its three parts.
LEMMA Parts == TypeOK <=> OpsOK /\ RecordsOK /\ KernelOK
  BY DEF TypeOK, OpsOK, RecordsOK, KernelOK

\* A request may be replaced by any well-formed one.
LEMMA OpStep ==
  ASSUME OpsOK, NEW p \in Procs, NEW o \in Operations, RequestOK(o), op' = [op EXCEPT ![p] = o]
  PROVE  OpsOK'
  BY DEF OpsOK

\* A goroutine without a request is well-formed.
LEMMA IdleOK == Idle \in Operations /\ RequestOK(Idle)
  BY DEF Idle, Operations, RequestOK, PCs, Fresh, Creating, Copying

\* A request that returns, or releases its device first, stays well-formed.
LEMMA ReturnStep ==
  ASSUME OpsOK, NEW p \in Procs, Return(p), op[p].pc # "idle"
  PROVE  OpsOK'
<1>1. CASE op[p].dev = None
   BY <1>1, IdleOK, OpStep DEF OpsOK, Return
<1>2. CASE op[p].dev # None
  <2> DEFINE o == [op[p] EXCEPT !.pc = "release"]
  <2>1. o \in Operations /\ RequestOK(o)
    BY <1>2 DEF OpsOK, RequestOK, Operations, PCs, Fresh, Creating, Copying
  <2>2. QED
    BY <2>1, <1>2, OpStep, Zenon DEF Return
<1>3. QED BY <1>1, <1>2

\* The steps that a request can go on to with what it has.
Onward(o, pc) ==
  \/ pc \in {"undo", "remove", "delvol"}
  \/ pc \in {"record"} \cup Creating /\ (Fresh(o) \/ o.pc \in Creating)
  \/ pc \in {"detached", "setpaths"} /\ o.pc \in Copying
  \/ pc = "addpath" /\ o.pc = "mount"

\* A request that goes on to such a step stays well-formed, with or without its parent.
LEMMA GotoStep ==
  ASSUME OpsOK, NEW p \in Procs, op[p].id \in Ids, NEW pc, Onward(op[p], pc),
         \/ Goto(p, pc)
         \/ op' = [op EXCEPT ![p].pc = pc, ![p].parent = None]
  PROVE  OpsOK'
<1> DEFINE o == [op[p] EXCEPT !.pc = pc]
           c == [op[p] EXCEPT !.pc = pc, !.parent = None]
<1>0. op[p] \in Operations /\ RequestOK(op[p])
      BY Zenon DEF OpsOK
<1>1. pc \in PCs
      BY Zenon DEF Onward, PCs, Creating
<1>2. o \in Operations /\ c \in Operations
      BY <1>0, <1>1, ZenonT(60) DEF Operations
<1>3. RequestOK(o)
      BY <1>0 DEF Onward, RequestOK, Operations, Fresh, Creating, Copying
<1>4. RequestOK(c)
      BY <1>0 DEF Onward, RequestOK, Operations, Fresh, Creating, Copying
<1>5. op' = [op EXCEPT ![p] = o] \/ op' = [op EXCEPT ![p] = c]
      BY <1>0, Zenon DEF Goto, OpsOK, Operations
<1>6. QED
      BY <1>2, <1>3, <1>4, <1>5, OpStep, Zenon

\* So does one that binds a loop device and goes on with it.
LEMMA BindStep ==
  ASSUME OpsOK, NEW p \in Procs, op[p].id \in Ids, NEW dev \in Devs, NEW pc, Bind(p, dev, pc),
         \/ pc = "release"
         \/ pc = "publish" /\ op[p].pc = "format"
         \/ pc = "attached" /\ op[p].pc = "attach"
  PROVE  OpsOK'
<1> DEFINE o == [op[p] EXCEPT !.pc = pc, !.dev = dev]
<1>0. op[p] \in Operations /\ RequestOK(op[p])
      BY Zenon DEF OpsOK
<1>2. o \in Operations
      BY <1>0, ZenonT(60) DEF Operations, PCs
<1>3. RequestOK(o)
      BY <1>0 DEF RequestOK, Operations, Fresh, Creating, Copying
<1>5. op' = [op EXCEPT ![p] = o]
      BY <1>0, Zenon DEF Bind, OpsOK, Operations
<1>6. QED
      BY <1>2, <1>3, <1>5, OpStep, Zenon

\* So does Unmount once it has the paths that are left in its copy of the record.
LEMMA PathsStep ==
  ASSUME OpsOK, NEW p \in Procs, op[p].id \in Ids, op[p].pc = "unmount", NEW left \in SUBSET Paths,
         op' = [op EXCEPT ![p].pc = "setpaths", ![p].v.paths = left]
  PROVE  OpsOK'
<1> DEFINE v == [op[p].v EXCEPT !.paths = left]
           o == [op[p] EXCEPT !.pc = "setpaths", !.v = v]
<1>0. op[p] \in Operations /\ RequestOK(op[p]) /\ RecordOK(op[p].v)
      BY Zenon DEF OpsOK, RequestOK, Copying
<1>1. RecordOK(v) /\ v \in Records
      BY <1>0, Zenon DEF RecordOK, Records
<1>2. o \in Operations
      BY <1>0, <1>1, ZenonT(60) DEF Operations, PCs
<1>3. RequestOK(o)
      BY <1>0, <1>1, Zenon DEF RequestOK, Operations, Fresh, Creating, Copying
<1>5. op' = [op EXCEPT ![p] = o]
      BY <1>0, Zenon DEF OpsOK, Operations
<1>6. QED
      BY <1>2, <1>3, <1>5, OpStep, Zenon

\* UpdateVol with a well-formed record, or none, keeps the records well-formed.
LEMMA RecordStep ==
  ASSUME RecordsOK, NEW id \in Ids, NEW v, RecordOK(v) \/ v = None, UpdateVol(id, v)
  PROVE  RecordsOK'
  BY DEF RecordsOK, UpdateVol, RecordOK, Present

\* The parts of the next state make up its TypeOK.
LEMMA Whole == OpsOK' /\ RecordsOK' /\ KernelOK' => TypeOK'
  BY DEF TypeOK, OpsOK, RecordsOK, KernelOK

\* Records that no step writes stay well-formed.
LEMMA SameRecords == RecordsOK /\ UNCHANGED vols => RecordsOK'
  BY DEF RecordsOK, Present

\* CreateCall preserves TypeOK.
LEMMA TypeCreateCall ==
  ASSUME TypeOK, NEW p \in Procs, NEW n \in Names, NEW kind \in Kinds, NEW id \in Ids,
         CreateCall(p, n, kind, id)
  PROVE  TypeOK'
<1> DEFINE o == [Idle EXCEPT !.pc = IF kind = "shared" THEN "mkdir" ELSE "record",
                            !.id = id, !.name = n, !.kind = kind]
<1>1. o \in Operations /\ RequestOK(o)
      BY NfsAssumption, ZenonT(60) DEF Copy, Idle, Operations, PCs, RequestOK, Fresh, Creating,
         Copying
<1>2. op' = [op EXCEPT ![p] = o] /\ unclean' \in SUBSET Ids
      BY DEF CreateCall, Begin, TypeOK, Copy, Idle
<1>3. OpsOK' /\ RecordsOK'
      BY <1>1, <1>2, Parts, OpStep, SameRecords, Zenon DEF CreateCall
<1>4. KernelOK'
      BY <1>2, Parts DEF CreateCall, KernelOK, kernel, Draw
<1>5. QED
      BY <1>3, <1>4, Whole

\* CloneCall preserves TypeOK.
LEMMA TypeCloneCall ==
  ASSUME TypeOK, NEW p \in Procs, NEW n \in Names, NEW parent \in Ids, NEW id \in Ids, CloneCall(p,
         n, parent, id)
  PROVE  TypeOK'
<1> DEFINE o == [Idle EXCEPT !.pc = "snap", !.id = id, !.name = n, !.parent = parent]
<1>1. o \in Operations /\ RequestOK(o)
      BY NfsAssumption, Zenon DEF Copy, Idle, Operations, PCs, RequestOK, Fresh, Creating,
         Copying
<1>2. op' = [op EXCEPT ![p] = o] /\ unclean' \in SUBSET Ids
      BY DEF CloneCall, Begin, TypeOK, Copy, Idle
<1>3. OpsOK' /\ RecordsOK'
      BY <1>1, <1>2, Parts, OpStep, SameRecords, Zenon DEF CloneCall
<1>4. KernelOK'
      BY <1>2, Parts DEF CloneCall, KernelOK, kernel, Draw
<1>5. QED
      BY <1>3, <1>4, Whole

\* SnapshotCall preserves TypeOK.
LEMMA TypeSnapshotCall ==
  ASSUME TypeOK, NEW p \in Procs, NEW n \in Names, NEW parent \in Ids, NEW id \in Ids,
         SnapshotCall(p, n, parent, id)
  PROVE  TypeOK'
<1> DEFINE o == [Idle EXCEPT !.pc = "snap", !.id = id, !.name = n, !.parent = parent]
<1>1. o \in Operations /\ RequestOK(o)
      BY NfsAssumption, Zenon DEF Copy, Idle, Operations, PCs, RequestOK, Fresh, Creating,
         Copying
<1>2. op' = [op EXCEPT ![p] = o] /\ unclean' \in SUBSET Ids
      BY DEF SnapshotCall, Begin, TypeOK, Copy, Idle
<1>3. OpsOK' /\ RecordsOK'
      BY <1>1, <1>2, Parts, OpStep, SameRecords, Zenon DEF SnapshotCall
<1>4. KernelOK'
      BY <1>2, Parts DEF SnapshotCall, KernelOK, kernel, Draw
<1>5. QED
      BY <1>3, <1>4, Whole

\* DeleteCall preserves TypeOK.
LEMMA TypeDeleteCall ==
  ASSUME TypeOK, NEW p \in Procs, NEW id \in Ids, DeleteCall(p, id)
  PROVE  TypeOK'
<1> DEFINE o == [Idle EXCEPT !.pc = "remove", !.id = id, !.kind = vols[id].kind]
<1>0. vols[id] \in Records /\ RecordOK(vols[id]) /\ vols[id].kind \in {"shared", "block", "raw"}
      BY DEF DeleteCall, TypeOK, Present, RecordOK, Records
<1>1. o \in Operations /\ RequestOK(o)
      BY <1>0, NfsAssumption, Zenon DEF Copy, Idle, Operations, PCs, RequestOK, Fresh,
         Creating, Copying
<1>2. op' = [op EXCEPT ![p] = o] /\ unclean' \in SUBSET Ids
      BY DEF DeleteCall, Begin, TypeOK, Copy, Idle
<1>3. OpsOK' /\ RecordsOK'
      BY <1>1, <1>2, Parts, OpStep, SameRecords, Zenon DEF DeleteCall
<1>4. KernelOK'
      BY <1>2, Parts DEF DeleteCall, KernelOK, kernel
<1>5. QED
      BY <1>3, <1>4, Whole

\* RestoreCall preserves TypeOK.
LEMMA TypeRestoreCall ==
  ASSUME TypeOK, NEW p \in Procs, NEW id \in Ids, NEW snap \in Ids, RestoreCall(p, id, snap)
  PROVE  TypeOK'
<1> DEFINE o == [Idle EXCEPT !.pc = "restore", !.id = id, !.parent = snap]
<1>1. o \in Operations /\ RequestOK(o)
      BY NfsAssumption, Zenon DEF Copy, Idle, Operations, PCs, RequestOK, Fresh, Creating,
         Copying
<1>2. op' = [op EXCEPT ![p] = o] /\ unclean' \in SUBSET Ids
      BY DEF RestoreCall, Begin, TypeOK, Copy, Idle
<1>3. OpsOK' /\ RecordsOK'
      BY <1>1, <1>2, Parts, OpStep, SameRecords, Zenon DEF RestoreCall
<1>4. KernelOK'
      BY <1>2, Parts, SMTT(60) DEF RestoreCall, KernelOK, kernel
<1>5. QED
      BY <1>3, <1>4, Whole

\* AttachCall preserves TypeOK.
LEMMA TypeAttachCall ==
  ASSUME TypeOK, NEW p \in Procs, NEW id \in Ids, AttachCall(p, id)
  PROVE  TypeOK'
<1> DEFINE o == Copy("attach", id)
<1>0. vols[id] \in Records /\ RecordOK(vols[id]) /\ vols[id].kind \in {"shared", "block", "raw"}
      BY DEF AttachCall, TypeOK, Present, RecordOK, Records
<1>1. o \in Operations /\ RequestOK(o)
      BY <1>0, NfsAssumption, ZenonT(60) DEF Copy, Idle, Operations, PCs, RequestOK, Fresh,
         Creating, Copying
<1>2. op' = [op EXCEPT ![p] = o] /\ unclean' \in SUBSET Ids
      BY DEF AttachCall, Begin, TypeOK, Copy, Idle
<1>3. OpsOK' /\ RecordsOK'
      BY <1>1, <1>2, Parts, OpStep, SameRecords, Zenon DEF AttachCall
<1>4. KernelOK'
      BY <1>2, Parts, SMTT(60) DEF AttachCall, KernelOK, kernel
<1>5. QED
      BY <1>3, <1>4, Whole

\* DetachCall preserves TypeOK.
LEMMA TypeDetachCall ==
  ASSUME TypeOK, NEW p \in Procs, NEW id \in Ids, DetachCall(p, id)
  PROVE  TypeOK'
<1> DEFINE o == Copy("detach", id)
<1>0. vols[id] \in Records /\ RecordOK(vols[id]) /\ vols[id].kind \in {"shared", "block", "raw"}
      BY SMTT(60) DEF DetachCall, TypeOK, Present, RecordOK, Records
<1>a. vols[id].state = "ATTACHED"
      BY DEF DetachCall
<1>1. o \in Operations /\ RequestOK(o)
      BY <1>0, <1>a, NfsAssumption, ZenonT(60) DEF Copy, Idle, Operations, PCs, RequestOK, Fresh,
         Creating,
         Copying
<1>2. op' = [op EXCEPT ![p] = o] /\ unclean' \in SUBSET Ids
      BY DEF DetachCall, Begin, TypeOK, Copy, Idle
<1>3. OpsOK' /\ RecordsOK'
      BY <1>1, <1>2, Parts, OpStep, SameRecords, Zenon DEF DetachCall
<1>4. KernelOK'
      BY <1>2, Parts DEF DetachCall, KernelOK, kernel
<1>5. QED
      BY <1>3, <1>4, Whole

\* MountCall preserves TypeOK.
LEMMA TypeMountCall ==
  ASSUME TypeOK, NEW p \in Procs, NEW id \in Ids, NEW path \in Paths, MountCall(p, id, path)
  PROVE  TypeOK'
<1> DEFINE o == [Copy("mount", id) EXCEPT !.path = path]
<1>0. vols[id] \in Records /\ RecordOK(vols[id]) /\ vols[id].kind \in {"shared", "block", "raw"}
      BY DEF MountCall, TypeOK, Present, RecordOK, Records
<1>a. vols[id].kind # "shared" => vols[id].state = "ATTACHED"
      BY DEF MountCall
<1>1. o \in Operations /\ RequestOK(o)
      BY <1>0, <1>a, NfsAssumption, ZenonT(60) DEF Copy, Idle, Operations, PCs, RequestOK, Fresh,
         Creating,
         Copying
<1>2. op' = [op EXCEPT ![p] = o] /\ unclean' \in SUBSET Ids
      BY DEF MountCall, Begin, TypeOK, Copy, Idle
<1>3. OpsOK' /\ RecordsOK'
      BY <1>1, <1>2, Parts, OpStep, SameRecords, Zenon DEF MountCall
<1>4. KernelOK'
      BY <1>2, Parts, SMTT(60) DEF MountCall, KernelOK, kernel
<1>5. QED
      BY <1>3, <1>4, Whole, SMTT(60)

\* UnmountCall preserves TypeOK.
LEMMA TypeUnmountCall ==
  ASSUME TypeOK, NEW p \in Procs, NEW id \in Ids, NEW path \in Paths, UnmountCall(p, id, path)
  PROVE  TypeOK'
<1> DEFINE o == [Copy("unmount", id) EXCEPT !.path = path]
<1>0. vols[id] \in Records /\ RecordOK(vols[id]) /\ vols[id].kind \in {"shared", "block", "raw"}
      BY DEF UnmountCall, TypeOK, Present, RecordOK, Records
<1>1. o \in Operations /\ RequestOK(o)
      BY <1>0, NfsAssumption, ZenonT(60) DEF Copy, Idle, Operations, PCs, RequestOK, Fresh,
         Creating, Copying
<1>2. op' = [op EXCEPT ![p] = o] /\ unclean' \in SUBSET Ids
      BY DEF UnmountCall, Begin, TypeOK, Copy, Idle
<1>3. OpsOK' /\ RecordsOK'
      BY <1>1, <1>2, Parts, OpStep, SameRecords, Zenon DEF UnmountCall
<1>4. KernelOK'
      BY <1>2, Parts DEF UnmountCall, KernelOK, kernel
<1>5. QED
      BY <1>3, <1>4, Whole

\* Snapshot preserves TypeOK.
LEMMA TypeSnapshot ==
  ASSUME TypeOK, NEW p \in Procs, Snapshot(p)
  PROVE  TypeOK'
<1>1. op[p] \in Operations /\ RequestOK(op[p]) /\ op[p].id \in Ids /\ op[p].pc # "idle"
      BY DEF TypeOK, Snapshot, RequestOK
<1>a. vols[op[p].parent].kind \in {"shared", "block", "raw"}
      BY <1>1, ZenonT(60) DEF Snapshot, TypeOK, Present, Records, Operations, RequestOK
<1> DEFINE o == [op[p] EXCEPT !.kind = vols[op[p].parent].kind,
                               !.pc = IF vols[op[p].parent].kind = "shared" THEN "mkdir" ELSE "record"]
<1>b. o \in Operations /\ RequestOK(o)
  <2>1. op[p].pc = "snap" /\ op[p].name \in Names
        BY <1>1, Zenon DEF Snapshot, RequestOK, Fresh
  <2>2. o.id = op[p].id /\ o.name = op[p].name /\ o.pc \in {"mkdir", "record"}
        BY <1>1, <1>a, ZenonT(60) DEF Operations
  <2>4. o \in Operations
        BY <1>1, <1>a, ZenonT(60) DEF Operations, PCs
  <2>3. QED
        BY <1>1, <2>1, <2>2, <2>4, ZenonT(60) DEF RequestOK, Creating, Copying
<1>c. op' = [op EXCEPT ![p] = o]
      BY <1>1, Parts DEF Snapshot, OpsOK, Operations
<1>2. OpsOK'
      BY <1>b, <1>c, Parts, OpStep, Zenon
<1>3. RecordsOK'
      BY Parts, SameRecords DEF Snapshot
<1>4. KernelOK'
      BY <1>1, Parts DEF Snapshot, KernelOK, kernel, history
<1>5. QED
      BY <1>2, <1>3, <1>4, Whole, SMTT(60)

\* Mkdir preserves TypeOK.
LEMMA TypeMkdir ==
  ASSUME TypeOK, NEW p \in Procs, Mkdir(p)
  PROVE  TypeOK'
<1>1. op[p] \in Operations /\ RequestOK(op[p]) /\ op[p].id \in Ids /\ op[p].pc # "idle"
      BY DEF TypeOK, Mkdir, RequestOK
<1>2. OpsOK'
      BY <1>1, Parts, ReturnStep, GotoStep, Zenon DEF Mkdir, Onward, Fresh
<1>3. RecordsOK'
      BY Parts, SameRecords, SMTT(60) DEF Mkdir
<1>4. KernelOK'
      BY <1>1, Parts, SMTT(60) DEF Mkdir, KernelOK, kernel, history
<1>5. QED
      BY <1>2, <1>3, <1>4, Whole

\* CreateVol preserves TypeOK.
LEMMA TypeCreateVol ==
  ASSUME TypeOK, NEW p \in Procs, CreateVol(p)
  PROVE  TypeOK'
<1>1. op[p] \in Operations /\ RequestOK(op[p]) /\ op[p].id \in Ids /\ op[p].pc # "idle"
      BY ZenonT(60)  DEF TypeOK, CreateVol, RequestOK
<1>2. OpsOK'
      BY <1>1, Parts, ReturnStep, GotoStep, Zenon DEF CreateVol, AfterRecord, Onward, Fresh, Creating
<1>a. RecordOK(NewVolume(op[p], "PENDING"))
      BY <1>1, Zenon DEF CreateVol, RequestOK, RecordOK, Records, States, Operations, Fresh, Creating,
         Copying, NewVolume
<1>3. RecordsOK'
      BY <1>1, <1>a, Parts, RecordStep, SameRecords, SMTT(60) DEF CreateVol, SaveCopy
<1>4. KernelOK'
      BY <1>1, Parts, SMTT(60) DEF CreateVol, KernelOK, kernel, history
<1>5. QED
      BY <1>2, <1>3, <1>4, Whole

\* Clone preserves TypeOK.
LEMMA TypeClone ==
  ASSUME TypeOK, NEW p \in Procs, Clone(p)
  PROVE  TypeOK'
<1>1. op[p] \in Operations /\ RequestOK(op[p]) /\ op[p].id \in Ids /\ op[p].pc # "idle"
      BY ZenonT(60)  DEF TypeOK, Clone, RequestOK
<1>2. OpsOK'
      BY <1>1, Parts, GotoStep, Zenon DEF Clone, CloneFails, Onward, Creating
<1>3. RecordsOK'
      BY Parts, SameRecords DEF Clone
<1>4. KernelOK'
      BY <1>1, Parts, Zenon DEF Clone, KernelOK, kernel, history
<1>5. QED
      BY <1>2, <1>3, <1>4, Whole

\* BlockFile preserves TypeOK.
LEMMA TypeBlockFile ==
  ASSUME TypeOK, NEW p \in Procs, BlockFile(p)
  PROVE  TypeOK'
<1>1. op[p] \in Operations /\ RequestOK(op[p]) /\ op[p].id \in Ids /\ op[p].pc # "idle"
      BY ZenonT(60)  DEF TypeOK, BlockFile, RequestOK
<1>2. OpsOK'
      BY <1>1, Parts, ReturnStep, GotoStep, Zenon DEF BlockFile, Abandon, Onward, Creating
<1>3. RecordsOK'
      BY Parts, SameRecords DEF BlockFile
<1>4. KernelOK'
      BY <1>1, Parts, Zenon DEF BlockFile, KernelOK, kernel, history, Abandon
<1>5. QED
      BY <1>2, <1>3, <1>4, Whole

\* Format preserves TypeOK.
LEMMA TypeFormat ==
  ASSUME TypeOK, NEW p \in Procs, Format(p)
  PROVE  TypeOK'
<1>1. op[p] \in Operations /\ RequestOK(op[p]) /\ op[p].id \in Ids /\ op[p].pc # "idle"
      BY ZenonT(60)  DEF TypeOK, Format, RequestOK
<1>2. OpsOK'
      BY <1>1, Parts, ReturnStep, BindStep, Zenon DEF Format, Abandon
<1>3. RecordsOK'
      BY Parts, SameRecords DEF Format
<1>4. KernelOK'
      BY <1>1, Parts, Zenon DEF Format, KernelOK, kernel, history, Abandon, Bind
<1>5. QED
      BY <1>2, <1>3, <1>4, Whole

\* Publish preserves TypeOK.
LEMMA TypePublish ==
  ASSUME TypeOK, NEW p \in Procs, Publish(p)
  PROVE  TypeOK'
<1>1. op[p] \in Operations /\ RequestOK(op[p]) /\ op[p].id \in Ids /\ op[p].pc # "idle"
      BY ZenonT(60)  DEF TypeOK, Publish, RequestOK
<1>2. OpsOK'
      BY <1>1, Parts, ReturnStep, GotoStep, Zenon DEF Publish, Onward
<1>a. RecordOK(NewVolume(op[p], "AVAILABLE"))
      BY <1>1, Zenon DEF Publish, RequestOK, RecordOK, Records, States, Operations, Fresh, Creating,
         Copying, NewVolume
<1>3. RecordsOK'
      BY <1>1, <1>a, Parts, RecordStep, SameRecords DEF Publish, SaveCopy
<1>4. KernelOK'
      BY <1>1, Parts, ZenonT(60) DEF Publish, KernelOK, kernel, history
<1>5. QED
      BY <1>2, <1>3, <1>4, Whole

\* Release preserves TypeOK.
LEMMA TypeRelease ==
  ASSUME TypeOK, NEW p \in Procs, Release(p)
  PROVE  TypeOK'
<1>1. op[p] \in Operations /\ RequestOK(op[p]) /\ op[p].id \in Ids /\ op[p].pc # "idle"
      BY Zenon DEF TypeOK, Release, RequestOK
<1>2. OpsOK'
      BY <1>1, Parts, ReturnStep, OpStep, IdleOK, Zenon DEF Release, Abandon, SaveCopy
<1>3. RecordsOK'
      BY Parts, SameRecords, SMTT(60) DEF Release
<1>4. KernelOK'
      BY <1>1, Parts, ZenonT(60) DEF Release, KernelOK, kernel, history, ClearFd, RequestOK
<1>5. QED
      BY <1>2, <1>3, <1>4, Whole

\* Undo preserves TypeOK.
LEMMA TypeUndo ==
  ASSUME TypeOK, NEW p \in Procs, Undo(p)
  PROVE  TypeOK'
<1>1. op[p] \in Operations /\ RequestOK(op[p]) /\ op[p].id \in Ids /\ op[p].pc # "idle"
      BY Zenon  DEF TypeOK, Undo, RequestOK
<1>2. OpsOK'
      BY <1>1, Parts, ReturnStep, GotoStep, Zenon DEF Undo, Abandon, Onward
<1>3. RecordsOK'
      BY Parts, SameRecords, SMTT(60) DEF Undo
<1>4. KernelOK'
      BY <1>1, Parts, SMTT(60) DEF Undo, KernelOK, kernel, history, Abandon
<1>5. QED
      BY <1>2, <1>3, <1>4, Whole

\* Remove preserves TypeOK.
LEMMA TypeRemove ==
  ASSUME TypeOK, NEW p \in Procs, Remove(p)
  PROVE  TypeOK'
<1>1. op[p] \in Operations /\ RequestOK(op[p]) /\ op[p].id \in Ids /\ op[p].pc # "idle"
      BY ZenonT(60)  DEF TypeOK, Remove, RequestOK
<1>2. OpsOK'
      BY <1>1, Parts, ReturnStep, GotoStep, Zenon DEF Remove, DeleteFails, Abandon, Onward
<1>3. RecordsOK'
      BY Parts, SameRecords DEF Remove
<1>4. KernelOK'
      BY <1>1, Parts, Zenon DEF Remove, KernelOK, kernel, history, Abandon, DeleteFails
<1>5. QED
      BY <1>2, <1>3, <1>4, Whole

\* DeleteVol preserves TypeOK.
LEMMA TypeDeleteVol ==
  ASSUME TypeOK, NEW p \in Procs, DeleteVol(p)
  PROVE  TypeOK'
<1>1. op[p] \in Operations /\ RequestOK(op[p]) /\ op[p].id \in Ids /\ op[p].pc # "idle"
      BY ZenonT(60)  DEF TypeOK, DeleteVol, RequestOK
<1>2. OpsOK'
      BY <1>1, Parts, ReturnStep, GotoStep, Zenon DEF DeleteVol, Deletion, DeleteFails, Abandon, Onward
<1>3. RecordsOK'
      BY <1>1, Parts, RecordStep, SameRecords DEF DeleteVol, Deleted
<1>4. KernelOK'
      BY <1>1, Parts, ZenonT(60) DEF DeleteVol, KernelOK, kernel, history, Abandon, DeleteFails
<1>5. QED
      BY <1>2, <1>3, <1>4, Whole

\* Restore preserves TypeOK.
LEMMA TypeRestore ==
  ASSUME TypeOK, NEW p \in Procs, Restore(p)
  PROVE  TypeOK'
<1>1. op[p] \in Operations /\ RequestOK(op[p]) /\ op[p].id \in Ids /\ op[p].pc # "idle"
      BY Zenon DEF TypeOK, Restore, RequestOK
<1>2. OpsOK'
      BY <1>1, Parts, ReturnStep, OpStep, IdleOK, Zenon DEF Restore, Abandon, SaveCopy
<1>3. RecordsOK'
      BY Parts, SameRecords, SMTT(60) DEF Restore
<1>4. KernelOK'
      BY <1>1, Parts, SMTT(60) DEF Restore, KernelOK, kernel, history
<1>5. QED
      BY <1>2, <1>3, <1>4, Whole

\* Attach preserves TypeOK.
LEMMA TypeAttach ==
  ASSUME TypeOK, NEW p \in Procs, Attach(p)
  PROVE  TypeOK'
<1>1. op[p] \in Operations /\ RequestOK(op[p]) /\ op[p].id \in Ids /\ op[p].pc # "idle"
      BY Zenon  DEF TypeOK, Attach, RequestOK
<1>2. OpsOK'
      BY <1>1, Parts, ReturnStep, BindStep, Zenon DEF Attach
<1>3. RecordsOK'
      BY Parts, SameRecords, SMTT(60) DEF Attach
<1>4. KernelOK'
      BY <1>1, Parts, SMTT(60) DEF Attach, KernelOK, kernel, history, Bind
<1>5. QED
      BY <1>2, <1>3, <1>4, Whole

\* AttachSave preserves TypeOK.
LEMMA TypeAttachSave ==
  ASSUME TypeOK, NEW p \in Procs, AttachSave(p)
  PROVE  TypeOK'
<1>1. op[p] \in Operations /\ RequestOK(op[p]) /\ op[p].id \in Ids /\ op[p].pc # "idle"
      BY DEF TypeOK, AttachSave, RequestOK
<1>2. OpsOK'
      BY <1>1, Parts, ReturnStep, OpStep, IdleOK, SMTT(60) DEF AttachSave, Abandon, SaveCopy, AttachFails
<1>a. RecordOK([op[p].v EXCEPT !.dev = op[p].dev, !.state = "ATTACHED"])
      BY <1>1, Zenon DEF AttachSave, RequestOK, RecordOK, Records, States, Operations, Fresh,
         Creating,
         Copying
<1>3. RecordsOK'
      BY <1>1, <1>a, Parts, RecordStep, SameRecords, SMTT(60) DEF AttachSave, SaveCopy
<1>4. KernelOK'
      BY <1>1, Parts, SMTT(60) DEF AttachSave, KernelOK, kernel, history
<1>5. QED
      BY <1>2, <1>3, <1>4, Whole

\* Detach preserves TypeOK.
LEMMA TypeDetach ==
  ASSUME TypeOK, NEW p \in Procs, Detach(p)
  PROVE  TypeOK'
<1>1. op[p] \in Operations /\ RequestOK(op[p]) /\ op[p].id \in Ids /\ op[p].pc # "idle"
      BY Zenon  DEF TypeOK, Detach, RequestOK
<1>2. OpsOK'
      BY <1>1, Parts, ReturnStep, GotoStep, Zenon DEF Detach, Onward, Copying
<1>3. RecordsOK'
      BY Parts, SameRecords, SMTT(60) DEF Detach
<1>4. KernelOK'
      BY <1>1, Parts, SMTT(60) DEF Detach, KernelOK, kernel, history, ClearFd, RequestOK, RecordOK,
         Copying
<1>5. QED
      BY <1>2, <1>3, <1>4, Whole

\* DetachSave preserves TypeOK.
LEMMA TypeDetachSave ==
  ASSUME TypeOK, NEW p \in Procs, DetachSave(p)
  PROVE  TypeOK'
<1>1. op[p] \in Operations /\ RequestOK(op[p]) /\ op[p].id \in Ids /\ op[p].pc # "idle"
      BY DEF TypeOK, DetachSave, RequestOK
<1>2. OpsOK'
      BY <1>1, Parts, ReturnStep, OpStep, IdleOK DEF DetachSave, Abandon, SaveCopy
<1>a. RecordOK([op[p].v EXCEPT !.dev = None, !.state = "AVAILABLE"])
      BY <1>1, Zenon DEF DetachSave, RequestOK, RecordOK, Records, States, Operations, Fresh,
         Creating,
         Copying
<1>3. RecordsOK'
      BY <1>1, <1>a, Parts, RecordStep, SameRecords DEF DetachSave, SaveCopy
<1>4. KernelOK'
      BY <1>1, Parts, SMTT(60) DEF DetachSave, KernelOK, kernel, history, SaveCopy, Abandon
<1>5. QED
      BY <1>2, <1>3, <1>4, Whole

\* Mount preserves TypeOK.
LEMMA TypeMount ==
  ASSUME TypeOK, NEW p \in Procs, Mount(p)
  PROVE  TypeOK'
<1>1. op[p] \in Operations /\ RequestOK(op[p]) /\ op[p].id \in Ids /\ op[p].pc # "idle"
      BY Zenon  DEF TypeOK, Mount, RequestOK
<1>2. OpsOK'
      BY <1>1, Parts, ReturnStep, GotoStep, Zenon DEF Mount, MountShared, MountBlock, Onward
<1>3. RecordsOK'
      BY Parts, SameRecords, Zenon DEF Mount
<1>4. KernelOK'
  <2>0. op[p].pc = "mount" /\ op[p].path \in Paths
        BY <1>1, Zenon DEF Mount, RequestOK
  <2>1. CASE op[p].kind = "shared"
    <3>1. MountShared(p)
          BY <2>1, Zenon DEF Mount
    <3>2. Mounts(op[p].id) \in SUBSET Paths
          BY <1>1, Parts, Zenon DEF KernelOK, Mounts
    <3>3. table' \in [Ids -> (SUBSET Paths) \cup {None}]
          BY <1>1, <2>0, <3>1, <3>2, Parts, SMTT(60) DEF MountShared, KernelOK
    <3>4. mounted' \in SUBSET ((Devs \cup {Dir}) \X Ids \X Paths)
          BY <1>1, <2>0, <3>1, Parts DEF MountShared, KernelOK
    <3>5. QED
          BY <3>3, <3>4, Parts, Zenon DEF Mount, KernelOK, history
  <2>2. CASE op[p].kind # "shared"
    <3>1. MountBlock(p) /\ op[p].v.dev \in Devs
          BY <1>1, <2>0, <2>2, Zenon DEF Mount, RequestOK, RecordOK, Copying
    <3>2. mounted' \in SUBSET ((Devs \cup {Dir}) \X Ids \X Paths) /\ table' = table
          BY <1>1, <2>0, <3>1, Parts, SMTT(60) DEF MountBlock, KernelOK
    <3>3. QED
          BY <3>2, Parts, Zenon DEF Mount, KernelOK, history
  <2>3. QED
        BY <2>1, <2>2
<1>5. QED
      BY <1>2, <1>3, <1>4, Whole

\* MountSave preserves TypeOK.
LEMMA TypeMountSave ==
  ASSUME TypeOK, NEW p \in Procs, MountSave(p)
  PROVE  TypeOK'
<1>1. op[p] \in Operations /\ RequestOK(op[p]) /\ op[p].id \in Ids /\ op[p].pc # "idle"
      BY DEF TypeOK, MountSave, RequestOK
<1>2. OpsOK'
      BY <1>1, Parts, ReturnStep, OpStep, IdleOK, SMTT(60) DEF MountSave, Abandon, SaveCopy
<1>a. RecordOK([op[p].v EXCEPT !.paths = @ \cup {op[p].path}])
      BY <1>1 DEF MountSave, RequestOK, RecordOK, Records, States, Operations, Fresh, Creating,
         Copying
<1>3. RecordsOK'
      BY <1>1, <1>a, Parts, RecordStep, SameRecords DEF MountSave, SaveCopy
<1>4. KernelOK'
      BY <1>1, Parts, ZenonT(60) DEF MountSave, KernelOK, kernel, history, SaveCopy, Abandon
<1>5. QED
      BY <1>2, <1>3, <1>4, Whole

\* Unmount preserves TypeOK.
LEMMA TypeUnmount ==
  ASSUME TypeOK, NEW p \in Procs, Unmount(p)
  PROVE  TypeOK'
<1>1. op[p] \in Operations /\ RequestOK(op[p]) /\ op[p].id \in Ids /\ op[p].pc # "idle"
      BY Zenon  DEF TypeOK, Unmount, RequestOK
<1>a. table[op[p].id] # None => Mounts(op[p].id) \ {op[p].path} \in SUBSET Paths
      BY <1>1, Parts, Zenon DEF KernelOK, Mounts
<1>b. op[p].pc = "unmount"
      BY Zenon DEF Unmount
<1>2. OpsOK'
  <2>1. CASE op[p].kind = "shared"
    <3>1. UnmountShared(p)
          BY <2>1, Zenon DEF Unmount
    <3>2. QED
          BY <1>1, <1>a, <1>b, <3>1, Parts, ReturnStep, PathsStep, Zenon DEF UnmountShared
  <2>2. CASE op[p].kind # "shared"
    <3>1. UnmountBlock(p)
          BY <2>2, Zenon DEF Unmount
    <3>2. {} \in SUBSET Paths
          OBVIOUS
    <3>3. QED
          BY <1>1, <1>b, <3>1, <3>2, Parts, ReturnStep, PathsStep, Zenon DEF UnmountBlock
  <2>3. QED
        BY <2>1, <2>2
<1>3. RecordsOK'
      BY Parts, SameRecords DEF Unmount
<1>4. KernelOK'
  <2>1. CASE op[p].kind = "shared"
    <3>1. UnmountShared(p)
          BY <2>1, SMTT(60) DEF Unmount
    <3>2. Mounts(op[p].id) \in SUBSET Paths
          BY <1>1, Parts, SMTT(60) DEF KernelOK, Mounts
    <3>3. table' \in [Ids -> (SUBSET Paths) \cup {None}]
          BY <1>1, <3>1, <3>2, Parts, SMTT(60) DEF UnmountShared, KernelOK
    <3>4. mounted' \in SUBSET ((Devs \cup {Dir}) \X Ids \X Paths)
          BY <3>1, Parts DEF UnmountShared, KernelOK
    <3>5. QED
          BY <3>1, <3>3, <3>4, Parts, Zenon DEF Unmount, UnmountShared, KernelOK, history
  <2>2. CASE op[p].kind # "shared"
        BY <2>2, Parts, ZenonT(60) DEF Unmount, UnmountBlock, MountsAt, KernelOK, kernel, history
  <2>3. QED
        BY <2>1, <2>2, SMTT(60)
<1>5. QED
      BY <1>2, <1>3, <1>4, Whole

\* UnmountSave preserves TypeOK.
LEMMA TypeUnmountSave ==
  ASSUME TypeOK, NEW p \in Procs, UnmountSave(p)
  PROVE  TypeOK'
<1>1. op[p] \in Operations /\ RequestOK(op[p]) /\ op[p].id \in Ids /\ op[p].pc # "idle"
      BY Zenon DEF TypeOK, UnmountSave, RequestOK
<1>2. OpsOK'
      BY <1>1, Parts, ReturnStep, OpStep, IdleOK, Zenon DEF UnmountSave, Abandon, SaveCopy
<1>a. RecordOK(op[p].v)
      BY <1>1, Zenon DEF UnmountSave, RequestOK, RecordOK, Records, States, Operations, Fresh,
         Creating,
         Copying
<1>3. RecordsOK'
      BY <1>1, <1>a, Parts, RecordStep, SameRecords, Zenon DEF UnmountSave, SaveCopy
<1>4. KernelOK'
      BY <1>1, Parts, Zenon DEF UnmountSave, KernelOK, kernel, history, SaveCopy, Abandon
<1>5. QED
      BY <1>2, <1>3, <1>4, Whole

\* Restarts of the daemon and of the node preserve TypeOK.
LEMMA TypeRestart ==
  ASSUME TypeOK, Crash \/ Reboot
  PROVE  TypeOK'
<1>1. OpsOK'
      BY IdleOK, Zenon DEF Crash, Reboot, Restart, OpsOK
<1>2. RecordsOK'
      BY Parts, SameRecords, Zenon DEF Crash, Reboot, Restart
<1>3. KernelOK'
      BY Parts, NfsAssumption DEF Crash, Reboot, Restart, KernelOK, kernel, CutOff
<1>4. QED
      BY <1>1, <1>2, <1>3, Whole, SMTT(60)

\* A step of a request, and of a goroutine.
Progress(p) == CreateStep(p) \/ DeleteStep(p) \/ NodeStep(p)
Step(p) == NewRequest(p) \/ Request(p) \/ Progress(p)

\* A step is one of a goroutine, a restart or a stutter; a panic of Snapshot is a restart.
LEMMA NextSteps ==
  [Next]_vars => (\E p \in Procs : Step(p)) \/ Crash \/ Reboot \/ UNCHANGED vars
  BY DEF Next, Step, Progress, SnapshotPanics

\* Every step of a goroutine preserves TypeOK.
LEMMA TypeStep ==
  ASSUME TypeOK, NEW p \in Procs, Step(p)
  PROVE  TypeOK'
<1>1. CASE NewRequest(p)
      BY <1>1, TypeCreateCall, TypeCloneCall, TypeSnapshotCall, Zenon DEF NewRequest
<1>2. CASE Request(p)
      BY <1>2, TypeDeleteCall, TypeRestoreCall, TypeAttachCall, TypeDetachCall, TypeMountCall,
         TypeUnmountCall, Zenon
      DEF Request
<1>3. CASE CreateStep(p)
      BY <1>3, TypeSnapshot, TypeMkdir, TypeCreateVol, TypeClone,
         TypeBlockFile, TypeFormat, TypePublish, TypeRelease, SMTT(60) DEF CreateStep
<1>4. CASE DeleteStep(p)
      BY <1>4, TypeUndo, TypeRemove, TypeDeleteVol, TypeRestore DEF DeleteStep
<1>5. CASE NodeStep(p)
      BY <1>5, TypeAttach, TypeAttachSave, TypeDetach, TypeDetachSave,
         TypeMount, TypeMountSave, TypeUnmount, TypeUnmountSave, Zenon DEF NodeStep
<1>6. QED
      BY <1>1, <1>2, <1>3, <1>4, <1>5, Zenon DEF Step, Progress

\* TypeOK holds before the first request.
LEMMA TypeInit == Init => TypeOK
  BY IdleOK, NfsAssumption, SMTT(60) DEF Init, TypeOK, Present

\* Stuttering preserves TypeOK.
LEMMA TypeStutters == TypeOK /\ UNCHANGED vars => TypeOK'
  BY Zenon DEF vars, kernel, history, TypeOK, Present

\* TypeOK is an invariant: every request of the SDK server and every record the driver
\* writes has what the later steps of the driver work with.
THEOREM TypeCorrect == Spec => []TypeOK
<1>1. TypeOK /\ [Next]_vars => TypeOK'
  <2> SUFFICES ASSUME TypeOK, [Next]_vars PROVE TypeOK'
      BY SMTT(60)
  <2> QED
      BY NextSteps, TypeStep, TypeRestart, TypeStutters
<1>2. QED
      BY <1>1, TypeInit, PTL DEF Spec

-----------------------------------------------------------------------------
(* What the steps do to requests and records, whatever else they do.       *)

\* Create, Clone and SnapshotCreate begin a request on a uuid never drawn before, knowing
\* what the lookup of the name has found.
LEMMA BeginsNew ==
  ASSUME TypeOK, NEW p \in Procs, NewRequest(p)
  PROVE  /\ op[p].pc = "idle" /\ Begin(p, op'[p])
         /\ Fresh(op'[p]) /\ op'[p].dev = None /\ op'[p].v = None
         /\ op'[p].id \in Ids \ used /\ op'[p].name \in Names
         /\ op'[p].pc = "record" => op'[p].kind # "shared" /\ op'[p].parent = None
         /\ op'[p].pc = "mkdir" => op'[p].kind = "shared"
         /\ UNCHANGED <<vols, files, kernel, table, crashes, removed>>
         /\ \E found \in VolumeFromName(op'[p].name) \cup {"failed"} :
              Lookup(found) /\ Draw(op'[p].name, op'[p].id, found)
<1>0. op \in [Procs -> Operations]
      BY Zenon DEF TypeOK
<1>1. PICK n \in Names, id \in Ids \ used :
        \/ \E kind \in Kinds : CreateCall(p, n, kind, id)
        \/ \E parent \in Ids : CloneCall(p, n, parent, id) \/ SnapshotCall(p, n, parent, id)
      BY ZenonT(60)  DEF NewRequest
<1>2. op[p].pc = "idle"
      BY DEF NewRequest
<1>3. ASSUME NEW kind \in Kinds, CreateCall(p, n, kind, id)
      PROVE  op'[p] = [Idle EXCEPT !.pc = IF kind = "shared" THEN "mkdir" ELSE "record",
                                   !.id = id, !.name = n, !.kind = kind]
      BY <1>0, <1>3 DEF CreateCall, Begin
<1>4. ASSUME NEW parent \in Ids, CloneCall(p, n, parent, id) \/ SnapshotCall(p, n, parent, id)
      PROVE  op'[p] = [Idle EXCEPT !.pc = "snap", !.id = id, !.name = n, !.parent = parent]
      BY <1>0, <1>4 DEF CloneCall, SnapshotCall, Begin
<1>5. CASE \E kind \in Kinds : CreateCall(p, n, kind, id)
  <2>1. PICK kind \in Kinds : CreateCall(p, n, kind, id)
        BY <1>5, Zenon
  <2>2. op'[p].id = id /\ op'[p].name = n /\ op'[p].parent = None /\ op'[p].dev = None /\ op'[p].v = None
        BY <2>1, <1>3, ZenonT(60) DEF Idle
  <2>3. /\ Fresh(op'[p]) /\ (op'[p].pc = "record" => op'[p].kind # "shared")
        /\ op'[p].pc = "mkdir" => op'[p].kind = "shared"
        BY <2>1, <1>3, ZenonT(60) DEF Idle, Fresh
  <2>4. Begin(p, op'[p])
        BY <2>1, <1>3, Zenon DEF CreateCall
  <2>5. QED
        BY <1>2, <2>1, <2>2, <2>3, <2>4 DEF CreateCall
<1>a. ASSUME NEW parent \in Ids, op'[p] = [Idle EXCEPT !.pc = "snap", !.id = id, !.name = n, !.parent = parent]
      PROVE  /\ op'[p].pc = "snap" /\ op'[p].id = id /\ op'[p].name = n /\ op'[p].parent = parent
             /\ op'[p].dev = None /\ op'[p].v = None
      BY <1>a DEF Idle
<1>6. CASE \E parent \in Ids : CloneCall(p, n, parent, id)
  <2>1. PICK parent \in Ids : CloneCall(p, n, parent, id)
        BY <1>6, Zenon
  <2>2. Fresh(op'[p]) /\ op'[p].pc = "snap"
        BY <1>4, <1>a, <2>1, Zenon DEF Fresh
  <2>3. Begin(p, op'[p]) /\ UNCHANGED <<vols, files, kernel, table, crashes, removed>>
        BY <1>4, <2>1, Zenon DEF CloneCall
  <2>4. \E found \in VolumeFromName(n) \cup {"failed"} : Lookup(found) /\ Draw(n, id, found)
        BY <2>1, Zenon DEF CloneCall
  <2>5. op'[p].id = id /\ op'[p].name = n /\ op'[p].dev = None /\ op'[p].v = None
        BY <1>4, <1>a, <2>1, Zenon
  <2>6. QED
        BY <1>2, <2>2, <2>3, <2>4, <2>5, ZenonT(60)
<1>7. CASE \E parent \in Ids : SnapshotCall(p, n, parent, id)
  <2>1. PICK parent \in Ids : SnapshotCall(p, n, parent, id)
        BY <1>7, Zenon
  <2>2. Fresh(op'[p]) /\ op'[p].pc = "snap"
        BY <1>4, <1>a, <2>1, Zenon DEF Fresh
  <2>3. Begin(p, op'[p]) /\ UNCHANGED <<vols, files, kernel, table, crashes, removed>>
        BY <1>4, <2>1, Zenon DEF SnapshotCall
  <2>4. \E found \in VolumeFromName(n) \cup {"failed"} : Lookup(found) /\ Draw(n, id, found)
        BY <2>1, Zenon DEF SnapshotCall, Lookup
  <2>5. op'[p].id = id /\ op'[p].name = n /\ op'[p].dev = None /\ op'[p].v = None
        BY <1>4, <1>a, <2>1, Zenon
  <2>6. QED
        BY <1>2, <2>2, <2>3, <2>4, <2>5, ZenonT(60)
<1>8. QED
      BY <1>1, <1>5, <1>6, <1>7, Zenon

\* Every other request is on a volume that has a record, of which it takes a copy.
LEMMA Begins ==
  ASSUME TypeOK, NEW p \in Procs, Request(p)
  PROVE  /\ op[p].pc = "idle" /\ Begin(p, op'[p])
         /\ op'[p].id \in Ids /\ Present(op'[p].id)
         /\ op'[p].pc \in Copying \cup {"remove", "restore"}
         /\ op'[p].pc \in Copying => op'[p].v = vols[op'[p].id]
         /\ op'[p].pc \notin {"attached", "detached"}
         /\ UNCHANGED <<vols, files, kernel, table, used, crashes, removed, unsure>>
<1>0. op \in [Procs -> Operations]
      BY DEF TypeOK
<1>1. PICK id \in Ids :
        \/ DeleteCall(p, id)
        \/ \E snap \in Ids : RestoreCall(p, id, snap)
        \/ AttachCall(p, id)
        \/ DetachCall(p, id)
        \/ \E path \in Paths : MountCall(p, id, path) \/ UnmountCall(p, id, path)
      BY DEF Request
<1>2. op[p].pc = "idle"
      BY DEF Request
<1>3. CASE DeleteCall(p, id)
      BY <1>0, <1>2, <1>3 DEF DeleteCall, Begin, Idle, Copying
<1>4. CASE \E snap \in Ids : RestoreCall(p, id, snap)
      BY <1>0, <1>2, <1>4 DEF RestoreCall, Begin, Idle, Copying
<1>a. ASSUME NEW pc, NEW path, Begin(p, [Copy(pc, id) EXCEPT !.path = path])
      PROVE  Begin(p, op'[p]) /\ op'[p].pc = pc /\ op'[p].id = id /\ op'[p].v = vols[id]
      BY <1>0, <1>a DEF Begin, Copy, Idle
<1>b. ASSUME NEW pc, Begin(p, Copy(pc, id))
      PROVE  Begin(p, op'[p]) /\ op'[p].pc = pc /\ op'[p].id = id /\ op'[p].v = vols[id]
      BY <1>0, <1>b, SMTT(60) DEF Begin, Copy, Idle
<1>5. CASE AttachCall(p, id) \/ DetachCall(p, id)
      BY <1>2, <1>5, <1>b, SMTT(60) DEF AttachCall, DetachCall, Copying
<1>6. CASE \E path \in Paths : MountCall(p, id, path) \/ UnmountCall(p, id, path)
  <2>1. PICK path \in Paths : MountCall(p, id, path) \/ UnmountCall(p, id, path)
        BY <1>6
  <2>2. \E pc \in {"mount", "unmount"} : Begin(p, [Copy(pc, id) EXCEPT !.path = path])
        BY <2>1 DEF MountCall, UnmountCall
  <2>3. Begin(p, op'[p]) /\ op'[p].pc \in {"mount", "unmount"} /\ op'[p].id = id /\ op'[p].v = vols[id]
        BY <2>2, <1>a, Zenon
  <2>4. QED
        BY <1>2, <2>1, <2>3 DEF MountCall, UnmountCall, Copying
<1>7. QED
      BY <1>1, <1>3, <1>4, <1>5, <1>6, Zenon

\* A step of a goroutine leaves the requests of the others alone.
LEMMA Others ==
  ASSUME TypeOK, NEW p \in Procs, Step(p)
  PROVE  \A q \in Procs \ {p} : op'[q] = op[q]
<1>0. op \in [Procs -> Operations]
      BY Zenon  DEF TypeOK
<1>1. CASE NewRequest(p) \/ Request(p)
      BY <1>0, <1>1, BeginsNew, Begins, ZenonT(60) DEF Begin
<1>2. CASE CreateStep(p)
      BY <1>0, <1>2, Zenon DEF CreateStep, Snapshot, Mkdir, CreateVol, Clone, BlockFile, Format,
         Publish, Release,
         Goto, Return, Abandon, Bind, CloneFails
<1>3. CASE DeleteStep(p)
      BY <1>0, <1>3, ZenonT(60) DEF DeleteStep, Undo, Remove, DeleteVol, Restore, Goto, Return,
         Abandon,
         DeleteFails, Deletion
<1>4. CASE NodeStep(p)
  <2>1. CASE Attach(p) \/ AttachSave(p) \/ Detach(p)
        BY <1>0, <2>1, ZenonT(60) DEF Attach, AttachSave, Detach, Goto, Return, Bind, AttachFails
  <2>2. CASE Mount(p) \/ Unmount(p)
        BY <1>0, <2>2, Zenon DEF Mount, Unmount, MountShared, MountBlock, UnmountShared, UnmountBlock,
           Goto, Return
  <2>3. CASE DetachSave(p) \/ MountSave(p) \/ UnmountSave(p)
        BY <1>0, <2>3 DEF DetachSave, MountSave, UnmountSave, SaveCopy, Return, Abandon
  <2>4. QED
        BY <1>4, <2>1, <2>2, <2>3, Zenon DEF NodeStep
<1>5. QED
      BY <1>1, <1>2, <1>3, <1>4, Zenon DEF Step, Progress

\* The history variables, the drawn uuids and the volumes with data only grow.
LEMMA Grows ==
  ASSUME TypeOK, NEW p \in Procs, Step(p)
  PROVE  unclean \subseteq unclean' /\ unsure \subseteq unsure' /\ used \subseteq used' /\ files \cup removed \subseteq files' \cup removed'
<1>1. CASE NewRequest(p) \/ Request(p)
      BY <1>1, BeginsNew, Begins, Zenon DEF Begin, Draw
<1>2. CASE CreateStep(p)
  <2>1. CASE Snapshot(p) \/ Mkdir(p) \/ CreateVol(p) \/ Clone(p)
        BY <2>1, Zenon DEF Snapshot, Mkdir, CreateVol, Clone, history
  <2>2. CASE BlockFile(p) \/ Format(p) \/ Publish(p)
        BY <2>2, Zenon DEF BlockFile, Format, Publish, Abandon, history
  <2>3. CASE Release(p)
        BY <2>3, Zenon DEF Release, ClearFd
  <2>4. QED
        BY <1>2, <2>1, <2>2, <2>3 DEF CreateStep
<1>3. CASE DeleteStep(p)
      BY <1>3, ZenonT(60) DEF DeleteStep, Undo, Remove, DeleteVol, Restore, Abandon, DeleteFails,
         history
<1>4. CASE NodeStep(p)
      BY <1>4, Zenon DEF NodeStep, Attach, AttachSave, Detach, DetachSave, Mount, MountSave, Unmount,
         UnmountSave,
         Abandon, ClearFd, SaveCopy, history
<1>5. QED
      BY <1>1, <1>2, <1>3, <1>4, ZenonT(60) DEF Step, Progress

\* A request works on one volume until it returns.
LEMMA SameVolume ==
  ASSUME TypeOK, NEW p \in Procs, Progress(p)
  PROVE  op[p].pc # "idle" /\ op[p].id \in Ids /\ (op'[p] = Idle \/ op'[p].id = op[p].id)
<1>0. op \in [Procs -> Operations] /\ RequestOK(op[p])
      BY ZenonT(60)  DEF TypeOK
<1>1. CASE CreateStep(p)
  <2>1. CASE Snapshot(p) \/ Mkdir(p) \/ CreateVol(p)
        BY <1>0, <2>1, SMTT(60) DEF Snapshot, Mkdir, CreateVol, Goto, Return, Operations, RequestOK
  <2>2. CASE Clone(p) \/ BlockFile(p)
        BY <1>0, <2>2, SMTT(60) DEF Clone, BlockFile, Goto, Return, Abandon, CloneFails, Operations, RequestOK
  <2>3. CASE Format(p) \/ Publish(p) \/ Release(p)
        BY <1>0, <2>3, SMTT(60) DEF Format, Publish, Release, Goto, Return, Abandon, Bind, Operations, RequestOK
  <2>4. QED
        BY <1>1, <2>1, <2>2, <2>3, Zenon DEF CreateStep
<1>2. CASE DeleteStep(p)
      BY <1>0, <1>2, SMTT(60) DEF DeleteStep, Undo, Remove, DeleteVol, Restore,
         Goto, Return, Abandon, DeleteFails, Deletion, Operations, RequestOK
<1>3. CASE NodeStep(p)
  <2>1. CASE Attach(p) \/ AttachSave(p) \/ Detach(p)
        BY <1>0, <2>1, ZenonT(60) DEF Attach, AttachSave, Detach, Goto, Return, Bind, AttachFails,
           Operations, RequestOK
  <2>2. CASE Mount(p)
        BY <1>0, <2>2, ZenonT(60) DEF Mount, MountShared, MountBlock, Goto, Return, Operations, RequestOK
  <2>3. CASE Unmount(p)
        BY <1>0, <2>3 DEF Unmount, UnmountShared, UnmountBlock, Return, Operations, RequestOK
  <2>4. CASE DetachSave(p) \/ MountSave(p) \/ UnmountSave(p)
        BY <1>0, <2>4, ZenonT(60) DEF DetachSave, MountSave, UnmountSave, SaveCopy, Return, Abandon,
           Operations, RequestOK
  <2>5. QED
        BY <1>3, <2>1, <2>2, <2>3, <2>4, Zenon DEF NodeStep
<1>4. QED
      BY <1>1, <1>2, <1>3, Zenon DEF Progress

\* What the writer of a record believes it to be named.
NameOf(o) == IF o.pc \in Creating THEN o.name ELSE o.v.name

\* The request p has a record to write, of the name n.
Writing(p, n) ==
  \/ op[p].pc = "record" /\ n = op[p].name
  \/ op[p].pc \in Creating \cup Copying /\ n = NameOf(op[p])

\* A step writes the record of its own volume only; what it writes is nothing or a record
\* of the name it believes in.
LEMMA OwnRecord ==
  ASSUME TypeOK, NEW p \in Procs, Step(p)
  PROVE  \A id \in Ids : vols'[id] # vols[id]
           => Progress(p) /\ id = op[p].id /\ (vols'[id] = None \/ Writing(p, vols'[id].name))
<1>0. vols \in [Ids -> Records \cup {None}] /\ op \in [Procs -> Operations] /\ RequestOK(op[p])
      BY Zenon DEF TypeOK
<1>1. CASE NewRequest(p) \/ Request(p)
      BY <1>1, BeginsNew, Begins, ZenonT(60)
<1>2. CASE CreateStep(p)
  <2>1. Progress(p)
        BY <1>2, Zenon DEF Progress
  <2>2. CASE CreateVol(p)
        BY <1>0, <2>1, <2>2, SMTT(60) DEF CreateVol, UpdateVol, NewVolume, Writing, NameOf, Creating
  <2>3. CASE Publish(p)
        BY <1>0, <2>1, <2>3, SMTT(60) DEF Publish, UpdateVol, NewVolume, Writing, NameOf, Creating
  <2>4. CASE Snapshot(p) \/ Mkdir(p) \/ Clone(p) \/ BlockFile(p) \/ Format(p) \/ Release(p)
        BY <2>4, Zenon DEF Snapshot, Mkdir, Clone, BlockFile, Format, Release
  <2>5. QED
        BY <1>2, <2>2, <2>3, <2>4, Zenon DEF CreateStep
<1>3. CASE DeleteStep(p)
      BY <1>0, <1>3, Zenon DEF DeleteStep, Progress, Undo, Remove, DeleteVol, Restore,
         UpdateVol, Deleted
<1>4. CASE NodeStep(p)
  <2>1. op[p].pc \in Copying => op[p].v \in Records
        BY <1>0, Zenon DEF RequestOK, RecordOK
  <2>2. CASE Attach(p) \/ Detach(p) \/ Mount(p) \/ Unmount(p)
        BY <2>2, ZenonT(60) DEF Attach, Detach, Mount, Unmount
  <2>3. ASSUME NEW v, v.name = op[p].v.name, op[p].pc \in Copying, UpdateVol(op[p].id, v)
        PROVE  \A id \in Ids : vols'[id] # vols[id]
                 => Progress(p) /\ id = op[p].id /\ (vols'[id] = None \/ Writing(p, vols'[id].name))
        BY <1>0, <1>4, <2>3, Zenon DEF Progress, UpdateVol, Writing, NameOf, Creating, Copying
  <2>4. CASE AttachSave(p)
    <3>1. [op[p].v EXCEPT !.dev = op[p].dev, !.state = "ATTACHED"].name = op[p].v.name
          BY <2>1, <2>4 DEF AttachSave, Copying, Records
    <3>2. QED
          BY <2>3, <2>4, <3>1, Zenon DEF AttachSave, Copying
  <2>5. CASE DetachSave(p) \/ MountSave(p) \/ UnmountSave(p)
    <3>1. /\ [op[p].v EXCEPT !.dev = None, !.state = "AVAILABLE"].name = op[p].v.name
          /\ [op[p].v EXCEPT !.paths = @ \cup {op[p].path}].name = op[p].v.name
          BY <2>1, <2>5, SMTT(60) DEF DetachSave, MountSave, UnmountSave, Copying, Records
    <3>2. QED
          BY <2>3, <2>5, <3>1, Zenon DEF DetachSave, MountSave, UnmountSave, SaveCopy, Copying
  <2>6. QED
        BY <1>4, <2>2, <2>3, <2>4, <2>5, Zenon DEF NodeStep
<1>5. QED
      BY <1>1, <1>2, <1>3, <1>4, Zenon DEF Step, Progress

-----------------------------------------------------------------------------
(* Deleted volumes. A request that has a record to write finds it still    *)
(* there, unless it has met another request on the volume.                 *)

\* Two requests at work on a volume have met.
Meet ==
  \A p, q \in Procs :
    p # q /\ op[p].pc # "idle" /\ op[q].pc # "idle" /\ op[p].id = op[q].id => op[p].id \in unclean

\* A request that is to write a record finds one of the same name, unless it has met another.
WriterInv ==
  \A p \in Procs :
    op[p].pc \in Creating \cup Copying
      => op[p].id \in unclean \/ (Present(op[p].id) /\ vols[op[p].id].name = NameOf(op[p]))

\* Meet is inductive: the later of two requests marks the volume when it begins.
LEMMA MeetStep ==
  ASSUME TypeOK, Meet, NEW p \in Procs, Step(p)
  PROVE  Meet'
<1> SUFFICES ASSUME NEW q \in Procs \ {p}, op'[p].pc # "idle", op'[q].pc # "idle", op'[p].id = op'[q].id
             PROVE  op'[p].id \in unclean'
    BY Others, Grows, SMTT(60) DEF Meet
<1>1. op'[q] = op[q] /\ unclean \subseteq unclean'
      BY Others, Grows
<1>2. CASE NewRequest(p) \/ Request(p)
  <2>1. Begin(p, op'[p])
        BY <1>2, BeginsNew, Begins, Zenon
  <2>2. q \in InFlight(op'[p].id)
        BY <1>1, Zenon DEF InFlight
  <2>3. QED
        BY <2>1, <2>2, ZenonT(60) DEF Begin
<1>3. CASE Progress(p)
      BY <1>1, <1>3, SameVolume, SMTT(60) DEF Meet, Idle
<1>4. QED
      BY <1>2, <1>3, SMTT(60) DEF Step

\* WriterInv is inductive: only requests that have met can take the record away.
LEMMA WriterStep ==
  ASSUME TypeOK, Meet, WriterInv, NEW p \in Procs, Step(p)
  PROVE  WriterInv'
<1>0. op \in [Procs -> Operations] /\ RequestOK(op[p]) /\ vols \in [Ids -> Records \cup {None}]
      BY Zenon DEF TypeOK
<1>1. ASSUME NEW q \in Procs \ {p}, op'[q].pc \in Creating \cup Copying
      PROVE  op'[q].id \in unclean' \/ (Present(op[q].id)' /\ vols'[op'[q].id].name = NameOf(op'[q]))
  <2>1. op'[q] = op[q] /\ unclean \subseteq unclean' /\ op[q].id \in Ids /\ op[q].pc # "idle"
        BY <1>1, Others, Grows, ZenonT(60) DEF TypeOK, RequestOK, Creating, Copying
  <2>2. CASE vols'[op[q].id] # vols[op[q].id]
        BY <2>1, <2>2, OwnRecord, SameVolume, ZenonT(60) DEF Meet
  <2>3. CASE vols'[op[q].id] = vols[op[q].id]
        BY <1>1, <2>1, <2>3, Zenon DEF WriterInv, Present
  <2>4. QED
        BY <2>2, <2>3, Zenon
<1>2. ASSUME op'[p].pc \in Creating \cup Copying
      PROVE  op'[p].id \in unclean' \/ (Present(op[p].id)' /\ vols'[op'[p].id].name = NameOf(op'[p]))
  <2>1. CASE NewRequest(p)
        BY <1>2, <2>1, BeginsNew, Zenon DEF Fresh, Creating, Copying
  <2>2. CASE Request(p)
        BY <1>2, <2>2, Begins, Zenon DEF Present, NameOf, Creating, Copying
  <2>3. CASE CreateVol(p)
    <3>1. op[p].id \in Ids
          BY <2>3, <1>0, Zenon DEF CreateVol, RequestOK
    <3>2. UpdateVol(op[p].id, NewVolume(op[p], "PENDING")) /\ Goto(p, AfterRecord(op[p]))
          BY <1>0, <1>2, <2>3, SMTT(60) DEF CreateVol, Return, Idle, Creating, Copying, Operations
    <3>3. op'[p].id = op[p].id /\ op'[p].name = op[p].name /\ op'[p].pc \in Creating
          BY <1>0, <3>2 DEF Goto, AfterRecord, Creating, Operations
    <3>4. vols'[op[p].id] = NewVolume(op[p], "PENDING")
          BY <1>0, <3>1, <3>2, Zenon DEF UpdateVol
    <3>5. NewVolume(op[p], "PENDING") # None
          BY <1>0, <2>3, NfsAssumption, SMTT(60) DEF CreateVol, NewVolume, RequestOK, Records,
             States,
             Operations, Fresh
    <3>6. QED
          BY <3>3, <3>4, <3>5, SMTT(60) DEF Present, NewVolume, NameOf
  <2>4. CASE Progress(p) /\ ~ CreateVol(p)
    <3>1. /\ op[p].pc \in Creating \cup Copying /\ NameOf(op'[p]) = NameOf(op[p])
          /\ op'[p].id = op[p].id /\ vols' = vols
      <4>1. CASE CreateStep(p)
        <5>1. CASE Snapshot(p) \/ Mkdir(p)
              BY <1>0, <1>2, <5>1, SMTT(60) DEF Snapshot, Mkdir, Goto, Return, Idle, Creating, Copying,
                 Operations
        <5>2. CASE Clone(p) \/ BlockFile(p)
              BY <1>0, <1>2, <5>2, SMTT(60) DEF Clone, CloneFails, BlockFile, Goto, Abandon, Return, Idle,
                 Creating, Copying, NameOf, Operations
        <5>3. CASE Format(p)
              BY <1>0, <1>2, <5>3, SMTT(60) DEF Format, Bind, Abandon, Return, Idle, Creating, Copying,
                 NameOf, Operations
        <5>4. CASE Publish(p) \/ Release(p)
              BY <1>0, <1>2, <5>4, SMTT(60) DEF Publish, Release, Goto, Return, Idle, Creating,
                 Copying,
                 Operations
        <5>5. QED
              BY <2>4, <4>1, <5>1, <5>2, <5>3, <5>4, ZenonT(60) DEF CreateStep
      <4>2. CASE DeleteStep(p)
        <5>1. CASE Undo(p) \/ Restore(p)
              BY <1>0, <1>2, <5>1, SMTT(60) DEF Undo, Restore, Abandon, Goto, Return, Idle, Creating,
                 Copying, Operations
        <5>2. CASE Remove(p)
              BY <1>0, <1>2, <5>2, SMTT(60) DEF Remove, DeleteFails, Abandon, Goto, Return, Idle,
                 Creating, Copying, Operations
        <5>3. CASE DeleteVol(p)
              BY <1>0, <1>2, <5>3, SMTT(60) DEF DeleteVol, Deletion, DeleteFails, Abandon, Return, Idle,
                 Creating, Copying, Operations
        <5>4. QED
              BY <4>2, <5>1, <5>2, <5>3, Zenon DEF DeleteStep
      <4>3. CASE NodeStep(p)
        <5>1. CASE Attach(p)
              BY <1>0, <1>2, <5>1, SMTT(60) DEF Attach, Bind, Return, Idle, Creating, Copying, NameOf,
                 Operations
        <5>2. CASE Detach(p)
              BY <1>0, <1>2, <5>2, SMTT(60) DEF Detach, Goto, Return, Idle, Creating, Copying, NameOf,
                 Operations
        <5>3. CASE Mount(p)
              BY <1>0, <1>2, <5>3, SMTT(60) DEF Mount, MountShared, MountBlock, Goto, Return, Idle,
                 Creating, Copying, NameOf, Operations
        <5>4. CASE Unmount(p)
          <6>1. op[p].v \in Records
                BY <1>0, <5>4, ZenonT(60) DEF Unmount, RequestOK, RecordOK, Copying
          <6>2. QED
                BY <1>0, <1>2, <5>4, <6>1, SMTT(60) DEF Unmount, UnmountShared, UnmountBlock,
                   Return, Idle,
                   Creating, Copying, NameOf, Operations, Records
        <5>5. CASE AttachSave(p) \/ DetachSave(p) \/ MountSave(p) \/ UnmountSave(p)
              BY <1>0, <1>2, <5>5, SMTT(60) DEF AttachSave, DetachSave, MountSave, UnmountSave,
                 AttachFails, SaveCopy, Abandon, Return,
                 Idle, Creating, Copying, Operations
        <5>6. QED
              BY <4>3, <5>1, <5>2, <5>3, <5>4, <5>5, Zenon DEF NodeStep
      <4>4. QED
            BY <2>4, <4>1, <4>2, <4>3, Zenon DEF Progress
    <3>2. unclean \subseteq unclean'
          BY Grows
    <3>3. QED
          BY <3>1, <3>2, Zenon DEF WriterInv, Present
  <2>5. QED
        BY <2>1, <2>2, <2>3, <2>4, Zenon DEF Step
<1>3. QED
      BY <1>1, <1>2, Zenon DEF WriterInv

\* What the next two sections rest on.
WritersInv == TypeOK /\ Meet /\ WriterInv

\* Every step preserves the invariant of the writers.
LEMMA WritersNext == WritersInv /\ [Next]_vars => WritersInv'
<1> SUFFICES ASSUME WritersInv, [Next]_vars PROVE WritersInv'
    OBVIOUS
<1>1. ASSUME NEW p \in Procs, Step(p) PROVE WritersInv'
      BY <1>1, TypeStep, MeetStep, WriterStep, Zenon DEF WritersInv
<1>2. CASE Crash \/ Reboot
  <2>1. \A p \in Procs : op'[p].pc = "idle"
        BY <1>2, SMTT(60) DEF Crash, Reboot, Restart, Idle
  <2>2. QED
        BY <1>2, <2>1, TypeRestart, ZenonT(60) DEF WritersInv, Meet, WriterInv, Creating, Copying
<1>3. CASE UNCHANGED vars
      BY <1>3, TypeStutters, Zenon DEF WritersInv, Meet, WriterInv, vars, history, Present, NameOf
<1>4. QED
      BY <1>1, <1>2, <1>3, NextSteps

\* It holds initially.
LEMMA WritersInit == Init => WritersInv
<1> SUFFICES ASSUME Init PROVE WritersInv
    BY SMTT(60)
<1>1. \A p \in Procs : op[p].pc = "idle"
      BY DEF Init, Idle
<1>2. QED
      BY <1>1, TypeInit, Zenon DEF WritersInv, Meet, WriterInv, Creating, Copying

\* DeletedIsGone: UpdateVol, which writes whether or not there is a record, brings a
\* deleted volume back only for a request that has met the Delete.
THEOREM DeletedStaysGone == Spec => DeletedIsGone
<1> DEFINE Gone(id) == ~ Present(id) /\ Present(id)'
                         => id \in unclean \/ \E p \in Procs : op[p].pc = "record" /\ op[p].id = id
<1>1. ASSUME WritersInv, [Next]_vars, NEW id \in Ids
      PROVE  Gone(id)
  <2>1. ASSUME NEW p \in Procs, Step(p) PROVE Gone(id)
        BY <1>1, <2>1, OwnRecord, Zenon DEF WritersInv, WriterInv, Present, Writing
  <2>2. CASE Crash \/ Reboot \/ UNCHANGED vars
        BY <2>2 DEF Crash, Reboot, Restart, vars, Present
  <2>3. QED
        BY <1>1, <2>1, <2>2, NextSteps, ZenonT(60)
<1>2. WritersInv /\ [Next]_vars => [\A id \in Ids : Gone(id)]_vars
      BY <1>1, Zenon
<1>3. QED
      BY <1>2, WritersInit, WritersNext, PTL DEF Spec, DeletedIsGone

-----------------------------------------------------------------------------
(* Names. A name is claimed by the record that has it and by the request   *)
(* that is about to record it; requests only hand claims on.               *)

\* A volume that has the name, or that Create is about to record with it.
Claim(id, n) ==
  \/ Present(id) /\ vols[id].name = n
  \/ \E p \in Procs : Fresh(op[p]) /\ op[p].id = id /\ op[p].name = n

\* Two volumes claim a name only if NamesUnique lets them have it.
NameInv ==
  \A a, b \in Ids, n \in Names :
    a # b /\ Claim(a, n) /\ Claim(b, n) => n \in unsure \/ a \in unclean \/ b \in unclean

\* Where the ways to go on lead.
LEMMA NextPc ==
  ASSUME TypeOK, NEW p \in Procs
  PROVE  /\ \A pc : Goto(p, pc) => op'[p].pc = pc /\ op'[p].id = op[p].id /\ op'[p].name = op[p].name
         /\ Return(p) \/ op' = [op EXCEPT ![p] = Idle] => op'[p].pc \in {"idle", "release"}
         /\ \A dev, pc : Bind(p, dev, pc) => op'[p].pc = pc
         /\ \A pc : op' = [op EXCEPT ![p].pc = pc, ![p].parent = None] => op'[p].pc = pc
         /\ \A left : op' = [op EXCEPT ![p].pc = "setpaths", ![p].v.paths = left] => op'[p].pc = "setpaths"
<1>0. op \in [Procs -> Operations] /\ op[p] \in Operations
      BY Zenon DEF TypeOK
<1>1. Idle.pc = "idle"
      BY Zenon DEF Idle
<1>2. ASSUME NEW pc, Goto(p, pc)
      PROVE  op'[p].pc = pc /\ op'[p].id = op[p].id /\ op'[p].name = op[p].name
      BY <1>0, <1>2 DEF Goto, Operations
<1>3. ASSUME Return(p) \/ op' = [op EXCEPT ![p] = Idle]
      PROVE  op'[p].pc \in {"idle", "release"}
      BY <1>0, <1>1, <1>3, SMTT(60) DEF Return, Operations
<1>4. ASSUME NEW dev, NEW pc, Bind(p, dev, pc)
      PROVE  op'[p].pc = pc
      BY <1>0, <1>4 DEF Bind, Operations
<1>5. ASSUME NEW pc, op' = [op EXCEPT ![p].pc = pc, ![p].parent = None]
      PROVE  op'[p].pc = pc
      BY <1>0, <1>5 DEF Operations
<1>6. ASSUME NEW left, op' = [op EXCEPT ![p].pc = "setpaths", ![p].v.paths = left]
      PROVE  op'[p].pc = "setpaths"
      BY <1>0, <1>6 DEF Operations
<1>7. QED
      BY <1>2, <1>3, <1>4, <1>5, <1>6, SMTT(60)

\* Up to recording the volume Create keeps its uuid and its name.
LEMMA StaysFresh ==
  ASSUME TypeOK, NEW p \in Procs, Progress(p), Fresh(op'[p])
  PROVE  Fresh(op[p]) /\ op'[p].id = op[p].id /\ op'[p].name = op[p].name
<1>0. op \in [Procs -> Operations] /\ op'[p].pc \in {"snap", "mkdir", "record"}
      BY ZenonT(60) DEF TypeOK, Fresh
<1>1. CASE Snapshot(p)
      BY <1>0, <1>1, ZenonT(60) DEF Snapshot, Fresh, Operations
<1>2. CASE Mkdir(p)
      BY <1>0, <1>2, NextPc, ZenonT(60) DEF Mkdir, Fresh
<1>3. CASE CreateVol(p)
  <2>1. AfterRecord(op[p]) \in {"copy", "publish", "blockfile"}
        BY DEF AfterRecord
  <2>2. QED
        BY <1>0, <1>3, <2>1, NextPc, ZenonT(60) DEF CreateVol
<1>4. CASE Clone(p)
      BY <1>0, <1>4, NextPc, ZenonT(60) DEF Clone, CloneFails
<1>5. CASE BlockFile(p)
      BY <1>0, <1>5, NextPc, ZenonT(60) DEF BlockFile, Abandon
<1>6. CASE Format(p)
      BY <1>0, <1>6, NextPc, ZenonT(60) DEF Format, Abandon
<1>7. CASE Publish(p)
      BY <1>0, <1>7, NextPc, ZenonT(60) DEF Publish
<1>8. CASE Release(p)
      BY <1>0, <1>8, NextPc, ZenonT(60) DEF Release
<1>9. CASE Undo(p)
      BY <1>0, <1>9, NextPc, ZenonT(60) DEF Undo, Abandon
<1>10. CASE Remove(p) \/ DeleteVol(p)
  <2>1. Goto(p, "delvol") \/ DeleteFails(p) \/ Return(p)
        BY <1>10, Zenon DEF Remove, DeleteVol, Deletion
  <2>2. QED
        BY <1>0, <2>1, NextPc, ZenonT(60) DEF DeleteFails, Abandon
<1>11. CASE Restore(p)
      BY <1>0, <1>11, NextPc, ZenonT(60) DEF Restore
<1>12. CASE Attach(p)
      BY <1>0, <1>12, NextPc, ZenonT(60) DEF Attach
<1>13. CASE Detach(p)
      BY <1>0, <1>13, NextPc, ZenonT(60) DEF Detach
<1>14. CASE AttachSave(p)
      BY <1>0, <1>14, NextPc, ZenonT(60) DEF AttachSave, AttachFails
<1>15. CASE DetachSave(p) \/ MountSave(p) \/ UnmountSave(p)
  <2>1. op' = [op EXCEPT ![p] = Idle] \/ Return(p)
        BY <1>15 DEF DetachSave, MountSave, UnmountSave, SaveCopy, Abandon
  <2>2. QED
        BY <1>0, <2>1, NextPc, ZenonT(60)
<1>16. CASE Mount(p)
  <2>1. Goto(p, "addpath") \/ Return(p)
        BY <1>16, Zenon DEF Mount, MountShared, MountBlock
  <2>2. QED
        BY <1>0, <2>1, NextPc, ZenonT(60)
<1>17. CASE Unmount(p)
  <2>1. (\E left : op' = [op EXCEPT ![p].pc = "setpaths", ![p].v.paths = left]) \/ Return(p)
        BY <1>17, ZenonT(60) DEF Unmount, UnmountShared, UnmountBlock
  <2>2. QED
        BY <1>0, <2>1, NextPc, ZenonT(60)
<1>18. QED
      BY <1>1, <1>2, <1>3, <1>4, <1>5, <1>6, <1>7, <1>8, <1>9, <1>10, <1>11, <1>12, <1>13, <1>14,
         <1>15, <1>16, <1>17, ZenonT(60) DEF Progress, CreateStep, DeleteStep, NodeStep

\* A claim is older than the step, or of a request that begins, or of an unclean volume.
LEMMA ClaimStep ==
  ASSUME WritersInv, NEW p \in Procs, Step(p), NEW a \in Ids, NEW n \in Names, Claim(a, n)'
  PROVE  \/ Claim(a, n) \/ a \in unclean
         \/ NewRequest(p) /\ op'[p].id = a /\ op'[p].name = n
<1>0. TypeOK /\ WriterInv
      BY Zenon DEF WritersInv
<1>1. CASE Present(a)' /\ vols'[a].name = n
  <2>1. CASE vols'[a] = vols[a]
        BY <1>1, <2>1, Zenon DEF Claim, Present
  <2>2. CASE vols'[a] # vols[a]
    <3>1. a = op[p].id /\ Writing(p, n)
          BY <1>0, <1>1, <2>2, OwnRecord, Zenon DEF Present
    <3>2. CASE op[p].pc = "record" /\ n = op[p].name
          BY <3>1, <3>2, Zenon DEF Claim, Fresh
    <3>3. CASE op[p].pc \in Creating \cup Copying /\ n = NameOf(op[p])
          BY <1>0, <3>1, <3>3, ZenonT(60) DEF Claim, WriterInv
    <3>4. QED
          BY <3>1, <3>2, <3>3, Zenon DEF Writing
  <2>3. QED
        BY <2>1, <2>2, Zenon
<1>2. ASSUME NEW q \in Procs \ {p}, Fresh(op'[q]), op'[q].id = a, op'[q].name = n
      PROVE  Claim(a, n)
      BY <1>0, <1>2, Others, Zenon DEF Claim
<1>3. CASE Fresh(op'[p]) /\ op'[p].id = a /\ op'[p].name = n
  <2>1. CASE Request(p)
        BY <1>0, <1>3, <2>1, Begins, Zenon DEF Fresh, Copying
  <2>2. CASE Progress(p)
        BY <1>0, <1>3, <2>2, StaysFresh, Zenon DEF Claim
  <2>3. QED
        BY <1>3, <2>1, <2>2, Zenon DEF Step
<1>4. QED
      BY <1>1, <1>2, <1>3, Zenon DEF Claim, Fresh

\* A request that begins while the name is claimed makes the name unsure: the lookup of the
\* server cannot have found the name free, or it does not look.
LEMMA Warned ==
  ASSUME TypeOK, NEW p \in Procs, NewRequest(p), NEW b \in Ids, NEW n \in Names, Claim(b, n),
         op'[p].name = n
  PROVE  n \in unsure'
<1>1. PICK found \in VolumeFromName(n) \cup {"failed"} : Lookup(found) /\ Draw(n, op'[p].id, found)
      BY BeginsNew, Zenon
<1>2. CASE Present(b) /\ vols[b].name = n
  <2>1. Named(n) # {}
        BY <1>2, Zenon DEF Named
  <2>2. found \in {"several", "failed"}
        BY <1>1, <2>1, Zenon DEF VolumeFromName, Lookup
  <2>3. QED
        BY <1>1, <2>1, <2>2, Zenon DEF Draw, Doubtful
<1>3. CASE \E q \in Procs : Fresh(op[q]) /\ op[q].id = b /\ op[q].name = n
      BY <1>1, <1>3, Zenon DEF Draw, Doubtful
<1>4. QED
      BY <1>2, <1>3, Zenon DEF Claim

\* NamesUnique: the lookup by name that precedes Create and Clone keeps names unique but
\* for the races and failures that the property names.
THEOREM NamesStayUnique == Spec => []NamesUnique
<1>1. Init => NameInv
      BY ZenonT(60)  DEF Init, NameInv, Claim, Present, Fresh, Idle
<1>2. ASSUME WritersInv, NameInv, [Next]_vars
      PROVE  NameInv'
  <2>1. ASSUME NEW p \in Procs, Step(p) PROVE NameInv'
    <3> SUFFICES ASSUME NEW a \in Ids, NEW b \in Ids, NEW n \in Names, a # b, Claim(a, n)', Claim(b, n)'
                 PROVE  n \in unsure' \/ a \in unclean' \/ b \in unclean'
        BY DEF NameInv
    <3>0. TypeOK
          BY <1>2 DEF WritersInv
    <3>1. unsure \subseteq unsure' /\ unclean \subseteq unclean'
          BY <2>1, <3>0, Grows, SMTT(60)
    <3>2. CASE Claim(a, n) /\ Claim(b, n)
          BY <1>2, <3>1, <3>2 DEF NameInv
    <3>3. CASE NewRequest(p) /\ op'[p].name = n /\ (Claim(a, n) \/ Claim(b, n))
          BY <3>0, <3>3, Warned, Zenon
    <3>4. QED
          BY <1>2, <2>1, <3>1, <3>2, <3>3, ClaimStep, Zenon
  <2>2. CASE Crash \/ Reboot
    <3>1. vols' = vols /\ unsure' = unsure /\ unclean \subseteq unclean' /\ \A p \in Procs : ~ Fresh(op'[p])
          BY <2>2, SMTT(60) DEF Crash, Reboot, Restart, Idle, Fresh
    <3>2. QED
          BY <1>2, <3>1, ZenonT(60) DEF NameInv, Claim, Present
  <2>3. CASE UNCHANGED vars
        BY <1>2, <2>3, ZenonT(60) DEF NameInv, Claim, Present, vars, history
  <2>4. QED
        BY <1>2, <2>1, <2>2, <2>3, NextSteps, SMTT(60)
<1>3. TypeOK /\ NameInv => NamesUnique
      BY Zenon DEF TypeOK, NameInv, NamesUnique, Claim, Records, Present
<1>4. QED
      BY <1>1, <1>2, <1>3, WritersInit, WritersNext, PTL DEF Spec, WritersInv

-----------------------------------------------------------------------------
(* Data. A request that may show its volume as ready owes it files; files  *)
(* go only by Delete, which remembers them in removed.                     *)

\* A request that may write, or go on to write, a state other than PENDING.
Owes(o) ==
  \/ o.pc = "record" /\ o.kind = "shared"
  \/ o.pc \in {"format", "publish", "attached", "detached"}
  \/ o.pc \in Copying /\ o.v.state # "PENDING"

\* The volumes that have files or had them until a Delete.
Data == files \cup removed

\* A volume that is ready, or owed files by a request, has them.
DataInv == ReadyHasData /\ \A p \in Procs : Owes(op[p]) => op[p].id \in Data

\* A request that writes a state other than PENDING owes the volume files.
LEMMA ReadyWrites ==
  ASSUME TypeOK, NEW p \in Procs, Step(p), NEW id \in Ids,
         vols'[id] # vols[id], vols'[id] # None, vols'[id].state # "PENDING"
  PROVE  Owes(op[p]) /\ id = op[p].id
<1>0. vols \in [Ids -> Records \cup {None}] /\ op \in [Procs -> Operations] /\ RequestOK(op[p])
      BY Zenon DEF TypeOK
<1>1. id = op[p].id /\ Progress(p)
      BY OwnRecord, ZenonT(60)
<1>2. CASE CreateStep(p)
  <2>2. CASE CreateVol(p)
    <3>1. vols' = vols \/ vols' = [vols EXCEPT ![op[p].id] = NewVolume(op[p], "PENDING")]
          BY <2>2, Zenon DEF CreateVol, UpdateVol
    <3>2. NewVolume(op[p], "PENDING").state = "PENDING"
          BY Zenon DEF NewVolume
    <3>3. QED
          BY <1>0, <1>1, <3>1, <3>2, Zenon
  <2>3. CASE Publish(p)
        BY <2>3, <1>1, ZenonT(60) DEF Publish, Owes
  <2>4. CASE Snapshot(p) \/ Mkdir(p) \/ Clone(p) \/ BlockFile(p) \/ Format(p) \/ Release(p)
        BY <2>4, Zenon DEF Snapshot, Mkdir, Clone, BlockFile, Format, Release
  <2>5. QED
        BY <1>2, <2>2, <2>3, <2>4, Zenon DEF CreateStep
<1>3. CASE DeleteStep(p)
      BY <1>0, <1>3, <1>1, Zenon DEF DeleteStep, Undo, Remove, DeleteVol, Restore, UpdateVol,
         Deleted
<1>4. CASE NodeStep(p)
  <2>1. op[p].pc \in Copying => op[p].v \in Records
        BY <1>0, Zenon DEF RequestOK, RecordOK
  <2>2. CASE Attach(p) \/ Detach(p) \/ Mount(p) \/ Unmount(p)
        BY <2>2, Zenon DEF Attach, Detach, Mount, Unmount
  <2>3. CASE AttachSave(p) \/ DetachSave(p)
        BY <1>1, <2>3 DEF AttachSave, DetachSave, Owes
  <2>4. CASE MountSave(p) \/ UnmountSave(p)
        BY <1>0, <1>1, <2>1, <2>4, ZenonT(60) DEF MountSave, UnmountSave, UpdateVol, SaveCopy, Owes,
           Copying,
           Records
  <2>5. QED
        BY <1>4, <2>2, <2>3, <2>4, Zenon DEF NodeStep
<1>5. QED
      BY <1>1, <1>2, <1>3, <1>4, Zenon DEF Progress

\* A request comes to owe files by a step that makes them.
LEMMA OweStep ==
  ASSUME TypeOK, DataInv, NEW p \in Procs, Progress(p), Owes(op'[p])
  PROVE  op'[p].id = op[p].id /\ (Owes(op[p]) \/ op[p].id \in files')
<1>0. op \in [Procs -> Operations] /\ RequestOK(op[p])
      BY Zenon DEF TypeOK
<1>1. op'[p].id = op[p].id
      BY SameVolume, SMTT(60) DEF Owes, Idle, Copying
<1>2. CASE CreateStep(p)
  <2>1. CASE Snapshot(p) \/ Mkdir(p)
        BY <1>0, <1>1, <2>1, SMTT(60) DEF Snapshot, Mkdir, Goto, Return, Idle, Owes, Copying, Operations
  <2>2. CASE CreateVol(p) \/ Clone(p)
        BY <1>0, <1>1, <2>2, SMTT(60) DEF CreateVol, Clone, AfterRecord, CloneFails, Goto, Return, Idle,
           Owes, Copying, Operations
  <2>3. CASE BlockFile(p) \/ Format(p)
        BY <1>0, <1>1, <2>3, SMTT(60) DEF BlockFile, Format, Bind, Abandon, Goto, Return, Idle, Owes,
           Copying, Operations
  <2>4. CASE Publish(p) \/ Release(p)
        BY <1>0, <1>1, <2>4, SMTT(60) DEF Publish, Release, Goto, Return, Idle, Owes, Copying,
           Operations
  <2>5. QED
        BY <1>2, <2>1, <2>2, <2>3, <2>4, ZenonT(60) DEF CreateStep
<1>3. CASE DeleteStep(p)
  <2>1. CASE Undo(p) \/ Restore(p)
        BY <1>0, <2>1, SMTT(60) DEF Undo, Restore, Abandon, Goto, Return, Idle, Owes, Copying, Operations
  <2>2. CASE Remove(p)
        BY <1>0, <2>2, SMTT(60) DEF Remove, DeleteFails, Abandon, Goto, Return, Idle, Owes, Copying,
           Operations
  <2>3. CASE DeleteVol(p)
        BY <1>0, <2>3, SMTT(60) DEF DeleteVol, Deletion, DeleteFails, Abandon, Return, Idle, Owes,
           Copying, Operations
  <2>4. QED
        BY <1>3, <2>1, <2>2, <2>3, Zenon DEF DeleteStep
<1>4. CASE NodeStep(p)
  <2>1. CASE Attach(p)
        BY <1>0, <1>1, <2>1 DEF Attach, Bind, Return, Idle, Owes, Copying, Operations
  <2>2. CASE Detach(p)
        BY <1>0, <1>1, <2>2, ZenonT(60) DEF Detach, Goto, Return, Idle, Owes, Copying, Operations,
           RequestOK
  <2>3. CASE Mount(p)
        BY <1>0, <1>1, <2>3, SMTT(60) DEF Mount, MountShared, MountBlock, Goto, Return, Idle, Owes,
           Copying, Operations
  <2>4. CASE Unmount(p)
    <3>1. op[p].v \in Records
          BY <1>0, <2>4, ZenonT(60) DEF Unmount, RequestOK, RecordOK, Copying
    <3>2. QED
          BY <1>0, <1>1, <2>4, <3>1, SMTT(60) DEF Unmount, UnmountShared, UnmountBlock, Return,
             Idle, Owes,
             Copying, Operations, Records
  <2>5. CASE AttachSave(p) \/ DetachSave(p) \/ MountSave(p) \/ UnmountSave(p)
        BY <1>0, <1>1, <2>5, SMTT(60) DEF AttachSave, DetachSave, MountSave, UnmountSave, AttachFails,
           SaveCopy, Abandon, Return,
           Idle, Owes, Copying, Operations
  <2>6. QED
        BY <1>4, <2>1, <2>2, <2>3, <2>4, <2>5, Zenon DEF NodeStep
<1>5. QED
      BY <1>1, <1>2, <1>3, <1>4, Zenon DEF Progress

\* ReadyHasData: Create publishes last, and no interleaving or restart shows a volume as
\* ready that never had its directory or block file.
THEOREM ReadyKeepsData == Spec => []ReadyHasData
<1>1. Init => DataInv
      BY DEF Init, DataInv, ReadyHasData, Present, Owes, Idle, Copying
<1>2. ASSUME TypeOK, DataInv, [Next]_vars
      PROVE  DataInv'
  <2>1. ASSUME NEW p \in Procs, Step(p) PROVE DataInv'
    <3>1. Data \subseteq Data'
          BY <1>2, <2>1, Grows, Zenon DEF Data
    <3>2. ReadyHasData'
          BY <1>2, <2>1, <3>1, ReadyWrites, Zenon DEF DataInv, ReadyHasData, Present, Data
    <3>3. ASSUME NEW q \in Procs \ {p}, Owes(op'[q]) PROVE op'[q].id \in Data'
          BY <1>2, <2>1, <3>1, <3>3, Others, Zenon DEF DataInv
    <3>4. ASSUME Owes(op'[p]) PROVE op'[p].id \in Data'
      <4>1. CASE NewRequest(p)
            BY <1>2, <3>4, <4>1, BeginsNew, Zenon DEF Owes, Fresh, Copying
      <4>2. CASE Request(p)
            BY <1>2, <3>1, <3>4, <4>2, Begins, Zenon DEF Owes, DataInv, ReadyHasData, Data,
               Copying
      <4>3. CASE Progress(p)
            BY <1>2, <3>1, <3>4, <4>3, OweStep, Zenon DEF DataInv, Data
      <4>4. QED
            BY <2>1, <4>1, <4>2, <4>3, Zenon DEF Step
    <3>5. QED
          BY <3>2, <3>3, <3>4 DEF DataInv
  <2>2. CASE Crash \/ Reboot
    <3>1. vols' = vols /\ files' = files /\ removed' = removed /\ \A p \in Procs : ~ Owes(op'[p])
          BY <2>2, SMTT(60) DEF Crash, Reboot, Restart, Idle, Owes, Copying
    <3>2. QED
          BY <1>2, <3>1, ZenonT(60) DEF DataInv, ReadyHasData, Present
  <2>3. CASE UNCHANGED vars
        BY <1>2, <2>3 DEF DataInv, ReadyHasData, Present, Data, vars, history
  <2>4. QED
        BY <1>2, <2>1, <2>2, <2>3, NextSteps, SMTT(60)
<1>3. QED
      BY <1>1, <1>2, TypeCorrect, PTL DEF Spec, DataInv
=============================================================================
