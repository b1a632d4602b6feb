----------------------------- MODULE MCNfsVolume -----------------------------
(***************************************************************************)
(* NfsVolume for TLC, in three scenarios, one of which a behaviour keeps:  *)
(*   "one"      two goroutines work on one volume, a directory or a block  *)
(*              device, with two paths;                                    *)
(*   "devices"  two block volumes share the loop devices, with the device  *)
(*              that a record names gone or given away after a reboot;     *)
(*   "names"    volumes are created, cloned, snapshotted, restored and     *)
(*              deleted under two names.                                   *)
(* Uuids are interchangeable, so they are drawn in one order.              *)
(***************************************************************************)
EXTENDS NfsVolume

CONSTANTS p1, p2, i1, i2, i3

VARIABLE scenario

OneVolume ==
  {p1} \X {"create", "attach", "detach", "mount", "unmount"} \X {i1}
    \cup {p2} \X {"delete", "unmount"} \X {i1}

OnDevices ==
  {p1} \X {"create", "delete", "attach", "detach", "mount", "unmount"} \X {i1}
    \cup {p2} \X {"create", "attach", "detach", "mount", "unmount"} \X {i2}

OfNames ==
  {p1} \X {"create"} \X {i1, i2, i3}
    \cup {<<p1, "restore", i1>>, <<p1, "delete", i1>>, <<p1, "clone", i2>>}
    \cup {p2} \X {"create", "snapshot"} \X {i2}

OnePath == {CHOOSE path \in Paths : TRUE}
OneName == {CHOOSE n \in Names : TRUE}

One == INSTANCE NfsVolume WITH
  Requests <- OneVolume, Names <- OneName, Kinds <- {"shared", "block"},
  Failing <- {"kvdb", "mount"}
Devices == INSTANCE NfsVolume WITH
  Requests <- OnDevices, Names <- OneName, Paths <- OnePath, Kinds <- {"block", "raw"},
  Failing <- {"kvdb", "mount"}
Creation == INSTANCE NfsVolume WITH
  Requests <- OfNames, Paths <- OnePath, Kinds <- {"shared", "block"},
  Failing <- {"kvdb", "fs"}

MCInit == scenario \in {"one", "devices", "names"} /\ Init

MCNext ==
  /\ \/ scenario = "one" /\ One!Next
     \/ scenario = "devices" /\ Devices!Next
     \/ scenario = "names" /\ Creation!Next
  /\ used' \in {{}, {i1}, {i2}, {i1, i2}, {i1, i2, i3}}
  /\ scenario = "devices" \/ used' # {i2}
  /\ UNCHANGED scenario

MCSpec == MCInit /\ [][MCNext]_<<vars, scenario>>
=============================================================================
