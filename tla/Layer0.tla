-------------------------------- MODULE Layer0 --------------------------------
(***************************************************************************)
(* The graph driver layer0 (graph/drivers/layer0/layer0.go): it keeps the  *)
(* writable layer of a container on a volume that is named after the       *)
(* image, so that what a container has written is there for the next one.  *)
(* The layers themselves are those of Docker's overlay driver.             *)
(*                                                                         *)
(* Docker calls the driver for a container X in this order, for different  *)
(* containers at the same time: Create of X-init, Create of X, Remove of X *)
(* and Remove of X-init; Get, Put and the like of either in between. An    *)
(* id is never used again, and a container whose creation failed is left   *)
(* as it is.                                                               *)
(*                                                                         *)
(* create and the second part of Remove run under the driver's mutex; the  *)
(* look at the map in isLayer0, which may also add to it, does not. The    *)
(* runtime stops a process that it sees do that: see Crash.                *)
(***************************************************************************)
EXTENDS Integers

CONSTANTS Containers, Volumes,
          Images, Image(_),    \* the image of a container, the name of a volume
          None,
          Block,               \* volDriver.Type() is BLOCK
          Failing,             \* "enumerate", "attach", "mount", "overlay", "rename", "unmount",
                               \* "detach"
          MaxCrashes           \* bound

Entries == [parent : Images \cup {None}, vol : Volumes \cup {None}, ref : -1 .. 1]
Places == {"init", "plain", "volume"}
Phases == {"new", "init", "overlay", "plain", "restore", "live", "removed", "gone", "failed"}

ASSUME LayerAssumption ==
  /\ None \notin Containers \cup Volumes \cup Images
  /\ \A e \in Entries : e # None
  /\ \A S \in SUBSET Containers : S # None
  /\ \A x \in Containers \cup Volumes : Image(x) \in Images
  /\ Block \in BOOLEAN
  /\ MaxCrashes \in Nat

VARIABLES
  entry,      \* l.volumes: an entry for a container, or None
  layers,     \* overlay's layers: <<container, place>>
  upper,      \* whose writes the upper directory of a layer on a volume holds
  saved,      \* whose writes the saved upper directory of a volume holds, or None
  paths,      \* AttachPath: the containers under whose path a volume is mounted
  attached,   \* the volumes that are attached
  phase,      \* how far Docker is with a container
  crashes,
  written,    \* history: the containers that were removed from a volume
  damaged,    \* history: the volumes with a rename or an unmount that failed
  stuck       \* history: the volumes that were not given back

vars == <<entry, layers, upper, saved, paths, attached, phase, crashes, written, damaged, stuck>>

HasEntry(c) == entry[c] # None

\* isLayer0 of X-init adds an entry for X if there is none.
IsLayer0Init(c) ==
  entry' = [entry EXCEPT ![c] =
              IF @ = None THEN [parent |-> None, vol |-> None, ref |-> 0] ELSE @]

\* realID: where a layer is looked for.
RealID(c) == <<c, IF HasEntry(c) THEN "volume" ELSE "plain">>

Enter(c, ph) == phase' = [phase EXCEPT ![c] = ph]
Drop(c) == entry' = [entry EXCEPT ![c] = None]

-----------------------------------------------------------------------------
\* Create of X-init.
CreateInit(c) ==
  /\ phase[c] = "new"
  /\ entry' = [entry EXCEPT ![c] = [parent |-> Image(c), vol |-> None, ref |-> 0]]
  /\ \/ layers' = layers \cup {<<c, "init">>} /\ Enter(c, "init")
     \/ "overlay" \in Failing /\ Enter(c, "failed") /\ UNCHANGED layers
  /\ UNCHANGED <<upper, saved, paths, attached, crashes, written, damaged, stuck>>

\* Enumerate by the name of the image; a locator without a name matches all.
Candidates(c) ==
  {v \in Volumes : entry[c].parent \in {None, Image(v)}}

\* Mutant: a volume is taken whether or not it is mounted.
AnyVolume(v) == TRUE

IsFree(v) == paths[v] = {}

\* Mutant: create leaves the entry behind when it gives up.
KeepsEntry(c) == UNCHANGED entry

GivesUp(c) == Drop(c)

\* create does without a volume: the layer will be a plain one.
Plain(c) ==
  /\ GivesUp(c)
  /\ Enter(c, "plain")
  /\ UNCHANGED paths

\* Mutant: the mount and the layer both count.
CountsTwice(c) == 2

FirstRef(c) == 1

\* create of X, under the mutex.
Create(c) ==
  /\ phase[c] = "init"
  /\ HasEntry(c)
  /\ \/ /\ "enumerate" \in Failing \/ \A v \in Candidates(c) : ~ IsFree(v)
        /\ Plain(c) /\ UNCHANGED <<attached, stuck>>
     \/ /\ Block /\ "attach" \in Failing
        /\ \E v \in Candidates(c) : IsFree(v)
        /\ Plain(c) /\ UNCHANGED <<attached, stuck>>
     \/ \E v \in {w \in Candidates(c) : IsFree(w)} :
          /\ attached' = IF Block THEN attached \cup {v} ELSE attached
          /\ \/ /\ paths' = [paths EXCEPT ![v] = @ \cup {c}]
                /\ entry' = [entry EXCEPT ![c].vol = v, ![c].ref = FirstRef(c)]
                /\ Enter(c, "overlay")
                /\ UNCHANGED stuck
             \/ \* the volume stays attached
                /\ "mount" \in Failing
                /\ Plain(c)
                /\ stuck' = IF Block THEN stuck \cup {v} ELSE stuck
  /\ UNCHANGED <<layers, upper, saved, crashes, written, damaged>>

\* Create of X goes on without the mutex: overlay makes the layer. If it cannot, the
\* volume stays mounted.
CreateLayer(c) ==
  /\ phase[c] \in {"overlay", "plain"}
  /\ \/ /\ layers' = layers \cup {<<c, IF phase[c] = "overlay" THEN "volume" ELSE "plain">>}
        /\ upper' = [upper EXCEPT ![c] = {c}]
        /\ Enter(c, IF phase[c] = "overlay" THEN "restore" ELSE "live")
        /\ UNCHANGED stuck
     \/ /\ "overlay" \in Failing
        /\ Enter(c, "failed")
        /\ stuck' = stuck \cup {v \in Volumes : c \in paths[v]}
        /\ UNCHANGED <<layers, upper>>
  /\ UNCHANGED <<entry, saved, paths, attached, crashes, written, damaged>>

\* The end of Create of X: the saved upper directory replaces the one of the layer, to
\* which the container adds. The new upper directory is removed even if the saved one
\* then cannot be moved.
RestoreUpper(c) ==
  /\ phase[c] = "restore"
  /\ LET v == entry[c].vol
     IN  \/ saved[v] = None /\ Enter(c, "live") /\ UNCHANGED <<upper, saved, stuck>>
         \/ /\ saved[v] # None
            /\ upper' = [upper EXCEPT ![c] = {c} \cup saved[v]]
            /\ saved' = [saved EXCEPT ![v] = None]
            /\ Enter(c, "live")
            /\ UNCHANGED stuck
         \/ /\ saved[v] # None /\ "rename" \in Failing
            /\ upper' = [upper EXCEPT ![c] = {}]
            /\ Enter(c, "failed")
            /\ stuck' = stuck \cup {v}
            /\ UNCHANGED saved
  /\ UNCHANGED <<entry, layers, paths, attached, crashes, written, damaged>>

-----------------------------------------------------------------------------
\* Remove of a layer that has no entry.
RemovePlain(c) ==
  /\ layers' = layers \ {<<c, "plain">>}
  /\ upper' = [upper EXCEPT ![c] = IF <<c, "plain">> \in layers THEN {} ELSE @]
  /\ UNCHANGED <<entry, saved, paths, attached, written, damaged, stuck>>

\* Mutant: the layer is removed before its upper directory is saved.
NothingLeft(c) == {}

SavedUpper(c) == upper[c]

\* Remove of a layer on a volume, under the mutex: the upper directory is saved, the
\* layer removed, the volume unmounted and detached. Errors are ignored; the path is
\* removed with all that is below it, which is the volume if it is still mounted.
RemoveFromVolume(c) ==
  LET v == entry[c].vol
  IN  \E renamed, unmounted, detached \in BOOLEAN :
        /\ renamed \/ "rename" \in Failing
        /\ unmounted \/ "unmount" \in Failing
        /\ detached \/ "detach" \in Failing
        /\ saved' = [saved EXCEPT ![v] = IF ~ unmounted THEN None
                                         ELSE IF renamed THEN SavedUpper(c) ELSE @]
        /\ layers' = layers \ {<<c, "volume">>}
        /\ upper' = [upper EXCEPT ![c] = {}]
        /\ paths' = [paths EXCEPT ![v] = IF unmounted THEN @ \ {c} ELSE @]
        /\ attached' = IF Block /\ detached THEN attached \ {v} ELSE attached
        /\ Drop(c)
        /\ written' = [written EXCEPT ![v] = @ \cup {c}]
        /\ damaged' = IF renamed /\ unmounted THEN damaged ELSE damaged \cup {v}
        /\ stuck' = IF unmounted /\ (detached \/ ~ Block) THEN stuck ELSE stuck \cup {v}

\* Remove of X.
Remove(c) ==
  /\ phase[c] = "live"
  /\ IF ~ HasEntry(c) THEN RemovePlain(c)
     ELSE IF entry[c].ref = 1 THEN RemoveFromVolume(c)
     ELSE /\ entry' = [entry EXCEPT ![c].ref = @ - 1]
          /\ UNCHANGED <<layers, upper, saved, paths, attached, written, damaged, stuck>>
  /\ Enter(c, "removed")
  /\ UNCHANGED crashes

\* Remove of X-init: an entry for X that is gone comes back, for good.
RemoveInit(c) ==
  /\ phase[c] = "removed"
  /\ IsLayer0Init(c)
  /\ layers' = layers \ {<<c, "init">>}
  /\ Enter(c, "gone")
  /\ UNCHANGED <<upper, saved, paths, attached, crashes, written, damaged, stuck>>

\* The process stops. The map is lost, and Docker gives up the containers it was
\* creating; the volumes stay mounted.
Crash ==
  /\ crashes < MaxCrashes
  /\ crashes' = crashes + 1
  /\ entry' = [c \in Containers |-> None]
  /\ phase' = [c \in Containers |->
                 IF phase[c] \in {"init", "overlay", "plain", "restore"}
                 THEN "failed" ELSE phase[c]]
  /\ stuck' = stuck \cup {v \in Volumes : paths[v] # {}}
  /\ UNCHANGED <<layers, upper, saved, paths, attached, written, damaged>>

Init ==
  /\ entry = [c \in Containers |-> None]
  /\ layers = {}
  /\ upper = [c \in Containers |-> {}]
  /\ saved = [v \in Volumes |-> None]
  /\ paths = [v \in Volumes |-> {}]
  /\ attached = {}
  /\ phase = [c \in Containers |-> "new"]
  /\ crashes = 0
  /\ written = [v \in Volumes |-> {}]
  /\ damaged = {} /\ stuck = {}

Next ==
  \/ \E c \in Containers : CreateInit(c) \/ Create(c) \/ CreateLayer(c) \/ RestoreUpper(c)
                           \/ Remove(c) \/ RemoveInit(c)
  \/ Crash

Spec == Init /\ [][Next]_vars

-----------------------------------------------------------------------------
(* Properties                                                              *)

\* Every variable has its type: the maps of the driver, the layers on disk and the volumes
\* of the volume driver.
TypeOK ==
  /\ entry \in [Containers -> Entries \cup {None}]
  /\ layers \in SUBSET (Containers \X Places)
  /\ upper \in [Containers -> SUBSET Containers]
  /\ saved \in [Volumes -> (SUBSET Containers) \cup {None}]
  /\ paths \in [Volumes -> SUBSET Containers]
  /\ attached \in SUBSET Volumes
  /\ phase \in [Containers -> Phases]
  /\ crashes \in 0 .. MaxCrashes
  /\ written \in [Volumes -> SUBSET Containers]
  /\ damaged \in SUBSET Volumes /\ stuck \in SUBSET Volumes

\* The containers whose entry names the volume.
OnVolume(v) == {c \in Containers : HasEntry(c) /\ entry[c].vol = v}

\* A volume is mounted for one container at most, and for the one whose entry names it;
\* what is not in use is neither mounted nor attached, unless it was left so by a failure
\* or a crash.
VolumesExclusive ==
  \A v \in Volumes :
    /\ \A c \in OnVolume(v) : paths[v] = {c}
    /\ OnVolume(v) = {} => v \in stuck \/ (paths[v] = {} /\ v \notin attached)

\* The layer of a live container is where realID looks for it, unless the map that
\* says that it is on a volume was lost with the process.
LayerIsFound ==
  \A c \in Containers :
    phase[c] = "live" => RealID(c) \in layers \/ (crashes > 0 /\ <<c, "volume">> \in layers)

\* What the containers of a volume have written is kept on it when they are removed and
\* is there for the next container, unless a rename or an unmount failed at a removal.
WritesSurvive ==
  \A v \in Volumes \ damaged :
    /\ \A c \in OnVolume(v) : phase[c] = "live" => written[v] \cup {c} \subseteq upper[c]
    /\ \A w \in written[v] :
         \/ saved[v] # None /\ w \in saved[v]
         \/ \E c \in paths[v] : w \in upper[c]

=============================================================================
