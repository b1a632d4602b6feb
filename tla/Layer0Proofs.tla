---------------------------- MODULE Layer0Proofs ----------------------------
(***************************************************************************)
(* What Layer0 guarantees for any number of containers, volumes, images    *)
(* and crashes, whatever fails:                                            *)
(*   TypeCorrect          TypeOK is an invariant;                          *)
(*   VolumesAreExclusive  no two containers have a volume at one time;     *)
(*   LayersAreFound       a live layer is where realID looks for it;       *)
(*   WritesAreKept        what was written survives the container.         *)
(*                                                                         *)
(* Every step but a crash is one of a container, which leaves the others   *)
(* as they are (Frame). So the invariant has a part for each container     *)
(* (Own), which its own steps preserve, and two for each volume.           *)
(***************************************************************************)
EXTENDS Layer0, TLAPS

Step(c) ==
  CreateInit(c) \/ Create(c) \/ CreateLayer(c) \/ RestoreUpper(c) \/ Remove(c) \/ RemoveInit(c)

\* The container uses the volume.
On(c, v) == HasEntry(c) /\ entry[c].vol = v

\* What a container's phase says of its entry, its layer and its volume.
Own(c) ==
  /\ phase[c] \in {"new", "plain", "removed"} => ~ HasEntry(c)
  /\ phase[c] = "init" => On(c, None)
  /\ phase[c] \in {"overlay", "restore"} => HasEntry(c)
  /\ phase[c] \in {"overlay", "restore", "live"} /\ HasEntry(c) => entry[c].vol \in Volumes
  /\ HasEntry(c) /\ entry[c].vol \in Volumes => entry[c].ref = 1
  /\ phase[c] \in {"new", "init", "overlay", "plain"} => upper[c] = {}
  /\ phase[c] \in {"new", "init", "overlay", "plain", "restore"} => <<c, "plain">> \notin layers
  /\ phase[c] = "restore" => upper[c] = {c} /\ <<c, "volume">> \in layers
  /\ phase[c] = "live" => RealID(c) \in layers \/ (crashes > 0 /\ <<c, "volume">> \in layers)
  /\ phase[c] \in {"new", "init", "plain"} \/ <<c, "plain">> \in layers
       => \A v \in Volumes : c \notin paths[v]
  /\ \A v, w \in Volumes : c \in paths[v] /\ c \in paths[w] => v = w
  /\ \A v \in Volumes : c \in written[v] => phase[c] \in {"removed", "gone"}

\* create has mounted the volume for the container.
Takes(c, v) ==
  /\ IsFree(v)
  /\ attached' = IF Block THEN attached \cup {v} ELSE attached
  /\ paths' = [paths EXCEPT ![v] = {c}]
  /\ entry' = [entry EXCEPT ![c] = entry'[c]]
  /\ entry'[c] \in Entries /\ entry'[c].vol = v /\ entry'[c].ref = 1
  /\ Enter(c, "overlay")
  /\ UNCHANGED stuck

\* create has not; a volume that was attached in vain stays so.
TakesNone(c) ==
  /\ Drop(c) /\ Enter(c, "plain") /\ UNCHANGED paths
  /\ stuck \subseteq stuck' /\ attached \subseteq attached' /\ attached' \subseteq attached \cup stuck'
  /\ stuck' \subseteq Volumes

\* The step leaves the container as it is.
Same(c) ==
  /\ phase'[c] = phase[c] /\ entry'[c] = entry[c] /\ upper'[c] = upper[c]
  /\ \A place \in Places : <<c, place>> \in layers' <=> <<c, place>> \in layers
  /\ \A v \in Volumes : c \in paths'[v] <=> c \in paths[v]
  /\ \A v \in Volumes : c \in written'[v] <=> c \in written[v]

\* Every step is one of a container, a crash or nothing.
LEMMA Steps ==
  [Next]_vars => (\E c \in Containers : Step(c)) \/ Crash \/ UNCHANGED vars
  BY DEF Next, Step

\* An entry is a record and None is not.
LEMMA EntryFields ==
  ASSUME NEW e \in Entries
  PROVE  /\ e # None /\ e.parent \in Images \cup {None} /\ e.vol \in Volumes \cup {None}
         /\ e.ref \in -1 .. 1 /\ e = [parent |-> e.parent, vol |-> e.vol, ref |-> e.ref]
  BY LayerAssumption DEF Entries

\* A record with fields of the right types is an entry.
LEMMA NewEntry ==
  ASSUME NEW p \in Images \cup {None}, NEW v \in Volumes \cup {None}, NEW r \in -1 .. 1
  PROVE  /\ [parent |-> p, vol |-> v, ref |-> r] \in Entries
         /\ [parent |-> p, vol |-> v, ref |-> r] # None
  BY LayerAssumption DEF Entries

\* create takes one free volume or none.
LEMMA CreateCases ==
  ASSUME TypeOK, NEW c \in Containers, Create(c)
  PROVE  /\ phase[c] = "init" /\ entry[c] \in Entries /\ HasEntry(c)
         /\ TakesNone(c) \/ \E v \in Volumes : Takes(c, v)
         /\ UNCHANGED <<layers, upper, saved, crashes, written, damaged>>
<1>1. /\ phase[c] = "init" /\ entry[c] \in Entries /\ HasEntry(c)
      /\ UNCHANGED <<layers, upper, saved, crashes, written, damaged>>
      BY DEF Create, HasEntry, TypeOK
<1>2. CASE Plain(c) /\ UNCHANGED <<attached, stuck>>
      BY <1>1, <1>2 DEF TakesNone, Plain, GivesUp, TypeOK
<1>3. ASSUME NEW v \in Volumes, Plain(c), attached' = IF Block THEN attached \cup {v} ELSE attached,
             stuck' = IF Block THEN stuck \cup {v} ELSE stuck
      PROVE  TakesNone(c)
      BY <1>3 DEF TakesNone, Plain, GivesUp, TypeOK
<1>4. ASSUME NEW v \in Volumes, IsFree(v), 
             attached' = IF Block THEN attached \cup {v} ELSE attached,
             paths' = [paths EXCEPT ![v] = @ \cup {c}],
             entry' = [entry EXCEPT ![c].vol = v, ![c].ref = FirstRef(c)],
             Enter(c, "overlay"), UNCHANGED stuck
      PROVE  Takes(c, v)
  <2>1. paths' = [paths EXCEPT ![v] = {c}]
        BY <1>4 DEF IsFree, TypeOK
  <2>2. entry'[c] = [entry[c] EXCEPT !.vol = v, !.ref = 1] /\ entry' = [entry EXCEPT ![c] = entry'[c]]
        BY <1>1, <1>4, Zenon DEF FirstRef, TypeOK
  <2>4. entry'[c] \in Entries /\ entry'[c].vol = v /\ entry'[c].ref = 1
    <3>1. ASSUME NEW e \in Entries, e = entry[c], NEW f, f = entry'[c]
          PROVE  f \in Entries /\ f.vol = v /\ f.ref = 1
      <4>1. f = [e EXCEPT !.vol = v, !.ref = 1]
            BY <2>2, <3>1
      <4>2. f = [parent |-> e.parent, vol |-> v, ref |-> 1]
            BY <3>1, <4>1, Zenon DEF Entries
      <4>3. e.parent \in Images \cup {None} /\ v \in Volumes \cup {None} /\ 1 \in -1 .. 1
            BY <3>1, <1>4, EntryFields
      <4>4. f \in Entries
            BY <4>2, <4>3, NewEntry, ZenonT(30)
      <4>5. QED
            BY <4>2, <4>4
    <3>2. QED
          BY <1>1, <3>1, Zenon
  <2>3. QED
        BY <1>4, <2>1, <2>2, <2>4, Zenon DEF Takes
<1>5. QED
      BY <1>1, <1>2, <1>3, <1>4, Zenon DEF Create, Candidates

\* Only the container of a step changes.
LEMMA Frame ==
  ASSUME TypeOK, NEW c \in Containers, Step(c), NEW d \in Containers, d # c
  PROVE  Same(d) /\ crashes' = crashes
<1>1. CASE CreateInit(c)
      BY <1>1 DEF CreateInit, Enter, Same, TypeOK
<1>2. CASE Create(c)
  <2>1. CASE TakesNone(c)
        BY <1>2, <2>1, CreateCases, Zenon DEF TakesNone, Drop, Enter, Same, TypeOK
  <2>2. ASSUME NEW v \in Volumes, Takes(c, v)
        PROVE  Same(d)
        BY <1>2, <2>2, CreateCases DEF Takes, IsFree, Enter, Same, TypeOK
  <2>3. QED
        BY <1>2, <2>1, <2>2, CreateCases
<1>3. CASE CreateLayer(c)
      BY <1>3 DEF CreateLayer, Enter, Same, TypeOK
<1>4. CASE RestoreUpper(c)
      BY <1>4, SMTT(60) DEF RestoreUpper, Enter, Same, TypeOK
<1>5. CASE Remove(c)
  <2>1. phase'[d] = phase[d] /\ crashes' = crashes
        BY <1>5, Zenon DEF Remove, Enter, TypeOK
  <2>2. CASE RemovePlain(c)
        BY <2>1, <2>2, SMTT(60) DEF RemovePlain, Same, TypeOK
  <2>3. CASE RemoveFromVolume(c)
    <3>1. entry'[d] = entry[d] /\ upper'[d] = upper[d] /\ layers' = layers \ {<<c, "volume">>}
          BY <2>3, Zenon DEF RemoveFromVolume, Drop, TypeOK
    <3>2. \A v \in Volumes : (d \in paths'[v] <=> d \in paths[v]) /\ (d \in written'[v] <=> d \in written[v])
          BY <2>3, SMTT(60) DEF RemoveFromVolume, TypeOK
    <3>3. QED
          BY <2>1, <3>1, <3>2, SMTT(60) DEF Same
  <2>4. CASE entry' = [entry EXCEPT ![c].ref = @ - 1] /\ UNCHANGED <<layers, upper, paths, written>>
        BY <2>1, <2>4, SMTT(60) DEF Same, TypeOK
  <2>5. QED
        BY <1>5, <2>2, <2>3, <2>4, Zenon DEF Remove
<1>6. CASE RemoveInit(c)
      BY <1>6 DEF RemoveInit, IsLayer0Init, Enter, Same, TypeOK
<1>7. QED
      BY <1>1, <1>2, <1>3, <1>4, <1>5, <1>6 DEF Step

\* What is left alone keeps its part of the invariant.
LEMMA SameOwn ==
  ASSUME NEW c \in Containers, Own(c), Same(c), crashes' = crashes
  PROVE  Own(c)'
  BY DEF Own, Same, On, HasEntry, RealID, Places

\* Create of X-init: the layer comes later, the volume too.
LEMMA OwnCreateInit ==
  ASSUME TypeOK, NEW c \in Containers, Own(c), CreateInit(c)
  PROVE  Own(c)'
<1>1. entry'[c] # None /\ entry'[c].vol = None
  <2>1. Image(c) \in Images \cup {None} /\ None \in Volumes \cup {None} /\ 0 \in -1 .. 1
        BY LayerAssumption
  <2>2. entry'[c] = [parent |-> Image(c), vol |-> None, ref |-> 0]
        BY DEF CreateInit, TypeOK
  <2>3. entry'[c] \in Entries
        BY <2>1, <2>2, NewEntry, Zenon
  <2>4. QED
        BY <2>2, <2>3, EntryFields
<1>2. QED
      BY <1>1, LayerAssumption DEF CreateInit, Enter, Own, On, HasEntry, RealID, TypeOK

\* create: an entry with a volume and one reference, or no entry.
LEMMA OwnCreate ==
  ASSUME TypeOK, NEW c \in Containers, Own(c), Create(c)
  PROVE  Own(c)'
<1>1. CASE TakesNone(c)
      BY <1>1, CreateCases, ZenonT(60) DEF TakesNone, Drop, Enter, Own, On, HasEntry, RealID, TypeOK
<1>2. ASSUME NEW v \in Volumes, Takes(c, v)
      PROVE  Own(c)'
  <2>1. entry'[c] # None /\ entry'[c].vol = v /\ entry'[c].ref = 1 /\ phase'[c] = "overlay"
        BY <1>2, EntryFields DEF Takes, Enter, TypeOK
  <2>2. \A w \in Volumes : c \in paths'[w] => w = v
        BY <1>2, CreateCases DEF Takes, Own, TypeOK
  <2>3. QED
        BY <2>1, <2>2, CreateCases DEF Own, On, HasEntry, RealID, TypeOK
<1>3. QED
      BY <1>1, <1>2, CreateCases

\* The layer is made where realID looks for it.
LEMMA OwnCreateLayer ==
  ASSUME TypeOK, NEW c \in Containers, Own(c), CreateLayer(c)
  PROVE  Own(c)'
  BY DEF CreateLayer, Enter, Own, On, HasEntry, RealID, TypeOK

\* Replacing the upper directory leaves the layer in place.
LEMMA OwnRestoreUpper ==
  ASSUME TypeOK, NEW c \in Containers, Own(c), RestoreUpper(c)
  PROVE  Own(c)'
  BY DEF RestoreUpper, Enter, Own, On, HasEntry, RealID, TypeOK

\* Remove drops the entry of a layer on a volume.
LEMMA OwnRemove ==
  ASSUME TypeOK, NEW c \in Containers, Own(c), Remove(c)
  PROVE  Own(c)'
<1>1. CASE ~ HasEntry(c)
      BY <1>1 DEF Remove, RemovePlain, Enter, Own, On, HasEntry, RealID, TypeOK
<1>2. CASE HasEntry(c)
  <2>1. phase'[c] = "removed" /\ RemoveFromVolume(c)
    <3>1. phase[c] = "live" /\ entry[c].ref = 1
          BY <1>2, Zenon DEF Remove, Own, HasEntry
    <3>2. QED
          BY <1>2, <3>1 DEF Remove, Enter, TypeOK
  <2>2. entry'[c] = None /\ layers' \subseteq layers
        BY <2>1, SMTT(60) DEF RemoveFromVolume, Drop, TypeOK
  <2>3. \A v \in Volumes : paths'[v] \subseteq paths[v]
        BY <2>1, SMTT(60) DEF RemoveFromVolume, TypeOK
  <2>4. QED
        BY <2>1, <2>2, <2>3 DEF Own, On, HasEntry, RealID
<1>3. QED
      BY <1>1, <1>2

\* Remove of X-init adds an entry that names no volume.
LEMMA OwnRemoveInit ==
  ASSUME TypeOK, NEW c \in Containers, Own(c), RemoveInit(c)
  PROVE  Own(c)'
<1>1. entry'[c] # None /\ entry'[c].vol = None
  <2>1. None \in Images \cup {None} /\ None \in Volumes \cup {None} /\ 0 \in -1 .. 1
        BY SMTT(60)
  <2>2. entry'[c] = [parent |-> None, vol |-> None, ref |-> 0]
        BY DEF RemoveInit, IsLayer0Init, Own, HasEntry, TypeOK
  <2>3. entry'[c] \in Entries
        BY <2>1, <2>2, NewEntry, Zenon
  <2>4. QED
        BY <2>2, <2>3, EntryFields
<1>2. QED
      BY <1>1, LayerAssumption DEF RemoveInit, Enter, Own, On, HasEntry, RealID, TypeOK

\* A crash drops every entry and ends every creation.
LEMMA OwnCrash ==
  ASSUME TypeOK, NEW c \in Containers, Own(c), Crash
  PROVE  Own(c)'
  BY LayerAssumption, SMTT(60) DEF Crash, Own, On, HasEntry, RealID, TypeOK

\* Each step preserves the part of each container.
LEMMA OwnStep ==
  ASSUME TypeOK, \A c \in Containers : Own(c), [Next]_vars, NEW d \in Containers
  PROVE  Own(d)'
<1>1. ASSUME NEW c \in Containers, Step(c)
      PROVE  Own(d)'
  <2>1. CASE d = c
        BY <1>1, <2>1, OwnCreateInit, OwnCreate, OwnCreateLayer, OwnRestoreUpper, OwnRemove,
           OwnRemoveInit DEF Step
  <2>2. CASE d # c
        BY <1>1, <2>2, Frame, SameOwn
  <2>3. QED
        BY <2>1, <2>2
<1>2. CASE UNCHANGED vars
      BY <1>2, SameOwn DEF vars, Same
<1>3. QED
      BY <1>1, <1>2, OwnCrash, Steps

-----------------------------------------------------------------------------
(* Types.                                                                  *)

\* Every step preserves the types; that a removal never decrements a count needs Own.
LEMMA TypeStep ==
  ASSUME TypeOK, \A c \in Containers : Own(c), [Next]_vars
  PROVE  TypeOK'
<1>1. ASSUME NEW c \in Containers, CreateInit(c)
      PROVE  TypeOK'
  <2>1. [parent |-> Image(c), vol |-> None, ref |-> 0] \in Entries
        BY LayerAssumption, SMTT(60) DEF Entries
  <2>2. QED
        BY <1>1, <2>1, SMTT(60) DEF CreateInit, Enter, TypeOK, Phases, Places
<1>2. ASSUME NEW c \in Containers, Create(c)
      PROVE  TypeOK'
  <2>1. CASE TakesNone(c)
        BY <1>2, <2>1, CreateCases, ZenonT(60) DEF TakesNone, Drop, Enter, TypeOK, Phases
  <2>2. ASSUME NEW v \in Volumes, Takes(c, v)
        PROVE  TypeOK'
        BY <1>2, <2>2, CreateCases, SMTT(60) DEF Takes, Enter, TypeOK, Phases
  <2>3. QED
        BY <1>2, <2>1, <2>2, CreateCases
<1>3. ASSUME NEW c \in Containers, CreateLayer(c)
      PROVE  TypeOK'
      BY <1>3, SMTT(60) DEF CreateLayer, Enter, TypeOK, Phases, Places
<1>4. ASSUME NEW c \in Containers, RestoreUpper(c)
      PROVE  TypeOK'
  <2>1. entry[c].vol \in Volumes
        BY <1>4, Zenon DEF RestoreUpper, Own, HasEntry
  <2>2. QED
        BY <1>4, <2>1, SMTT(60) DEF RestoreUpper, Enter, TypeOK, Phases
<1>5. ASSUME NEW c \in Containers, Remove(c)
      PROVE  TypeOK'
  <2>1. CASE ~ HasEntry(c)
        BY <1>5, <2>1, SMTT(60) DEF Remove, RemovePlain, Enter, TypeOK, Phases
  <2>2. CASE HasEntry(c)
    <3>1. entry[c].vol \in Volumes /\ entry[c].ref = 1
          BY <1>5, <2>2, Zenon DEF Remove, Own, HasEntry
    <3>2. QED
          BY <1>5, <2>2, <3>1, SMTT(60) DEF Remove, RemoveFromVolume, SavedUpper, Drop, Enter, TypeOK, Phases
  <2>3. QED
        BY <2>1, <2>2
<1>6. ASSUME NEW c \in Containers, RemoveInit(c)
      PROVE  TypeOK'
  <2>1. [parent |-> None, vol |-> None, ref |-> 0] \in Entries
        BY DEF Entries
  <2>2. QED
        BY <1>6, <2>1, Zenon DEF RemoveInit, IsLayer0Init, Enter, TypeOK, Phases
<1>7. CASE Crash
      BY <1>7, LayerAssumption DEF Crash, TypeOK, Phases
<1>8. CASE UNCHANGED vars
      BY <1>8 DEF vars, TypeOK
<1>9. QED
      BY <1>1, <1>2, <1>3, <1>4, <1>5, <1>6, <1>7, <1>8, Steps, SMTT(60) DEF Step

-----------------------------------------------------------------------------
(* Volumes.                                                                *)

\* Only block devices are attached.
OnlyBlock == ~ Block => attached = {}

\* VolumesExclusive and WritesSurvive for one volume.
Exclusive(v) ==
  /\ \A c \in Containers : On(c, v) => paths[v] = {c}
  /\ (\A c \in Containers : ~ On(c, v)) => v \in stuck \/ (paths[v] = {} /\ v \notin attached)
Kept(v) ==
  /\ \A c \in Containers : On(c, v) /\ phase[c] = "live" => written[v] \cup {c} \subseteq upper[c]
  /\ \A w \in written[v] : \/ saved[v] # None /\ w \in saved[v]
                           \/ \E c \in paths[v] : w \in upper[c]

\* The two properties are those of each volume.
LEMMA PerVolume ==
  /\ VolumesExclusive <=> \A v \in Volumes : Exclusive(v)
  /\ WritesSurvive <=> \A v \in Volumes \ damaged : Kept(v)
<1>1. VolumesExclusive <=> \A v \in Volumes : Exclusive(v)
  <2>1. \A v, c : c \in OnVolume(v) <=> c \in Containers /\ On(c, v)
        BY DEF OnVolume, On
  <2>2. \A v : OnVolume(v) = {} <=> \A c \in Containers : ~ On(c, v)
        BY <2>1
  <2>3. QED
        BY <2>1, <2>2, Zenon DEF VolumesExclusive, Exclusive
<1>2. WritesSurvive <=> \A v \in Volumes \ damaged : Kept(v)
      BY ZenonT(60)  DEF WritesSurvive, Kept, OnVolume, On
<1>3. QED
      BY <1>1, <1>2

\* A step of a container that does not use the volume, before or after it.
Apart(c, v) ==
  /\ ~ On(c, v) /\ ~ On(c, v)'
  /\ paths'[v] = paths[v]
  /\ c \in paths[v] => upper[c] \subseteq upper'[c]
  /\ v \in attached' => v \in attached \/ v \in stuck'
  /\ stuck \subseteq stuck'
  /\ saved'[v] = saved[v] /\ written'[v] = written[v]
  /\ damaged \subseteq damaged'

\* Such a step leaves the volume to whom it belongs.
LEMMA ApartExclusive ==
  ASSUME TypeOK, NEW c \in Containers, Step(c), NEW v \in Volumes, Apart(c, v), Exclusive(v)
  PROVE  Exclusive(v)'
<1>1. \A d \in Containers : On(d, v)' <=> On(d, v)
      BY Frame, SMTT(60) DEF Apart, Same, On, HasEntry
<1>2. QED
      BY <1>1, Zenon DEF Apart, Exclusive

\* Such a step leaves what was written on the volume.
LEMMA ApartKept ==
  ASSUME TypeOK, NEW c \in Containers, Step(c), NEW v \in Volumes, Apart(c, v), Kept(v)
  PROVE  Kept(v)'
<1>1. \A d \in Containers : On(d, v)' => d # c /\ On(d, v) /\ phase'[d] = phase[d] /\ upper'[d] = upper[d]
      BY Frame, SMTT(60) DEF Apart, Same, On, HasEntry
<1>2. \A d \in paths[v] : upper[d] \subseteq upper'[d]
      BY Frame, ZenonT(60) DEF Apart, Same, TypeOK
<1>3. QED
      BY <1>1, <1>2, SMTT(60) DEF Apart, Kept

\* The volume that a step of a container touches, if it is not a Create, is the one of
\* its entry.
LEMMA OthersApart ==
  ASSUME TypeOK, NEW c \in Containers, Own(c), Own(c)', NEW v \in Volumes,
         \A w \in Volumes : Exclusive(w),
         \/ CreateInit(c)
         \/ RemoveInit(c)
         \/ Create(c) /\ ~ Takes(c, v)
         \/ CreateLayer(c) /\ ~ On(c, v)
         \/ RestoreUpper(c) /\ ~ On(c, v)
         \/ Remove(c) /\ ~ On(c, v)
  PROVE  Apart(c, v)
<1>a. v # None /\ (phase[c] \in {"new", "init", "removed"} => ~ On(c, v))
      BY LayerAssumption, Zenon DEF Own, On
<1>1. CASE CreateInit(c)
  <2>1. ~ On(c, v) /\ ~ On(c, v)'
    <3>1. phase[c] = "new" /\ entry'[c] = [parent |-> Image(c), vol |-> None, ref |-> 0]
          BY <1>1, Zenon DEF CreateInit, TypeOK
    <3>2. QED
          BY <1>a, <3>1 DEF On
  <2>2. QED
        BY <1>1, <2>1, Zenon DEF CreateInit, Apart
<1>2. CASE RemoveInit(c)
  <2>1. ~ On(c, v) /\ ~ On(c, v)'
    <3>1. phase[c] = "removed" /\ ~ HasEntry(c) /\ entry'[c] = [parent |-> None, vol |-> None, ref |-> 0]
          BY <1>2, Zenon DEF RemoveInit, IsLayer0Init, Own, HasEntry, TypeOK
    <3>2. QED
          BY <1>a, <3>1 DEF On
  <2>2. QED
        BY <1>2, <2>1, ZenonT(60) DEF RemoveInit, Apart
<1>3. CASE Create(c) /\ ~ Takes(c, v)
  <2>1. CASE TakesNone(c)
    <3>1. ~ On(c, v) /\ ~ On(c, v)'
      <4>1. phase[c] = "init" /\ entry'[c] = None
            BY <1>3, <2>1, CreateCases, Zenon DEF TakesNone, Drop, TypeOK
      <4>2. QED
            BY <1>a, <4>1, Zenon DEF On, HasEntry
    <3>2. QED
          BY <1>3, <2>1, <3>1, CreateCases, Zenon DEF TakesNone, Apart
  <2>2. ASSUME NEW w \in Volumes, Takes(c, w)
        PROVE  Apart(c, v)
    <3>1. v # w
          BY <1>3, <2>2, SMTT(60)
    <3>2. ~ On(c, v) /\ ~ On(c, v)'
      <4>1. phase[c] = "init" /\ entry'[c].vol = w
            BY <1>3, <2>2, CreateCases, Zenon DEF Takes
      <4>2. QED
            BY <1>a, <3>1, <4>1, Zenon DEF On
    <3>3. QED
          BY <1>3, <2>2, <3>1, <3>2, CreateCases, Zenon DEF Takes, Apart, TypeOK
  <2>3. QED
        BY <1>3, <2>1, <2>2, CreateCases, ZenonT(60)
<1>4. CASE CreateLayer(c) /\ ~ On(c, v)
      BY <1>4, ZenonT(60) DEF CreateLayer, Own, On, HasEntry, Apart, TypeOK
<1>5. CASE RestoreUpper(c) /\ ~ On(c, v)
  <2>1. entry[c].vol \in Volumes /\ On(c, entry[c].vol) /\ entry[c].vol # v
        BY <1>5, ZenonT(60) DEF RestoreUpper, Own, On, HasEntry
  <2>2. c \notin paths[v]
        BY <2>1, SMTT(60) DEF Exclusive, Own
  <2>3. QED
        BY <1>5, <2>1, <2>2, Zenon DEF RestoreUpper, On, HasEntry, Apart, TypeOK
<1>6. CASE Remove(c) /\ ~ On(c, v)
  <2>1. CASE ~ HasEntry(c)
        BY <1>6, <2>1, SMTT(60) DEF Remove, RemovePlain, Own, On, HasEntry, Apart, TypeOK
  <2>2. CASE HasEntry(c)
    <3>1. entry[c].vol \in Volumes /\ On(c, entry[c].vol) /\ entry[c].vol # v /\ entry[c].ref = 1
          BY <1>6, <2>2, ZenonT(60) DEF Remove, Own, On, HasEntry
    <3>2. c \notin paths[v]
          BY <3>1 DEF Exclusive, Own
    <3>3. QED
          BY <1>6, <2>2, <3>1, <3>2 DEF Remove, RemoveFromVolume, Drop, On, HasEntry, Apart, TypeOK
  <2>3. QED
        BY <2>1, <2>2, SMTT(60)
<1>7. QED
      BY <1>1, <1>2, <1>3, <1>4, <1>5, <1>6, SMTT(60)

\* create mounts a volume that nobody has; what is saved on it stays so.
LEMMA CreateOn ==
  ASSUME TypeOK, NEW c \in Containers, Own(c), Create(c), NEW v \in Volumes, Takes(c, v),
         Exclusive(v)
  PROVE  Exclusive(v)' /\ (Kept(v) => Kept(v)')
<1>1. entry'[c] # None /\ entry'[c].vol = v /\ phase'[c] = "overlay" /\ paths[v] = {} /\ paths'[v] = {c}
      BY EntryFields, SMTT(60) DEF Takes, Enter, IsFree, TypeOK
<1>2. \A d \in Containers \ {c} : ~ On(d, v) /\ ~ On(d, v)'
  <2>1. \A d \in Containers : ~ On(d, v)
        BY <1>1, Zenon DEF Exclusive
  <2>2. QED
        BY <2>1, Frame, Zenon DEF Step, Same, On, HasEntry
<1>3. Exclusive(v)'
      BY <1>1, <1>2, SMTT(60) DEF Exclusive, On, HasEntry
<1>4. ASSUME Kept(v)
      PROVE  Kept(v)'
      BY <1>1, <1>2, <1>4, CreateCases, Zenon DEF Kept
<1>5. QED
      BY <1>3, <1>4, SMTT(60)

\* A new layer on a volume hides nothing that was saved.
LEMMA CreateLayerOn ==
  ASSUME TypeOK, NEW c \in Containers, Own(c), CreateLayer(c), NEW v \in Volumes, On(c, v),
         Exclusive(v)
  PROVE  Exclusive(v)' /\ (Kept(v) => Kept(v)')
<1>1. phase[c] = "overlay" /\ phase'[c] # "live" /\ upper[c] = {} /\ paths[v] = {c}
      BY SMTT(60) DEF CreateLayer, Enter, Own, On, HasEntry, Exclusive, TypeOK
<1>2. \A d \in Containers \ {c} : ~ On(d, v)
      BY <1>1, SMTT(60) DEF Exclusive
<1>3. Exclusive(v)'
      BY <1>1, <1>2, SMTT(60) DEF CreateLayer, Exclusive, On, HasEntry
<1>4. ASSUME Kept(v)
      PROVE  Kept(v)'
      BY <1>1, <1>2, <1>4, SMTT(60) DEF CreateLayer, Kept, On, HasEntry
<1>5. QED
      BY <1>3, <1>4, SMTT(60)

\* The saved directory moves to the layer as a whole.
LEMMA RestoreUpperOn ==
  ASSUME TypeOK, NEW c \in Containers, Own(c), RestoreUpper(c), NEW v \in Volumes, On(c, v),
         Exclusive(v)
  PROVE  Exclusive(v)' /\ (Kept(v) => Kept(v)')
<1>1. entry[c].vol = v /\ phase[c] = "restore" /\ upper[c] = {c} /\ paths[v] = {c} /\ c \notin written[v]
      BY Zenon  DEF RestoreUpper, Own, On, HasEntry, Exclusive
<1>2. \A d \in Containers \ {c} : ~ On(d, v)
      BY <1>1, Zenon DEF Exclusive
<1>3. Exclusive(v)'
      BY <1>1, <1>2, Zenon DEF RestoreUpper, Exclusive, On, HasEntry
<1>4. ASSUME Kept(v)
      PROVE  Kept(v)'
  <2>1. \A w \in written[v] : saved[v] # None /\ w \in saved[v]
        BY <1>1, <1>4, Zenon DEF Kept
  <2>2. QED
        BY <1>1, <1>2, <2>1, SMTT(60) DEF RestoreUpper, Enter, Kept, On, HasEntry, TypeOK
<1>5. QED
      BY <1>3, <1>4

\* The upper directory is saved, unless a failure damages the volume.
LEMMA RemoveOn ==
  ASSUME TypeOK, NEW c \in Containers, Own(c), Remove(c), NEW v \in Volumes, On(c, v),
         Exclusive(v), OnlyBlock
  PROVE  Exclusive(v)' /\ (v \notin damaged' /\ Kept(v) => Kept(v)')
<1>1. /\ entry[c].vol = v /\ phase[c] = "live" /\ paths[v] = {c} /\ HasEntry(c)
      /\ RemoveFromVolume(c)
      BY SMTT(60) DEF Remove, Own, On, HasEntry, Exclusive
<1>2. \A d \in Containers : ~ On(d, v)'
  <2>1. \A d \in Containers \ {c} : ~ On(d, v)
        BY <1>1, Zenon DEF Exclusive
  <2>2. QED
        BY <1>1, <2>1, SMTT(60) DEF RemoveFromVolume, Drop, On, HasEntry, TypeOK
<1>3. Exclusive(v)'
  <2>1. v \in stuck' \/ (paths'[v] = {} /\ v \notin attached')
        BY <1>1, SMTT(60) DEF RemoveFromVolume, OnlyBlock, TypeOK
  <2>2. QED
        BY <1>2, <2>1, ZenonT(60) DEF Exclusive
<1>4. ASSUME v \notin damaged', Kept(v)
      PROVE  Kept(v)'
  <2>1. written[v] \cup {c} \subseteq upper[c]
        BY <1>1, <1>4, SMTT(60) DEF Kept, On
  <2>2. saved'[v] = upper[c] /\ written'[v] = written[v] \cup {c}
        BY <1>1, <1>4, Zenon DEF RemoveFromVolume, SavedUpper, TypeOK
  <2>3. saved'[v] # None
        BY <2>2, LayerAssumption DEF TypeOK
  <2>4. QED
        BY <1>2, <2>1, <2>2, <2>3, ZenonT(60) DEF Kept
<1>5. QED
      BY <1>3, <1>4, SMTT(60)

\* Damage is never forgotten, and nothing but a block device is attached.
LEMMA DamageGrows ==
  ASSUME [Next]_vars
  PROVE  damaged \subseteq damaged' /\ (~ Block => attached' \subseteq attached)
<1>1. ASSUME NEW c \in Containers, CreateInit(c) \/ CreateLayer(c) \/ RestoreUpper(c) \/ RemoveInit(c)
      PROVE  UNCHANGED <<damaged, attached>>
      BY <1>1, Zenon DEF CreateInit, CreateLayer, RestoreUpper, RemoveInit
<1>2. ASSUME NEW c \in Containers, Create(c)
      PROVE  UNCHANGED damaged /\ (~ Block => UNCHANGED attached)
      BY <1>2, Zenon DEF Create
<1>3. ASSUME NEW c \in Containers, Remove(c)
      PROVE  damaged \subseteq damaged' /\ (~ Block => UNCHANGED attached)
      BY <1>3, SMTT(60) DEF Remove, RemovePlain, RemoveFromVolume
<1>4. CASE Crash \/ UNCHANGED vars
      BY <1>4, SMTT(60) DEF Crash, vars
<1>5. QED
      BY <1>1, <1>2, <1>3, <1>4, Steps, SMTT(60) DEF Step

\* Every step of a container preserves the parts of every volume.
LEMMA VolumeSteps ==
  ASSUME TypeOK, NEW c \in Containers, Own(c), Own(c)', Step(c), OnlyBlock,
         \A w \in Volumes : Exclusive(w), NEW v \in Volumes
  PROVE  Exclusive(v)' /\ (v \notin damaged' /\ Kept(v) => Kept(v)')
<1>1. CASE CreateInit(c) \/ RemoveInit(c)
  <2>1. Apart(c, v)
        BY <1>1, OthersApart
  <2>2. QED
        BY <2>1, ApartExclusive, ApartKept
<1>2. CASE Create(c)
  <2>1. CASE Takes(c, v)
        BY <1>2, <2>1, CreateOn, SMTT(60)
  <2>2. CASE ~ Takes(c, v)
        BY <1>2, <2>2, OthersApart, ApartExclusive, ApartKept, SMTT(60)
  <2>3. QED
        BY <2>1, <2>2
<1>3. CASE CreateLayer(c)
  <2>1. CASE On(c, v)
        BY <1>3, <2>1, CreateLayerOn, SMTT(60)
  <2>2. CASE ~ On(c, v)
        BY <1>3, <2>2, OthersApart, ApartExclusive, ApartKept, SMTT(60)
  <2>3. QED
        BY <2>1, <2>2
<1>4. CASE RestoreUpper(c)
  <2>1. CASE On(c, v)
        BY <1>4, <2>1, RestoreUpperOn
  <2>2. CASE ~ On(c, v)
        BY <1>4, <2>2, OthersApart, ApartExclusive, ApartKept
  <2>3. QED
        BY <2>1, <2>2
<1>5. CASE Remove(c)
  <2>1. CASE On(c, v)
        BY <1>5, <2>1, RemoveOn, SMTT(60)
  <2>2. CASE ~ On(c, v)
        BY <1>5, <2>2, OthersApart, ApartExclusive, ApartKept
  <2>3. QED
        BY <2>1, <2>2
<1>6. QED
      BY <1>1, <1>2, <1>3, <1>4, <1>5, SMTT(60) DEF Step

\* A crash leaves the volumes as they are, mounted or saved.
LEMMA VolumeCrash ==
  ASSUME TypeOK, Crash, NEW v \in Volumes, Exclusive(v)
  PROVE  Exclusive(v)' /\ (Kept(v) => Kept(v)')
<1>1. \A c \in Containers : ~ On(c, v)'
      BY Zenon  DEF Crash, On, HasEntry
<1>2. v \in stuck' \/ (paths'[v] = {} /\ v \notin attached')
      BY SMTT(60) DEF Crash, Exclusive
<1>3. Exclusive(v)'
      BY <1>1, <1>2, SMTT(60) DEF Exclusive
<1>4. ASSUME Kept(v)
      PROVE  Kept(v)'
      BY <1>1, <1>4, Zenon DEF Crash, Kept
<1>5. QED
      BY <1>3, <1>4, SMTT(60)

-----------------------------------------------------------------------------
(* The invariant and what follows from it.                                 *)

\* The inductive invariant: types, containers, volumes.
IInv ==
  /\ TypeOK /\ OnlyBlock
  /\ \A c \in Containers : Own(c)
  /\ \A v \in Volumes : Exclusive(v)
  /\ \A v \in Volumes \ damaged : Kept(v)

\* The invariant holds before the first container.
LEMMA InitIInv == Init => IInv
<1> SUFFICES ASSUME Init PROVE IInv
    BY SMTT(60)
<1>1. TypeOK /\ OnlyBlock
      BY LayerAssumption DEF Init, TypeOK, OnlyBlock, Phases
<1>2. \A c \in Containers : Own(c)
      BY Zenon DEF Init, Own, On, HasEntry
<1>3. \A v \in Volumes : Exclusive(v) /\ Kept(v)
      BY SMTT(60) DEF Init, Exclusive, Kept, On, HasEntry
<1>4. QED
      BY <1>1, <1>2, <1>3 DEF IInv

\* Every step preserves the invariant.
LEMMA NextIInv == IInv /\ [Next]_vars => IInv'
<1> SUFFICES ASSUME IInv, [Next]_vars PROVE IInv'
    BY SMTT(60)
<1>1. TypeOK' /\ OnlyBlock' /\ \A c \in Containers : Own(c)'
      BY TypeStep, DamageGrows, OwnStep, SMTT(60) DEF IInv, OnlyBlock
<1>2. ASSUME NEW v \in Volumes
      PROVE  Exclusive(v)' /\ (v \notin damaged' /\ Kept(v) => Kept(v)')
  <2>1. ASSUME NEW c \in Containers, Step(c)
        PROVE  Exclusive(v)' /\ (v \notin damaged' /\ Kept(v) => Kept(v)')
        BY <1>1, <2>1, VolumeSteps DEF IInv
  <2>2. CASE Crash
        BY <2>2, VolumeCrash, SMTT(60) DEF IInv
  <2>3. CASE UNCHANGED vars
        BY <2>3, Zenon DEF IInv, vars, Exclusive, Kept, On, HasEntry
  <2>4. QED
        BY <2>1, <2>2, <2>3, Steps, SMTT(60)
<1>3. \A v \in Volumes \ damaged' : Kept(v)'
      BY <1>2, DamageGrows DEF IInv
<1>4. QED
      BY <1>1, <1>2, <1>3 DEF IInv

\* The invariant always holds.
LEMMA Invariant == Spec => []IInv
  BY InitIInv, NextIInv, PTL DEF Spec

\* Every variable has its type; in particular every entry that Remove meets has the count
\* 1, so that no count goes down without the volume being given back.
THEOREM TypeCorrect == Spec => []TypeOK
<1>1. IInv => TypeOK
      BY DEF IInv
<1>2. QED
      BY <1>1, Invariant, PTL

\* No two containers ever have one volume mounted: create takes a volume only if it is
\* mounted nowhere, and Remove and a crash leave none behind that is not marked.
THEOREM VolumesAreExclusive == Spec => []VolumesExclusive
<1>1. IInv => VolumesExclusive
      BY PerVolume DEF IInv
<1>2. QED
      BY <1>1, Invariant, PTL

\* The layer of a live container is where realID looks for it: the entry tells a layer
\* on a volume from a plain one until Remove or a crash drops it.
THEOREM LayersAreFound == Spec => []LayerIsFound
<1>1. IInv => LayerIsFound
      BY Zenon DEF IInv, Own, LayerIsFound
<1>2. QED
      BY <1>1, Invariant, PTL

\* What a container wrote on a volume is there for the next one, through the saved upper
\* directory, unless a rename or an unmount failed at a removal.
THEOREM WritesAreKept == Spec => []WritesSurvive
<1>1. IInv => WritesSurvive
      BY PerVolume DEF IInv
<1>2. QED
      BY <1>1, Invariant, PTL
=============================================================================
