--------------------------- MODULE MCMounterRaces ---------------------------
(* Two ways in which calls meet.  In the first, two callers mount and unmount *)
(* one device at one path, while a third works on a device of its own.  In    *)
(* the second, one caller uses two devices, with delayed removals, which the  *)
(* second goroutine runs, and a restart of the process.                       *)
EXTENDS Mounter

CONSTANTS p1, p2, p3, d1, d2, a

VARIABLE removing    \* the second way; it never changes

MountUnmount == {"mount", "unmount"}

Meeting ==
  ({p1, p2} \X MountUnmount \X {d1} \X {a}) \cup {<<p3, "reload", d2, a>>}

Removal == INSTANCE Mounter WITH
  Requests <- {p1} \X MountUnmount \X {d1, d2} \X {a}, Deletes <- {"no", "wait"},
  Failing <- {"mount"}, MaxTasks <- 2, MaxRestarts <- 1

RacesInit == removing \in BOOLEAN /\ Init

RacesNext == UNCHANGED removing /\ IF removing THEN Removal!Next ELSE Next

\* A goroutine that can run does; Go's mutexes are not starved where callers
\* compete for them; the scheduler starts a goroutine for every task that is due.
RacesSpec ==
  /\ RacesInit /\ [][RacesNext]_<<vars, removing>>
  /\ \A p \in {p1, p2} : /\ WF_vars(IF removing THEN Removal!Proceed(p) ELSE Proceed(p))
                         /\ SF_vars(LockInfo(p))
                         /\ SF_vars(AcquireKey(p))
  /\ WF_vars(Proceed(p3) \/ LockInfo(p3) \/ AcquireKey(p3))
  /\ \A w \in Workers, path \in Paths : SF_vars(removing /\ Removal!RunTask(w, path))
=============================================================================
