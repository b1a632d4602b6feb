------------------------------ MODULE AtomicDB ------------------------------
(***************************************************************************)
(* What updateDB promises its callers: a call takes effect atomically, at  *)
(* most once, and exactly once if it reports success.                      *)
(***************************************************************************)
EXTENDS Integers

CONSTANT Procs

VARIABLES value,   \* what each process has added to the cluster database
          state,   \* of each process' call
          reply    \* what its last call returned

vars == <<value, state, reply>>

Init ==
  /\ value = [p \in Procs |-> 0]
  /\ state = [p \in Procs |-> "idle"]
  /\ reply = [p \in Procs |-> "nil"]

Call(p) ==
  /\ state[p] = "idle"
  /\ state' = [state EXCEPT ![p] = "open"]
  /\ UNCHANGED <<value, reply>>

Apply(p) ==
  /\ state[p] = "open"
  /\ value' = [value EXCEPT ![p] = @ + 1]
  /\ state' = [state EXCEPT ![p] = "applied"]
  /\ UNCHANGED reply

Refuse(p) ==
  /\ state[p] = "open"
  /\ state' = [state EXCEPT ![p] = "refused"]
  /\ UNCHANGED <<value, reply>>

Return(p) ==
  /\ state[p] \in {"applied", "refused"}
  /\ state' = [state EXCEPT ![p] = "idle"]
  /\ \E r \in {"ok", "nil", "error"} :
       /\ r = "ok" => state[p] = "applied"
       /\ r = "nil" => state[p] = "refused"
       /\ reply' = [reply EXCEPT ![p] = r]
  /\ UNCHANGED value

Next == \E p \in Procs : Call(p) \/ Apply(p) \/ Refuse(p) \/ Return(p)

Spec == Init /\ [][Next]_vars
=============================================================================
