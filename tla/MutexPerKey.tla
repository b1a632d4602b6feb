---------------------------- MODULE MutexPerKey ----------------------------
(***************************************************************************)
(* What a keyLock promises its callers: one mutex per key, taken and given *)
(* back in one step.                                                       *)
(***************************************************************************)
CONSTANTS Threads, Keys, Nobody

VARIABLE holder   \* the thread that holds each key's lock

Init == holder = [k \in Keys |-> Nobody]

Take(t, k) ==
  /\ holder[k] = Nobody
  /\ holder' = [holder EXCEPT ![k] = t]

Give(t, k) ==
  /\ holder[k] = t
  /\ holder' = [holder EXCEPT ![k] = Nobody]

Next == \E t \in Threads, k \in Keys : Take(t, k) \/ Give(t, k)

Spec == Init /\ [][Next]_holder
=============================================================================
