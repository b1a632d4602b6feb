----------------------------- MODULE MCMounter -----------------------------
(* One caller per device, as when the volume driver serialises its volumes; *)
(* path c is not below allowedDirs.                                         *)
EXTENDS Mounter

CONSTANTS p1, d1, a, b, c

WithReload ==
  ({p1} \X {"mount", "unmount"} \X {d1} \X {a, b, c}) \cup {<<p1, "reload", d1, a>>}
=============================================================================
