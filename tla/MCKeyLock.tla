----------------------------- MODULE MCKeyLock -----------------------------
(***************************************************************************)
(* KeyLock for TLC.  There are enough objects for one to be unreachable    *)
(* whenever a lock is created, so the heap's size blocks no Acquire.       *)
(***************************************************************************)
EXTENDS KeyLock
=============================================================================
