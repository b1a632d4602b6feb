----------------------------- MODULE MCSelfStatus ------------------------------
(* The status of a node, checked for two retries instead of 600.           *)
EXTENDS SelfStatus
=============================================================================
