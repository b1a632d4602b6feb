---------------------------- MODULE MCClusterDB ----------------------------
(* Two processes that update the database, and one that may lose its lock. *)
EXTENDS ClusterDB
=============================================================================
