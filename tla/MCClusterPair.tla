----------------------------- MODULE MCClusterPair -----------------------------
(* Concurrent requests for pairs with two remote clusters.                 *)
EXTENDS ClusterPair, TLC

Symmetry == Permutations(Procs) \cup Permutations(Clusters) \cup Permutations(Tokens)
=============================================================================
