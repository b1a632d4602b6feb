------------------------- MODULE MCClusterMembership -------------------------
EXTENDS ClusterMembership
=============================================================================
