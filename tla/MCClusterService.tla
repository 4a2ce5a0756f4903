-------------------------- MODULE MCClusterService --------------------------
EXTENDS ClusterOwnership, TLC

Symmetry == Permutations(Clusters) \cup Permutations(Requests)
=============================================================================
