------------------------------ MODULE MCCluster ------------------------------
EXTENDS Cluster, TLC

HistSymmetry == Permutations(Hist)
=============================================================================
