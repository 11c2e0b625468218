--------------------------- MODULE MCReplication ----------------------------
EXTENDS Replication, TLC

NodeSymmetry == Permutations(Node)
=============================================================================
