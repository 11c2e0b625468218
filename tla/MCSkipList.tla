----------------------------- MODULE MCSkipList -----------------------------
EXTENDS SkipList

FourMembers == 1..4
TwoScores == 1..2
=============================================================================
