---------------------------- MODULE MCMembership ----------------------------
(* Three members and a node that may join them. *)
EXTENDS Membership, TLC
CONSTANTS n1, n2, n3, n4
ThreeOfFour == {n1, n2, n3}
Members == Permutations(ThreeOfFour)
=============================================================================
