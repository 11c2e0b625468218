------------------------------- MODULE MCWAL -------------------------------
(* The write-ahead log with two terms. *)
EXTENDS WAL
TwoTerms == 1..2
=============================================================================
