----------------------------- MODULE MCElection -----------------------------
EXTENDS Election, TLC

NodeSymmetry == Permutations(Node)

\* States are told apart by the files that a restart may still read: while a
\* process may die, those that have lost no save.
FilesInUse ==
    IF heartbeats + crashes < MaxEvents
    THEN [i \in Node \ lost |-> disk[i]]
    ELSE <<>>
FilesView ==
    <<nodeVars, FilesInUse, windows, roundVars, msgs, bounds, ballots, elections>>
=============================================================================
