----------------------------- MODULE SortedSet ------------------------------
(***************************************************************************)
(* What the sorted sets of package kvstore promise: each member has one    *)
(* score, and the members stand in a row by score, equal scores by name.   *)
(***************************************************************************)
EXTENDS Integers, Sequences, FiniteSets

CONSTANTS Members,   \* the names, as numbers: only their order counts
          Scores

VARIABLE ranking     \* the row, as pairs of member and score

\* The row that holds exactly the pairs of S, in their order.
Before(a, b) == a[2] < b[2] \/ (a[2] = b[2] /\ a[1] < b[1])
Row(S) ==
    [k \in 1..Cardinality(S) |->
        CHOOSE a \in S : Cardinality({b \in S : Before(b, a)}) = k - 1]

Pairs == {ranking[k] : k \in DOMAIN ranking}
Without(m) == {a \in Pairs : a[1] # m}

Init == ranking = <<>>
ZAdd(m, s) == ranking' = Row(Without(m) \cup {<<m, s>>})
ZRem(m) == ranking' = Row(Without(m))
Next == \E m \in Members : ZRem(m) \/ \E s \in Scores : ZAdd(m, s)
Spec == Init /\ [][Next]_ranking
=============================================================================
