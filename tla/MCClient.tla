------------------------------ MODULE MCClient ------------------------------
(* A Set and, when it has succeeded, another call, over three servers. *)
EXTENDS Client
CONSTANTS n1, n2, n3, c1, c2
ThreeNodes == {n1, n2, n3}
OneEndpoint == {n1}
OtherNodes == Permutations({n2, n3})
TwoCalls == {c1, c2}
Attempts == TwoCalls \X (1..2)
OneByOne == [c \in TwoCalls |-> IF c = c1 THEN {} ELSE {c1}]
SetThenUse == [c \in TwoCalls |-> IF c = c1 THEN {"Set"} ELSE {"Get", "Incr", "LPop"}]
Rounds == [Set |-> 1, Get |-> 2, Incr |-> 2, LPop |-> 1]
\* A node that has stepped down in the last term does not lead again: with no waiters
\* left it has nobody to tell.
Waiters(n) == {id \in Request : handler[id].pc = "waiter" /\ handler[id].node = n}
ClientView == <<currentTerm, state, leaderID, log, commitIndex, lastApplied, noopCommitted,
                [n \in Node |-> telling[n] > 0 /\ Waiters(n) # {}], flush, handler, late,
                call, leader, known>>
=============================================================================
