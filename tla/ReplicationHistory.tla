------------------------- MODULE ReplicationHistory -------------------------
(***************************************************************************)
(* Why an elected leader of module Replication has every committed entry,  *)
(* and why nodes agree on what is committed: the invariants behind         *)
(* LeaderCompleteness and CommittedAgree, and what the steps are for them. *)
(*                                                                         *)
(* It speaks of a history H: for each term the log that the leader of the  *)
(* term has, or had when it stopped leading.  Logs, requests and           *)
(* acknowledgements are compared with it.                                  *)
(***************************************************************************)
EXTENDS Replication

\* What the proofs need of finite sets and of the naturals: two majorities of the
\* cluster share a node, because ClusterConfig.Majority is Size/2 + 1, and a set of
\* naturals has a smallest and, below a bound, a largest element.
QuorumsMeet ==
    \A S, T \in SUBSET Node : IsQuorum(S) /\ IsQuorum(T) => S \cap T # {}

QuorumsGrow ==
    \A S, T \in SUBSET Node : S \subseteq T /\ IsQuorum(S) => IsQuorum(T)

MinimaExist ==
    \A S \in SUBSET Nat : S # {} => Min(S) \in S /\ \A y \in S : Min(S) <= y

MaximaExist ==
    \A S \in SUBSET Nat, b \in Nat : S # {} /\ (\A x \in S : x <= b) =>
        Max(S) \in S /\ \A y \in S : Max(S) >= y

Basics == QuorumsMeet /\ QuorumsGrow /\ MinimaExist /\ MaximaExist

-----------------------------------------------------------------------------
\* Two logs have the same first n entries.
Agree(l, k, n) == n <= Len(l) /\ n <= Len(k) /\ \A p \in 1..n : l[p] = k[p]

\* Each entry of log l is one that the leader of its term had, with all before it.
FollowsTerms(l, H) == \A b \in 1..Len(l) : l[b] > 0 /\ Agree(l, H[l[b]], b)

\* H is the leaders' logs by term, empty for a term that nobody has won.
History(H) ==
    /\ H \in [Nat -> Seq(Nat)]
    /\ \A t \in Nat : FollowsTerms(H[t], H) /\ \A b \in 1..Len(H[t]) : H[t][b] <= t

\* Request m shows a part of the log that the leader of its term had.
Shows(m, H) ==
    /\ H[m.term] # <<>> /\ m.next - 1 + Len(m.entries) <= Len(H[m.term])
    /\ m.prevTerm = TermAt(H[m.term], m.next - 1)
    /\ \A k \in 1..Len(m.entries) : m.entries[k] = H[m.term][m.next - 1 + k]

\* What nodes and messages have to do with the history.
LogsInv(H) ==
    /\ History(H)
    /\ \A t \in Nat : H[t] # <<>> => Elected(t)
    /\ \A i \in Node : /\ FollowsTerms(log[i], H)
                       /\ \A b \in 1..Len(log[i]) : log[i][b] <= currentTerm[i]
    /\ \A i \in Node : state[i] = Leader => log[i] # <<>> /\ H[currentTerm[i]] = log[i]
    /\ \A m \in requests \cup handling : Shows(m, H)
    /\ \A m \in handling : currentTerm[m.to] = m.term
    /\ \A m \in replies : H[m.req] # <<>>

\* Every later leader has had the first n entries of the leader of the term.
Safe(term, n, H) ==
    \A u \in Nat : u > term /\ H[u] # <<>> => Agree(H[u], H[term], n)

\* The nodes of A have come to the term and have its first n entries.
Kept(term, n, A, H) == \A j \in A : currentTerm[j] >= term /\ Agree(log[j], H[term], n)

\* A majority has left the term, and nobody of it is in A.
Abandoned(term, A) ==
    \E Q \in SUBSET Node :
        IsQuorum(Q) /\ Q \cap A = {} /\ \A j \in Q : currentTerm[j] > term

\* The nodes that have acknowledged the first n entries to leader i: it has booked
\* this, or the answer is on its way.
Ackers(i, n) ==
    {j \in Node : matchIndex[i][j] >= n}
    \cup {j \in Node : \E m \in replies :
            /\ m.from = j /\ m.to = i /\ m.req = currentTerm[i]
            /\ m.success /\ m.match >= n}

\* What is acknowledged is in the leader's log, and in the other's while it stays in
\* the term.
AcksAreTrue ==
    \A i \in Node : state[i] = Leader => \A n \in Nat \ {0} : \A j \in Ackers(i, n) :
        /\ n <= Len(log[i]) /\ currentTerm[j] >= currentTerm[i]
        /\ currentTerm[j] = currentTerm[i] => Agree(log[j], log[i], n)

\* An entry of the leader's own term can no longer be committed, or those who have
\* acknowledged it keep it and every later leader has it.
EntriesAreSafe(H) ==
    \A i \in Node : state[i] = Leader =>
        \A n \in 1..Len(log[i]) : log[i][n] = currentTerm[i] =>
            LET A == {i} \cup Ackers(i, n)
            IN  \/ Abandoned(currentTerm[i], A)
                \/ Safe(currentTerm[i], n, H) /\ Kept(currentTerm[i], n, A, H)

\* A majority keeps every committed entry, and every later leader has it.
ChosenAreSafe(H) ==
    \A c \in chosen : \E n \in Nat, Q \in SUBSET Node :
        /\ c.index \in 1..n /\ n <= Len(H[c.by])
        /\ H[c.by][n] = c.by /\ H[c.by][c.index] = c.term
        /\ Safe(c.by, n, H) /\ IsQuorum(Q) /\ Kept(c.by, n, Q, H)

AcksInv(H) == AcksAreTrue /\ EntriesAreSafe(H) /\ ChosenAreSafe(H)
CompletenessInv == \E H \in [Nat -> Seq(Nat)] : LogsInv(H) /\ AcksInv(H)

-----------------------------------------------------------------------------
(* What a step does, seen from the history: it was H and becomes G.        *)

TermsGrow == \A j \in Node : currentTerm'[j] >= currentTerm[j]
Grows(H, G) == \A t \in Nat : Agree(G[t], H[t], Len(H[t]))

\* A new leader has compared its log with those of a majority.
Compared(H, G) ==
    \A u \in Nat : H[u] = <<>> /\ G[u] # <<>> =>
        \E i \in Node, Q \in SUBSET Node :
            /\ IsQuorum(Q) /\ G[u] = Append(log[i], u)
            /\ \A j \in Q : currentTerm'[j] = u /\ (j = i \/ upToDate(i, j))

\* A log grows, or takes over what the leader of the node's term has had.
LogsKeep(H) ==
    \A j \in Node :
        \/ Agree(log'[j], log[j], Len(log[j]))
        \/ /\ H[currentTerm[j]] # <<>>
           /\ \A n \in Nat : Agree(log[j], H[currentTerm[j]], n) =>
                             Agree(log'[j], H[currentTerm[j]], n)

\* A leader stays, and what is newly acknowledged to it is there; or it is new.
AcksGrow(H) ==
    \A i \in Node : state'[i] = Leader =>
        \/ /\ state[i] = Leader /\ currentTerm'[i] = currentTerm[i]
           /\ \A n \in Nat \ {0} : \A j \in Ackers(i, n)' :
                 \/ j \in Ackers(i, n)
                 \/ /\ currentTerm[j] = currentTerm[i] /\ currentTerm'[j] = currentTerm[i]
                    /\ Agree(log'[j], H[currentTerm[i]], n)
        \/ /\ H[currentTerm'[i]] = <<>> /\ \A n \in Nat \ {0} : Ackers(i, n)' = {}

\* A leader commits what a majority has acknowledged, at an entry of its term.
CommitsAcked ==
    \A c \in chosen' : c \in chosen \/ \E i \in Node, n \in Nat :
        /\ state'[i] = Leader /\ currentTerm'[i] = c.by
        /\ c.index \in 1..n /\ n <= Len(log'[i])
        /\ log'[i][n] = c.by /\ log'[i][c.index] = c.term
        /\ IsQuorum({i} \cup Ackers(i, n)')

Progress(H, G) ==
    /\ TermsGrow /\ Grows(H, G) /\ Compared(H, G)
    /\ LogsKeep(H) /\ AcksGrow(H) /\ CommitsAcked

\* No election is undone.
ElectedStay == \A t \in Nat : Elected(t) => Elected(t)'

\* The log of node j becomes one that keeps what it has of the log of the leader of
\* the node's term.
TakesOver(j, H) ==
    /\ state'[j] # Leader /\ currentTerm'[j] = currentTerm[j]
    /\ FollowsTerms(log'[j], H) /\ \A b \in 1..Len(log'[j]) : log'[j][b] <= currentTerm[j]
    /\ H[currentTerm[j]] # <<>>
    /\ \A n \in Nat : Agree(log[j], H[currentTerm[j]], n) =>
                      Agree(log'[j], H[currentTerm[j]], n)

\* Reply m belongs to a term that was won, and the entries it acknowledges are there.
Answers(m, H) ==
    /\ H[m.req] # <<>>
    /\ m.success => /\ currentTerm[m.from] = m.req /\ currentTerm'[m.from] = m.req
                    /\ Agree(log'[m.from], H[m.req], m.match)

\* What leader i has booked, it had booked or has read from a reply.
Books(i) ==
    \A j \in Node : \/ matchIndex'[i][j] = matchIndex[i][j]
                    \/ \E m \in replies :
                          /\ m.from = j /\ m.to = i /\ m.req = currentTerm[i]
                          /\ m.success /\ m.match = matchIndex'[i][j]

LeadersStay ==
    \A i \in Node : state'[i] = Leader =>
        state[i] = Leader /\ currentTerm'[i] = currentTerm[i]

\* A step that makes no entry.
Quiet(H) ==
    /\ TermsGrow /\ ElectedStay /\ LeadersStay
    /\ \A j \in Node : log'[j] = log[j] \/ TakesOver(j, H)
    /\ \A m \in requests' \cup handling' : m \in requests \cup handling \/ Shows(m, H)
    /\ \A m \in handling' : currentTerm'[m.to] = m.term
    /\ \A m \in replies' : m \in replies \/ Answers(m, H)
    /\ \A i \in Node : state'[i] = Leader => Books(i)

\* A node keeps its term while it handles a request.
TermsWait == \A m \in handling \cap handling' : currentTerm'[m.to] = currentTerm[m.to]

\* A step that changes nothing the history is compared with, except that messages
\* get lost and leaders stop.
Silent ==
    /\ log' = log /\ LeadersStay
    /\ requests' \subseteq requests /\ handling' \subseteq handling /\ replies' \subseteq replies
    /\ \A i \in Node : state'[i] = Leader => matchIndex'[i] = matchIndex[i]

\* A step in which node i, now leader of term t, appends an entry of the term.
MakesEntry(i, t, H) ==
    /\ TermsGrow /\ ElectedStay /\ Elected(t)' /\ t > 0 /\ currentTerm'[i] = t
    /\ \A b \in 1..Len(log[i]) : log[i][b] <= t
    /\ H[t] = log[i] \/ H[t] = <<>>
    /\ log' = [log EXCEPT ![i] = Append(log[i], t)]
    /\ \A j \in Node : j # i /\ state'[j] = Leader =>
          state[j] = Leader /\ currentTerm'[j] = currentTerm[j] /\ currentTerm[j] # t
    /\ requests' \cup handling' \subseteq requests \cup handling /\ replies' \subseteq replies
    /\ \A m \in handling' : currentTerm'[m.to] = m.term

\* Such a step, with what it acknowledges and commits; a new leader has compared its
\* log with those of a majority.
Enters(i, t, H) ==
    /\ MakesEntry(i, t, H) /\ AcksGrow(H) /\ CommitsAcked
    /\ H[t] = <<>> => \E Q \in SUBSET Node :
          IsQuorum(Q) /\ \A j \in Q : currentTerm'[j] = t /\ (j = i \/ upToDate(i, j))

\* What every step is.
HistoryStep(H) == (Quiet(H) /\ CommitsAcked) \/ \E i \in Node, t \in Nat : Enters(i, t, H)

\* The history after the leader of term t has appended an entry to log l.
Grown(H, l, t) == [H EXCEPT ![t] = Append(l, t)]

\* Log l may be extended by the leader of term t, and what comes of it.
MayGrow(H, l, t) ==
    /\ History(H) /\ FollowsTerms(l, H) /\ t > 0
    /\ \A b \in 1..Len(l) : l[b] <= t
    /\ H[t] = l \/ H[t] = <<>>
HasGrown(H, G, l, t) ==
    /\ History(G) /\ Grows(H, G) /\ G[t] = Append(l, t) /\ FollowsTerms(Append(l, t), G)
    /\ \A u \in Nat : u # t => G[u] = H[u]

-----------------------------------------------------------------------------
(* Commit indexes.                                                         *)

\* A leader of a term up to `by' has committed an entry of the given term at index k.
Certified(k, term, by) ==
    \E c \in chosen : c.index = k /\ c.term = term /\ c.by <= by

\* What nodes take for committed, and what leaders tell of it, was committed by a leader
\* of their term or before.
CommitInv(H) ==
    /\ \A i \in Node : \A k \in 1..commitIndex[i] :
          k <= Len(log[i]) /\ Certified(k, log[i][k], currentTerm[i])
    /\ \A m \in requests \cup handling :
          /\ m.commit <= m.next - 1 + Len(m.entries)
          /\ \A k \in 1..m.commit : Certified(k, H[m.term][k], m.term)

\* The inductive invariant behind CommittedAgree.
CoveredInv == \E H \in [Nat -> Seq(Nat)] : LogsInv(H) /\ AcksInv(H) /\ CommitInv(H)

\* No node loses what it takes for committed.
CommittedKept ==
    \A i \in Node : \A k \in 1..commitIndex[i] : k <= Len(log'[i]) /\ log'[i][k] = log[i][k]

\* Request m tells the commit index of a leader and shows its log up to there.
Tells(m) ==
    /\ \E i \in Node : /\ state[i] = Leader /\ m.term = currentTerm[i]
                       /\ m.commit = commitIndex[i]
    /\ m.commit <= m.next - 1 + Len(m.entries)

\* What a step does to commit indexes.
CommitStep ==
    /\ chosen \subseteq chosen'
    /\ \A i \in Node : \A k \in 1..commitIndex'[i] :
          \/ k <= commitIndex[i]
          \/ k <= Len(log'[i]) /\ Certified(k, log[i][k], currentTerm[i])'
    /\ \A m \in requests' \cup handling' : m \in requests \cup handling \/ Tells(m)
    /\ \A i \in Node : commitIndex'[i] >= commitIndex[i] \/ restarts' > restarts
=============================================================================
