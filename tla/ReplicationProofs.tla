------------------------- MODULE ReplicationProofs --------------------------
(***************************************************************************)
(* Theorems about module Replication, for every finite set of nodes and    *)
(* every bound, with restarts, lost RPCs and failing writes.               *)
(***************************************************************************)
EXTENDS ReplicationMatching, ReplicationCompleteness

\* Most leaves are for Zenon; those that calculate say SMTT.
USE ZenonT(30)

-----------------------------------------------------------------------------
(* Facts about finite sets, for the majorities.                            *)
INSTANCE FiniteSetTheorems

\* Two majorities have a node in common.
LEMMA MajoritiesIntersect ==
    ASSUME NEW S \in SUBSET Node, NEW T \in SUBSET Node, IsQuorum(S), IsQuorum(T)
    PROVE  S \cap T # {}
<1>1. /\ Cardinality(Node) \in Nat
      /\ Cardinality(S) \in Nat
      /\ Cardinality(T) \in Nat
  BY NodeAssumption, FS_CardinalityType, FS_Subset
<1>2. Cardinality(S) + Cardinality(T) > Cardinality(Node)
  <2> DEFINE n == Cardinality(Node)
  <2>1. 2 * ((n \div 2) + 1) > n
    BY <1>1, SMTT(30)
  <2>2. QED
    BY <1>1, <2>1, SMTT(30) DEF IsQuorum, Majority
<1>3. QED
  BY <1>2, NodeAssumption, FS_MajoritiesIntersect

\* A set of naturals has a smallest element, and Min finds it.
LEMMA LeastOfSet ==
    ASSUME NEW S \in SUBSET Nat, S # {}
    PROVE  Min(S) \in S /\ \A y \in S : Min(S) <= y
<1> DEFINE R == OpToRel(<, Nat)
<1>1. \A x, y \in Nat : <<y, x>> \in R <=> y < x
  BY DEF OpToRel
<1>2. IsWellFoundedOn(R, Nat)
  BY NatLessThanWellFounded
<1> HIDE DEF R
<1>3. PICK x \in S : \A y \in S : ~ (<<y, x>> \in R)
  BY <1>2, WFMin
<1>4. \A y \in S : x <= y
  <2> TAKE y \in S
  <2>1. x \in Nat /\ y \in Nat
    OBVIOUS
  <2>2. ~ (y < x)
    BY <1>1, <1>3, <2>1
  <2>3. QED
    BY <2>1, <2>2, SMTT(30)
<1>5. QED
  BY <1>4 DEF Min

\* A set of naturals with a bound has a largest element, and Max finds it.
LEMMA GreatestOfSet ==
    ASSUME NEW S \in SUBSET Nat, S # {}, NEW b \in Nat, \A x \in S : x <= b
    PROVE  Max(S) \in S /\ \A y \in S : Max(S) >= y
<1> DEFINE T == {b - x : x \in S}
<1>1. T \in SUBSET Nat /\ T # {}
  <2>1. \A x \in S : x \in Nat /\ b - x \in Nat
    BY SMTT(30)
  <2>2. T \subseteq Nat
    BY <2>1
  <2>3. PICK x : x \in S
    OBVIOUS
  <2>4. b - x \in T
    BY <2>3
  <2>5. QED
    BY <2>2, <2>4
<1>2. Min(T) \in T /\ \A y \in T : Min(T) <= y
  BY <1>1, LeastOfSet
<1>3. PICK x \in S : Min(T) = b - x
  BY <1>2
<1>4. \A y \in S : x >= y
  <2> TAKE y \in S
  <2>1. b - y \in T
    OBVIOUS
  <2>2. b - x <= b - y
    BY <1>2, <1>3, <2>1
  <2>3. QED
    BY <2>2, SMTT(30)
<1>5. QED
  BY <1>4 DEF Max

\* A set of nodes with a majority in it is one.
LEMMA MajoritiesGrow ==
    ASSUME NEW S \in SUBSET Node, NEW T \in SUBSET Node, S \subseteq T, IsQuorum(S)
    PROVE  IsQuorum(T)
<1>1. IsFiniteSet(T)
  BY NodeAssumption, FS_Subset
<1>2. /\ Cardinality(Node) \in Nat /\ Cardinality(T) \in Nat /\ Cardinality(S) \in Nat
      /\ Cardinality(S) <= Cardinality(T)
  BY <1>1, NodeAssumption, FS_CardinalityType, FS_Subset
<1>3. QED
  BY <1>2, SMTT(30) DEF IsQuorum, Majority

LEMMA BasicsHold == Basics
BY MajoritiesIntersect, MajoritiesGrow, LeastOfSet, GreatestOfSet
   DEF Basics, QuorumsMeet, QuorumsGrow, MinimaExist, MaximaExist

\* Logs that agree up to an index have the same prefix.
LEMMA AgreeingPrefixes ==
    ASSUME NEW l \in Seq(Nat), NEW k \in Seq(Nat), NEW n \in Nat, Agree(l, k, n)
    PROVE  SubSeq(l, 1, n) = SubSeq(k, 1, n)
<1>1. n <= Len(l) /\ n <= Len(k) /\ \A p \in 1..n : l[p] = k[p]
  BY DEF Agree
<1>2. PICK s : s = SubSeq(l, 1, n)
  OBVIOUS
<1>3. PICK t : t = SubSeq(k, 1, n)
  OBVIOUS
<1>4. s \in Seq(Nat) /\ Len(s) = n /\ \A p \in 1..n : s[p] = l[p]
  BY <1>1, <1>2, SMTT(30)
<1>5. t \in Seq(Nat) /\ Len(t) = n /\ \A p \in 1..n : t[p] = k[p]
  BY <1>1, <1>3, SMTT(30)
<1>6. \A p \in 1..Len(s) : s[p] = t[p]
  BY <1>1, <1>4, <1>5
<1>7. s = t
  BY <1>4, <1>5, <1>6, SameSequence
<1>8. QED
  BY <1>2, <1>3, <1>7

-----------------------------------------------------------------------------
\* Every part of a log that a node or a request holds, also a late one, matches
\* every other; a term's entries come from the one node that won the term (replicateTo,
\* processAppendEntries, the flush of batchLoop and initLeaderState).
THEOREM MatchingInvariant == AtomicSpec => [](Types /\ MatchingInv)
<1>1. Init => Types /\ MatchingInv
  BY InitTypes, InitMatches
<1>2. ASSUME Types, MatchingInv, [Next /\ SavesAreAtomic]_vars
      PROVE  Types' /\ MatchingInv'
  <2>1. Types' /\ RequestsStart'
    BY <1>2, BasicsHold, TypesStep DEF MatchingInv
  <2>2. QED
    BY <1>2, <2>1, BasicsHold, MatchingStep
<1>3. QED
  BY <1>1, <1>2, PTL DEF AtomicSpec

\* Two logs with the same term at an index agree up to it, for every number of nodes
\* and whatever is lost, late, restarted or not written: the consistency check of
\* processAppendEntries and the index check of RaftLog.Append are enough.
THEOREM LogsMatch == AtomicSpec => []LogMatching
<1>1. Types /\ MatchingInv => LogMatching
  <2> SUFFICES ASSUME Types, MatchingInv, NEW i \in Node, NEW j \in Node,
                      NEW n \in 1..Min({Len(log[i]), Len(log[j])}), log[i][n] = log[j][n]
               PROVE  SubSeq(log[i], 1, n) = SubSeq(log[j], 1, n)
    BY DEF LogMatching
  <2> DEFINE a == Len(log[i])
             b == Len(log[j])
             f == OfLog(log[i])
             g == OfLog(log[j])
  <2>1. log[i] \in Seq(Nat) /\ log[j] \in Seq(Nat) /\ a \in Nat /\ b \in Nat
    <3>1. log[i] \in Seq(Nat) /\ log[j] \in Seq(Nat)
      BY DEF Types
    <3>2. QED
      BY <3>1, SMTT(30)
  <2>2. n \in Nat /\ n > 0 /\ n <= a /\ n <= b
    <3> HIDE DEF a, b
    <3>1. Min({a, b}) = IF a <= b THEN a ELSE b
      BY <2>1, MinOfTwo, SMTT(30)
    <3>2. n \in 1..Min({a, b})
      BY DEF a, b
    <3>3. QED
      BY <2>1, <3>1, <3>2, SMTT(30)
  <2>3. Matching(f, g)
    BY LogIsPart DEF MatchingInv, PartsMatch
  <2>4. /\ DOMAIN f = 0..a /\ \A k \in 0..a : f[k] = TermAt(log[i], k)
        /\ DOMAIN g = 0..b /\ \A k \in 0..b : g[k] = TermAt(log[j], k)
    BY <2>1, OfLogFacts
  <2> HIDE DEF f, g
  <2>5. n \in 0..a /\ n \in 0..b /\ f[n] = g[n]
    BY <2>1, <2>2, <2>4, SMTT(30) DEF TermAt
  <2>6. ASSUME NEW k \in 1..n PROVE log[i][k] = log[j][k]
    <3>1. k \in 0..a /\ k \in 0..b /\ k # 0 /\ k <= n
      BY <2>1, <2>2, SMTT(30)
    <3>2. f[k] = g[k]
      BY <2>3, <2>4, <2>5, <3>1 DEF Matching
    <3>3. QED
      BY <2>4, <3>1, <3>2 DEF TermAt
  <2>7. Agree(log[i], log[j], n)
    BY <2>2, <2>6 DEF Agree
  <2>8. QED
    BY <2>1, <2>2, <2>7, AgreeingPrefixes
<1>2. QED
  BY <1>1, MatchingInvariant, PTL

-----------------------------------------------------------------------------
\* What a step of TimelySpec keeps and does.
LEMMA TimelyStep ==
    ASSUME Types, MatchingInv, NEW H \in [Nat -> Seq(Nat)], LogsInv(H), AcksInv(H),
           [Next /\ SavesAreAtomic /\ FlushesAreTimely]_vars
    PROVE  /\ Types' /\ MatchingInv'
           /\ \E G \in [Nat -> Seq(Nat)] : LogsInv(G)' /\ Progress(H, G) /\ AcksInv(G)'
<1>1. [Next]_vars /\ [Next /\ SavesAreAtomic]_vars
  OBVIOUS
<1>2. Types' /\ RequestsStart' /\ RequestsStart
  BY <1>1, BasicsHold, TypesStep DEF MatchingInv
<1>3. MatchingInv'
  BY <1>1, <1>2, BasicsHold, MatchingStep
<1>4. HistoryStep(H)
  BY <1>2, BasicsHold, EveryHistoryStep
<1>5. QuorumsMeet
  BY BasicsHold DEF Basics
<1>6. QED
  BY <1>2, <1>3, <1>4, <1>5, HistoryMoves

\* There is a history of the leaders' logs, one per term, that all logs and requests
\* follow, and every entry of a leader that may still be committed is in it for good.
\* This holds as long as a flush reaches the log only while its node still leads in
\* the flush's term.
THEOREM CompletenessInvariant == TimelySpec => [](Types /\ MatchingInv /\ CompletenessInv)
<1>1. Init => Types /\ MatchingInv /\ CompletenessInv
  <2> SUFFICES ASSUME Init PROVE CompletenessInv
    BY InitTypes, InitMatches
  <2>1. [t \in Nat |-> <<>>] \in [Nat -> Seq(Nat)]
    BY SMTT(30)
  <2>2. QED
    BY <2>1, InitHistory DEF CompletenessInv
<1>2. Types /\ MatchingInv /\ CompletenessInv
      /\ [Next /\ SavesAreAtomic /\ FlushesAreTimely]_vars
      => Types' /\ MatchingInv' /\ CompletenessInv'
  BY TimelyStep DEF CompletenessInv
<1>3. QED
  BY <1>1, <1>2, PTL DEF TimelySpec

\* An elected node has every entry that was committed before, for every number of nodes,
\* over lost and late messages, restarts and storage errors: the log comparison of
\* handleRequestVote and the current-term rule of advanceCommitIndex are enough, if no
\* flush outlives its leader's term.
THEOREM LeadersHaveCommitted == TimelySpec => []LeaderCompleteness
<1>1. Types /\ MatchingInv /\ CompletenessInv => LeaderCompleteness
  BY LeadersAreComplete DEF CompletenessInv
<1>2. QED
  BY <1>1, CompletenessInvariant, PTL

\* What a leader has booked of a follower in matchIndex is in the follower's log, unless
\* the follower has gone on to a later term: handleReply of replicateTo takes no late
\* reply for more than it says, and no follower loses what it has acknowledged.
THEOREM MatchIndexesAreTrue == TimelySpec => []MatchIndexIsTrue
<1>1. Types /\ MatchingInv /\ CompletenessInv => MatchIndexIsTrue
  <2> SUFFICES ASSUME Types, CompletenessInv, NEW i \in Node, NEW j \in Node, state[i] = Leader,
                      currentTerm[j] <= currentTerm[i]
               PROVE  /\ Len(log[j]) >= matchIndex[i][j]
                      /\ SubSeq(log[j], 1, matchIndex[i][j]) = SubSeq(log[i], 1, matchIndex[i][j])
    BY DEF MatchIndexIsTrue
  <2>1. AcksAreTrue
    BY DEF CompletenessInv, AcksInv
  <2>2. /\ log[i] \in Seq(Nat) /\ log[j] \in Seq(Nat) /\ matchIndex[i][j] \in Nat
        /\ currentTerm[i] \in Nat /\ currentTerm[j] \in Nat
    BY DEF Types
  <2>3. PICK l \in Seq(Nat), k \in Seq(Nat), n \in Nat :
           l = log[i] /\ k = log[j] /\ n = matchIndex[i][j]
    BY <2>2
  <2>4. Agree(k, l, n)
    <3>1. CASE n = 0
      BY <3>1, SMTT(30) DEF Agree
    <3>2. CASE n # 0
      <4>1. n \in Nat \ {0} /\ matchIndex[i][j] >= n
        BY <2>3, <3>2, SMTT(30)
      <4>2. j \in Ackers(i, n)
        BY <4>1 DEF Ackers
      <4>3. /\ currentTerm[j] >= currentTerm[i]
            /\ currentTerm[j] = currentTerm[i] => Agree(log[j], log[i], n)
        BY <2>1, <4>1, <4>2 DEF AcksAreTrue
      <4>4. currentTerm[j] = currentTerm[i]
        BY <2>2, <4>3, SMTT(30)
      <4>5. QED
        BY <2>3, <4>3, <4>4
    <3>3. QED
      BY <3>1, <3>2
  <2>5. SubSeq(k, 1, n) = SubSeq(l, 1, n)
    BY <2>4, AgreeingPrefixes
  <2>6. Len(k) >= n
    BY <2>4 DEF Agree
  <2>7. QED
    BY <2>3, <2>5, <2>6
<1>2. QED
  BY <1>1, CompletenessInvariant, PTL

-----------------------------------------------------------------------------
\* What a step of CoveredSpec keeps and does.
LEMMA CoveredStep ==
    ASSUME Types, MatchingInv, CoveredInv,
           [Next /\ SavesAreAtomic /\ FlushesAreTimely /\ RequestsCoverCommits]_vars
    PROVE  Types' /\ MatchingInv' /\ CoveredInv' /\ CommittedKept /\ CommitStep
<1>1. PICK H \in [Nat -> Seq(Nat)] : LogsInv(H) /\ AcksInv(H) /\ CommitInv(H)
  BY DEF CoveredInv
<1>2. /\ Types' /\ MatchingInv'
      /\ \E G \in [Nat -> Seq(Nat)] : LogsInv(G)' /\ Progress(H, G) /\ AcksInv(G)'
  <2>1. [Next /\ SavesAreAtomic /\ FlushesAreTimely]_vars
    OBVIOUS
  <2>2. QED
    BY <1>1, <2>1, TimelyStep
<1>3. PICK G \in [Nat -> Seq(Nat)] : LogsInv(G)' /\ Progress(H, G) /\ AcksInv(G)'
  BY <1>2
<1>4. TermsGrow /\ Grows(H, G) /\ LogsKeep(H)
  BY <1>3 DEF Progress
<1>5. CommittedKept
  BY <1>1, <1>2, <1>4, CommittedIsKept
<1>6. CommitStep
  BY <1>1, <1>2, <1>5, BasicsHold, EveryCommitStep
<1>7. CommitInv(G)'
  BY <1>1, <1>2, <1>4, <1>5, <1>6, CommitsMove
<1>8. CoveredInv'
  BY <1>3, <1>7 DEF CoveredInv
<1>9. QED
  BY <1>2, <1>5, <1>6, <1>8

\* What a node takes for committed, and what a request says is committed, has been
\* committed by a leader of its term or an earlier one.  This is so as long as a request
\* shows the log up to the commit index it carries; one that is cut at
\* MaxLogEntriesPerRPC may name an index beyond what it shows.
THEOREM CoveredInvariant == CoveredSpec => [](Types /\ MatchingInv /\ CoveredInv)
<1>1. Init => Types /\ MatchingInv /\ CoveredInv
  <2> SUFFICES ASSUME Init PROVE CoveredInv
    BY InitTypes, InitMatches
  <2>1. [t \in Nat |-> <<>>] \in [Nat -> Seq(Nat)]
    BY SMTT(30)
  <2>2. QED
    BY <2>1, InitHistory, InitCommits DEF CoveredInv
<1>2. Types /\ MatchingInv /\ CoveredInv
      /\ [Next /\ SavesAreAtomic /\ FlushesAreTimely /\ RequestsCoverCommits]_vars
      => Types' /\ MatchingInv' /\ CoveredInv'
  BY CoveredStep
<1>3. QED
  BY <1>1, <1>2, PTL DEF CoveredSpec

\* What two nodes take for committed is the same: advanceCommitIndex on leaders of
\* different terms and min(LeaderCommit, lastIndex) on followers never mark different
\* entries, for every number of nodes and over every election, loss and restart.
THEOREM CommittedNodesAgree == CoveredSpec => []CommittedAgree
<1>1. MinimaExist
  BY BasicsHold DEF Basics
<1>2. Types /\ MatchingInv /\ CoveredInv => CommittedAgree
  BY <1>1, CommitsAgree DEF CoveredInv
<1>3. QED
  BY <1>2, CoveredInvariant, PTL

\* Every index up to a node's commitIndex is committed, as the comment on
\* RaftNode.commitIndex says, although a follower computes its own from what the leader
\* tells and from the length of its log.
THEOREM CommitIndexesAreCommitted == CoveredSpec => []CommitIndexIsCommitted
<1>1. Types /\ MatchingInv /\ CoveredInv => CommitIndexIsCommitted
  BY DEF CoveredInv, CommitInv, Certified, CommitIndexIsCommitted
<1>2. QED
  BY <1>1, CoveredInvariant, PTL

\* A commit index is an index of the node's log, also after processAppendEntries has cut
\* the log, and every variable has its type.
THEOREM CommitIndexesAreInLog == CoveredSpec => []TypeOK
<1>1. Types /\ MatchingInv /\ CoveredInv => TypeOK
  <2> SUFFICES ASSUME Types, CoveredInv, NEW i \in Node PROVE commitIndex[i] <= Len(log[i])
    BY DEF TypeOK
  <2>1. PICK H : CommitInv(H)
    BY DEF CoveredInv
  <2>2. QED
    BY <2>1, CommittedIsInLog
<1>2. QED
  BY <1>1, CoveredInvariant, PTL

\* No step removes or replaces an entry that its node takes for committed, and the commit
\* index of a node goes back only when its process starts again: TruncateAfter in
\* processAppendEntries never reaches a committed entry, also when a request is late or a
\* storage error ends the merge half-way.
THEOREM CommittedEntriesStay == CoveredSpec => CommittedStays
<1>1. ASSUME Types, Types', NEW i \in Node, CommittedKept, CoveredInv
      PROVE  SubSeq(log'[i], 1, commitIndex[i]) = SubSeq(log[i], 1, commitIndex[i])
  <2>1. PICK H : CommitInv(H)
    BY <1>1 DEF CoveredInv
  <2>2. commitIndex[i] \in Nat /\ commitIndex[i] <= Len(log[i])
    BY <1>1, <2>1, CommittedIsInLog
  <2>3. log[i] \in Seq(Nat) /\ log'[i] \in Seq(Nat)
    BY <1>1 DEF Types
  <2>4. PICK l \in Seq(Nat), k \in Seq(Nat), n \in Nat :
           l = log[i] /\ k = log'[i] /\ n = commitIndex[i]
    BY <2>2, <2>3
  <2>5. n <= Len(l) /\ \A p \in 1..n : p <= Len(k) /\ k[p] = l[p]
    BY <1>1, <2>2, <2>4 DEF CommittedKept
  <2>6. Agree(k, l, n)
    <3>1. CASE n = 0
      BY <3>1, SMTT(30) DEF Agree
    <3>2. CASE n # 0
      <4>1. n \in 1..n
        BY <3>2, SMTT(30)
      <4>2. QED
        BY <2>5, <4>1 DEF Agree
    <3>3. QED
      BY <3>1, <3>2
  <2>7. SubSeq(k, 1, n) = SubSeq(l, 1, n)
    BY <2>6, AgreeingPrefixes
  <2>8. QED
    BY <2>4, <2>7
<1>2. Types /\ MatchingInv /\ CoveredInv
      /\ [Next /\ SavesAreAtomic /\ FlushesAreTimely /\ RequestsCoverCommits]_vars
      => [\A i \in Node :
            /\ SubSeq(log'[i], 1, commitIndex[i]) = SubSeq(log[i], 1, commitIndex[i])
            /\ commitIndex'[i] >= commitIndex[i] \/ restarts' > restarts]_vars
  BY <1>1, CoveredStep DEF CommitStep
<1>3. QED
  BY <1>2, CoveredInvariant, PTL DEF CoveredSpec, CommittedStays
=============================================================================
