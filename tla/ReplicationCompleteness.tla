---------------------- MODULE ReplicationCompleteness -----------------------
(***************************************************************************)
(* A step that is what module ReplicationHistory says of steps             *)
(* (HistoryStep, CommitStep) keeps the invariants stated there, and what   *)
(* follows from these invariants.                                          *)
(***************************************************************************)
EXTENDS ReplicationHistory, TLAPS

\* Most leaves are for Zenon; those that calculate say SMTT.
USE ZenonT(30)

-----------------------------------------------------------------------------
(* Logs and histories.                                                     *)

LEMMA AgreeUp ==
    ASSUME NEW l \in Seq(Nat), NEW k \in Seq(Nat), NEW h \in Seq(Nat), NEW n \in Nat,
           Agree(l, k, n), Agree(h, l, Len(l))
    PROVE  Agree(h, k, n)
BY SMTT(30) DEF Agree

LEMMA AgreeVia ==
    ASSUME NEW l \in Seq(Nat), NEW k \in Seq(Nat), NEW h \in Seq(Nat), NEW n \in Nat,
           Agree(l, k, n), Agree(h, k, n)
    PROVE  Agree(l, h, n) /\ Agree(h, l, n)
BY DEF Agree

LEMMA AgreeSelf ==
    ASSUME NEW l \in Seq(Nat), NEW n \in Nat, n <= Len(l)
    PROVE  Agree(l, l, n)
BY DEF Agree

LEMMA AgreeLess ==
    ASSUME NEW l \in Seq(Nat), NEW k \in Seq(Nat), NEW n \in Nat, NEW b \in Nat,
           Agree(l, k, n), b <= n
    PROVE  Agree(l, k, b)
BY SMTT(30) DEF Agree

LEMMA AgreeAppend ==
    ASSUME NEW l \in Seq(Nat), NEW x \in Nat
    PROVE  Append(l, x) \in Seq(Nat) /\ Agree(Append(l, x), l, Len(l))
BY SMTT(30) DEF Agree

LEMMA TermOfHistory ==
    ASSUME NEW H, History(H), NEW t \in Nat
    PROVE  /\ H[t] \in Seq(Nat)
           /\ \A b \in 1..Len(H[t]) : H[t][b] \in Nat /\ H[t][b] > 0 /\ H[t][b] <= t
           /\ FollowsTerms(H[t], H)
<1>1. /\ H[t] \in Seq(Nat) /\ FollowsTerms(H[t], H)
      /\ \A b \in 1..Len(H[t]) : H[t][b] <= t
  BY DEF History
<1>2. \A b \in 1..Len(H[t]) : H[t][b] > 0
  BY <1>1 DEF FollowsTerms
<1>3. QED
  BY <1>1, <1>2, SMTT(30)

LEMMA AgreeEnd ==
    ASSUME NEW l \in Seq(Nat), NEW k \in Seq(Nat), NEW L \in Seq(Nat), NEW T \in Seq(Nat),
           NEW n \in Nat, Agree(l, L, Len(l)), Agree(k, L, Len(k)), Len(l) >= Len(k),
           Agree(k, T, n)
    PROVE  Agree(l, T, n)
<1>1. n <= Len(l) /\ n <= Len(T) /\ n <= Len(k)
  BY SMTT(30) DEF Agree
<1>2. ASSUME NEW p \in 1..n PROVE l[p] = T[p]
  <2>1. p \in 1..Len(l) /\ p \in 1..Len(k)
    BY <1>1, SMTT(30)
  <2>2. l[p] = L[p] /\ k[p] = L[p] /\ k[p] = T[p]
    BY <2>1 DEF Agree
  <2>3. QED
    BY <2>2
<1>3. QED
  BY <1>1, <1>2 DEF Agree

LEMMA AgreeLonger ==
    ASSUME NEW l \in Seq(Nat), NEW L \in Seq(Nat), NEW T \in Seq(Nat), NEW n \in Nat,
           NEW t \in Nat, Agree(l, L, Len(l)), Len(l) > 0, l[Len(l)] > t, Agree(L, T, n),
           \A p \in 1..n : T[p] <= t
    PROVE  Agree(l, T, n)
<1>1. l[Len(l)] = L[Len(l)] /\ Len(l) \in 1..Len(l)
  BY SMTT(30) DEF Agree
<1>2. Len(l) \in 1..n => L[Len(l)] <= t
  BY DEF Agree
<1>3. L[Len(l)] \in Nat
  BY <1>1, SMTT(30)
<1>4. Len(l) > n
  BY <1>1, <1>2, <1>3, SMTT(30)
<1>5. QED
  BY <1>4, SMTT(30) DEF Agree

\* The last term of a log is its largest, and the log is the beginning of the log
\* of that term's leader.
LEMMA LastOfLog ==
    ASSUME NEW H, History(H), NEW l \in Seq(Nat), FollowsTerms(l, H), Len(l) > 0
    PROVE  /\ LastTerm(l) \in Nat /\ LastTerm(l) = l[Len(l)]
           /\ Agree(l, H[LastTerm(l)], Len(l)) /\ H[LastTerm(l)] # <<>>
           /\ \A n \in 1..Len(l) : l[n] <= LastTerm(l)
<1> DEFINE v == l[Len(l)]
<1>1. LastTerm(l) = v /\ v \in Nat /\ Len(l) \in 1..Len(l)
  BY SMTT(30) DEF LastTerm, TermAt
<1>2. Agree(l, H[v], Len(l))
  BY <1>1 DEF FollowsTerms
<1>3. H[v] \in Seq(Nat) /\ \A b \in 1..Len(H[v]) : H[v][b] <= v
  BY <1>1 DEF History
<1>4. H[v] # <<>>
  BY <1>2, <1>3, SMTT(30) DEF Agree
<1>5. ASSUME NEW n \in 1..Len(l) PROVE l[n] <= v
  BY <1>2, <1>3, SMTT(30) DEF Agree
<1>6. QED
  BY <1>1, <1>2, <1>4, <1>5

\* A log that is at least as good as one with the first n entries of a term, in the
\* sense of handleRequestVote, has them too, if every later leader has had them.
LEMMA BetterLog ==
    ASSUME NEW H, History(H), NEW t \in Nat, NEW n \in Nat, n \in 1..Len(H[t]), H[t][n] = t,
           Safe(t, n, H), NEW l \in Seq(Nat), NEW k \in Seq(Nat), FollowsTerms(l, H),
           FollowsTerms(k, H), Agree(k, H[t], n),
           \/ LastTerm(l) > LastTerm(k)
           \/ LastTerm(l) = LastTerm(k) /\ Len(l) >= Len(k)
    PROVE  Agree(l, H[t], n)
<1>1. /\ H[t] \in Seq(Nat) /\ n >= 1 /\ t > 0 /\ Len(k) >= n /\ k[n] = t
      /\ \A p \in 1..n : H[t][p] <= t
  <2>1. /\ H[t] \in Seq(Nat) /\ t > 0
        /\ \A b \in 1..Len(H[t]) : H[t][b] <= t
    BY TermOfHistory
  <2>2. n >= 1 /\ Len(k) >= n /\ k[n] = t /\ n <= Len(H[t])
    BY <2>1, SMTT(30) DEF Agree
  <2>3. QED
    BY <2>1, <2>2, SMTT(30)
<1>2. /\ LastTerm(k) \in Nat /\ Agree(k, H[LastTerm(k)], Len(k)) /\ LastTerm(k) >= t
  BY <1>1, LastOfLog, SMTT(30)
<1>4. Len(l) > 0
  <2>1. CASE Len(l) = 0
    <3>1. LastTerm(l) = 0
      BY <2>1 DEF LastTerm, TermAt
    <3>2. QED
      BY <1>2, <1>1, <3>1, SMTT(30)
  <2>2. QED
    BY <2>1, SMTT(30)
<1>5. /\ LastTerm(l) \in Nat /\ LastTerm(l) = l[Len(l)] /\ H[LastTerm(l)] # <<>>
      /\ Agree(l, H[LastTerm(l)], Len(l))
  BY <1>4, LastOfLog
<1>6. H[LastTerm(l)] \in Seq(Nat)
  BY <1>5, TermOfHistory
<1>7. CASE LastTerm(l) = LastTerm(k) /\ Len(l) >= Len(k)
  <2>1. Agree(k, H[LastTerm(l)], Len(k))
    BY <1>2, <1>7
  <2>2. QED
    BY <1>1, <1>5, <1>6, <1>7, <2>1, AgreeEnd
<1>8. CASE LastTerm(l) > LastTerm(k)
  <2>1. LastTerm(l) > t
    BY <1>2, <1>5, <1>8, SMTT(30)
  <2>2. Agree(H[LastTerm(l)], H[t], n)
    BY <1>5, <2>1 DEF Safe
  <2>3. l[Len(l)] > t
    BY <1>5, <2>1
  <2>4. QED
    BY <1>1, <1>4, <1>5, <1>6, <2>2, <2>3, AgreeLonger
<1>9. QED
  BY <1>7, <1>8

-----------------------------------------------------------------------------
(* What a step keeps.                                                      *)

\* Those who keep the entries go on to do so.
LEMMA KeptStays ==
    ASSUME Types, Types', NEW H, NEW G, History(H), History(G), TermsGrow, Grows(H, G),
           LogsKeep(H), NEW t \in Nat, NEW n \in Nat, n <= Len(H[t]), NEW A \in SUBSET Node,
           Safe(t, n, H), Kept(t, n, A, H)
    PROVE  Kept(t, n, A, G)'
<1>1. H[t] \in Seq(Nat) /\ G[t] \in Seq(Nat) /\ Agree(G[t], H[t], Len(H[t]))
  BY TermOfHistory DEF Grows
<1> SUFFICES ASSUME NEW j \in A
             PROVE  currentTerm'[j] >= t /\ Agree(log'[j], G[t], n)
  BY DEF Kept
<1>2. /\ currentTerm[j] \in Nat /\ currentTerm'[j] \in Nat /\ j \in Node
      /\ log[j] \in Seq(Nat) /\ log'[j] \in Seq(Nat)
  BY DEF Types
<1>3. currentTerm[j] >= t /\ Agree(log[j], H[t], n)
  BY DEF Kept
<1>4. currentTerm'[j] >= t
  BY <1>2, <1>3, SMTT(30) DEF TermsGrow
<1>5. Agree(log'[j], H[t], n)
  <2>1. CASE Agree(log'[j], log[j], Len(log[j]))
    BY <1>1, <1>2, <1>3, <2>1, AgreeUp
  <2>2. CASE /\ H[currentTerm[j]] # <<>>
             /\ \A m \in Nat : Agree(log[j], H[currentTerm[j]], m) =>
                               Agree(log'[j], H[currentTerm[j]], m)
    <3>1. PICK L \in Seq(Nat) : L = H[currentTerm[j]]
      BY <1>2, TermOfHistory
    <3>2. Agree(L, H[t], n)
      <4>1. CASE currentTerm[j] = t
        BY <1>1, <3>1, <4>1, AgreeSelf
      <4>2. CASE currentTerm[j] > t
        BY <1>2, <2>2, <3>1, <4>2 DEF Safe
      <4>3. QED
        BY <1>2, <1>3, <4>1, <4>2, SMTT(30)
    <3>3. Agree(log[j], L, n)
      BY <1>1, <1>2, <1>3, <3>2, AgreeVia
    <3>4. Agree(log'[j], L, n)
      BY <2>2, <3>1, <3>3
    <3>5. QED
      BY <1>1, <1>2, <3>2, <3>4 DEF Agree
  <2>3. QED
    BY <1>2, <2>1, <2>2 DEF LogsKeep
<1>6. Agree(log'[j], G[t], n)
  BY <1>1, <1>2, <1>5, SMTT(30) DEF Agree
<1>7. QED
  BY <1>4, <1>6

\* And the entries stay safe, unless a majority leaves the term that nobody of the
\* keepers belongs to.
LEMMA SafeStays ==
    ASSUME Types, Types', NEW H, NEW G, LogsInv(H), History(G), Grows(H, G), Compared(H, G),
           NEW t \in Nat, NEW n \in Nat, n \in 1..Len(H[t]), H[t][n] = t, NEW A \in SUBSET Node,
           Safe(t, n, H), Kept(t, n, A, H), ~Abandoned(t, A)'
    PROVE  Safe(t, n, G)
<1>1. History(H) /\ \A i \in Node : log[i] \in Seq(Nat) /\ FollowsTerms(log[i], H)
  BY DEF LogsInv, Types
<1>2. H[t] \in Seq(Nat) /\ G[t] \in Seq(Nat) /\ Agree(G[t], H[t], Len(H[t]))
  BY <1>1, TermOfHistory DEF Grows
<1> SUFFICES ASSUME NEW u \in Nat, u > t, G[u] # <<>>
             PROVE  Agree(G[u], G[t], n)
  BY DEF Safe
<1>3. H[u] \in Seq(Nat) /\ G[u] \in Seq(Nat) /\ Agree(G[u], H[u], Len(H[u]))
  BY <1>1, TermOfHistory DEF Grows
<1>4. Agree(G[u], H[t], n)
  <2>1. CASE H[u] # <<>>
    <3>1. Agree(H[u], H[t], n)
      BY <2>1 DEF Safe
    <3>2. QED
      BY <1>2, <1>3, <3>1, AgreeUp
  <2>2. CASE H[u] = <<>>
    <3>1. PICK i \in Node, Q \in SUBSET Node :
             /\ IsQuorum(Q) /\ G[u] = Append(log[i], u)
             /\ \A j \in Q : currentTerm'[j] = u /\ (j = i \/ upToDate(i, j))
      BY <2>2 DEF Compared
    <3>2. \A j \in Q : currentTerm'[j] > t
      BY <3>1
    <3>3. PICK j \in Q : j \in A
      <4>1. IsQuorum(Q)'
        BY <3>1 DEF IsQuorum, Majority
      <4>2. QED
        BY <3>2, <4>1 DEF Abandoned
    <3>4. Agree(log[j], H[t], n) /\ (j = i \/ upToDate(i, j))
      BY <3>1, <3>3 DEF Kept
    <3>5. Agree(log[i], H[t], n)
      <4>1. CASE j = i
        BY <3>4, <4>1
      <4>2. CASE upToDate(i, j)
        <5>1. \/ LastTerm(log[i]) > LastTerm(log[j])
              \/ LastTerm(log[i]) = LastTerm(log[j]) /\ Len(log[i]) >= Len(log[j])
          BY <4>2 DEF upToDate
        <5>2. QED
          BY <1>1, <3>3, <3>4, <5>1, BetterLog
      <4>3. QED
        BY <3>4, <4>1, <4>2
    <3>6. Agree(G[u], log[i], Len(log[i]))
      BY <1>1, <3>1, AgreeAppend
    <3>7. QED
      BY <1>1, <1>2, <1>3, <3>5, <3>6, AgreeUp
  <2>3. QED
    BY <2>1, <2>2
<1>5. Agree(G[t], H[t], n)
  BY <1>2, AgreeLess, SMTT(30)
<1>6. QED
  BY <1>2, <1>3, <1>4, <1>5, AgreeVia

\* A step that makes progress keeps what is acknowledged true, ...
LEMMA AcksStayTrue ==
    ASSUME Types, Types', NEW H, NEW G, LogsInv(H), LogsInv(G)', Progress(H, G), AcksAreTrue
    PROVE  AcksAreTrue'
<1> SUFFICES ASSUME NEW i \in Node, state'[i] = Leader, NEW n \in Nat \ {0},
                    NEW j \in Ackers(i, n)'
             PROVE  /\ n <= Len(log'[i]) /\ currentTerm'[j] >= currentTerm'[i]
                    /\ currentTerm'[j] = currentTerm'[i] => Agree(log'[j], log'[i], n)
  BY DEF AcksAreTrue
<1>1. j \in Node
  BY DEF Ackers
<1>2. /\ state[i] = Leader /\ currentTerm'[i] = currentTerm[i]
      /\ \/ j \in Ackers(i, n)
         \/ /\ currentTerm[j] = currentTerm[i] /\ currentTerm'[j] = currentTerm[i]
            /\ Agree(log'[j], H[currentTerm[i]], n)
  <2>1. AcksGrow(H)
    BY DEF Progress
  <2>2. QED
    BY <2>1 DEF AcksGrow
<1>3. /\ currentTerm[i] \in Nat /\ currentTerm[j] \in Nat /\ currentTerm'[j] \in Nat
      /\ log[i] \in Seq(Nat) /\ log'[i] \in Seq(Nat) /\ log[j] \in Seq(Nat)
      /\ log'[j] \in Seq(Nat)
  BY <1>1 DEF Types
<1>4. H[currentTerm[i]] = log[i] /\ G[currentTerm[i]] = log'[i]
  <2>1. H[currentTerm[i]] = log[i]
    BY <1>2 DEF LogsInv
  <2>2. G[currentTerm'[i]] = log'[i]
    BY DEF LogsInv
  <2>3. QED
    BY <1>2, <2>1, <2>2
<1>5. Agree(log'[i], log[i], Len(log[i]))
  <2>1. Agree(G[currentTerm[i]], H[currentTerm[i]], Len(H[currentTerm[i]]))
    BY <1>3 DEF Progress, Grows
  <2>2. QED
    BY <1>4, <2>1
<1>6. /\ n <= Len(log[i]) /\ currentTerm'[j] >= currentTerm[i]
      /\ currentTerm'[j] = currentTerm[i] => Agree(log'[j], log[i], n)
  <2>1. CASE j \in Ackers(i, n)
    <3>1. /\ n <= Len(log[i]) /\ currentTerm[j] >= currentTerm[i]
          /\ currentTerm[j] = currentTerm[i] => Agree(log[j], log[i], n)
      BY <1>2, <2>1 DEF AcksAreTrue
    <3>2. currentTerm'[j] >= currentTerm[j]
      BY <1>1 DEF Progress, TermsGrow
    <3>3. ASSUME currentTerm'[j] = currentTerm[i] PROVE Agree(log'[j], log[i], n)
      <4>1. currentTerm[j] = currentTerm[i]
        BY <1>3, <3>1, <3>2, <3>3, SMTT(30)
      <4>2. H[currentTerm[j]] = log[i] /\ Agree(log[j], log[i], n)
        BY <1>4, <3>1, <4>1
      <4>3. CASE Agree(log'[j], log[j], Len(log[j]))
        BY <1>3, <4>2, <4>3, AgreeUp
      <4>4. CASE \A m \in Nat : Agree(log[j], H[currentTerm[j]], m) =>
                                Agree(log'[j], H[currentTerm[j]], m)
        <5>1. Agree(log[j], H[currentTerm[j]], n) => Agree(log'[j], H[currentTerm[j]], n)
          BY <4>4
        <5>2. QED
          BY <4>2, <5>1
      <4>5. QED
        BY <1>1, <4>3, <4>4 DEF Progress, LogsKeep
    <3>4. QED
      BY <1>3, <3>1, <3>2, <3>3, SMTT(30)
  <2>2. CASE /\ currentTerm[j] = currentTerm[i] /\ currentTerm'[j] = currentTerm[i]
             /\ Agree(log'[j], H[currentTerm[i]], n)
    <3>1. Agree(log'[j], log[i], n)
      BY <1>4, <2>2
    <3>2. n <= Len(log[i])
      BY <3>1 DEF Agree
    <3>3. QED
      BY <1>3, <2>2, <3>1, <3>2, SMTT(30)
  <2>3. QED
    BY <1>2, <2>1, <2>2
<1>7. n <= Len(log'[i])
  BY <1>3, <1>5, <1>6, SMTT(30) DEF Agree
<1>8. currentTerm'[j] = currentTerm[i] => Agree(log'[j], log'[i], n)
  BY <1>3, <1>5, <1>6, SMTT(30) DEF Agree
<1>9. QED
  BY <1>2, <1>6, <1>7, <1>8

\* Where a later term has been won, a majority has left the leader's term.
LEMMA LaterTermAbandons ==
    ASSUME Types', NEW G, LogsInv(G)', NEW i \in Node, NEW u \in Nat, u > currentTerm'[i],
           G[u] # <<>>
    PROVE  Abandoned(currentTerm[i], {i})'
<1>1. Elected(u)'
  BY DEF LogsInv
<1>2. PICK Q \in SUBSET Node :
         IsQuorum(Q) /\ \A j \in Q : currentTerm'[j] > u \/ currentTerm'[j] = u
  BY <1>1 DEF Elected, IsQuorum, Majority
<1>3. \A j \in Node : currentTerm'[j] \in Nat
  BY DEF Types
<1>4. \A j \in Q : currentTerm'[j] > currentTerm'[i]
  BY <1>2, <1>3, SMTT(30)
<1>5. Q \cap {i} = {}
  BY <1>3, <1>4, SMTT(30)
<1>6. QED
  BY <1>2, <1>4, <1>5 DEF Abandoned, IsQuorum, Majority

\* ... keeps the entries of a leader safe that it had before, ...
LEMMA OldEntryStaysSafe ==
    ASSUME Types, Types', NEW H, NEW G, LogsInv(H), LogsInv(G)', Progress(H, G),
           EntriesAreSafe(H), NEW i \in Node, state[i] = Leader, state'[i] = Leader,
           NEW t \in Nat, t = currentTerm[i], t = currentTerm'[i],
           NEW n \in Nat, n \in 1..Len(log[i]), log[i][n] = t,
           NEW A \in SUBSET Node, A = {i} \cup Ackers(i, n),
           NEW B \in SUBSET Node, B = {i} \cup Ackers(i, n)',
           \A j \in B : \/ j \in A
                        \/ currentTerm'[j] = t /\ Agree(log'[j], H[t], n)
    PROVE  \/ Abandoned(t, B)'
           \/ Safe(t, n, G) /\ Kept(t, n, B, G)'
<1>1. /\ History(H) /\ History(G) /\ H[t] = log[i] /\ TermsGrow /\ Grows(H, G)
      /\ Compared(H, G) /\ LogsKeep(H)
  BY DEF LogsInv, Progress
<1>2. \A j \in Node : /\ currentTerm[j] \in Nat /\ currentTerm'[j] \in Nat
                      /\ log'[j] \in Seq(Nat) /\ log[j] \in Seq(Nat)
  BY DEF Types
<1>3. ASSUME NEW Q \in SUBSET Node, Q \cap A = {}, \A j \in Q : currentTerm'[j] > t
      PROVE  Q \cap B = {}
  <2> SUFFICES ASSUME NEW j \in Q, j \in B PROVE FALSE
    OBVIOUS
  <2>1. currentTerm'[j] > t /\ j \notin A
    BY <1>3
  <2>2. QED
    BY <1>2, <2>1, SMTT(30)
<1>4. CASE Abandoned(t, A)
  <2>1. PICK Q \in SUBSET Node :
           IsQuorum(Q) /\ Q \cap A = {} /\ \A j \in Q : currentTerm[j] > t
    BY <1>4 DEF Abandoned
  <2>2. \A j \in Q : currentTerm'[j] > t
    BY <1>1, <1>2, <2>1, SMTT(30) DEF TermsGrow
  <2>3. Q \cap B = {}
    BY <1>3, <2>1, <2>2
  <2>4. QED
    BY <2>1, <2>2, <2>3 DEF Abandoned, IsQuorum, Majority
<1>5. CASE Safe(t, n, H) /\ Kept(t, n, A, H)
  <2>1. CASE Abandoned(t, A)'
    <3>1. PICK Q \in SUBSET Node :
             IsQuorum(Q) /\ Q \cap A = {} /\ \A j \in Q : currentTerm'[j] > t
      BY <2>1 DEF Abandoned, IsQuorum, Majority
    <3>2. Q \cap B = {}
      BY <1>3, <3>1
    <3>3. QED
      BY <3>1, <3>2 DEF Abandoned, IsQuorum, Majority
  <2>2. CASE ~Abandoned(t, A)'
    <3>1. n \in 1..Len(H[t]) /\ H[t][n] = t /\ n <= Len(H[t])
      BY <1>1, SMTT(30)
    <3>2. Safe(t, n, G)
      BY <1>1, <1>5, <2>2, <3>1, SafeStays
    <3>3. Kept(t, n, A, G)'
      BY <1>1, <1>5, <3>1, KeptStays
    <3>4. H[t] \in Seq(Nat) /\ G[t] \in Seq(Nat) /\ Agree(G[t], H[t], Len(H[t]))
      BY <1>1, TermOfHistory DEF Grows
    <3>5. ASSUME NEW j \in B PROVE currentTerm'[j] >= t /\ Agree(log'[j], G[t], n)
      <4>1. CASE j \in A
        BY <3>3, <4>1 DEF Kept
      <4>2. CASE currentTerm'[j] = t /\ Agree(log'[j], H[t], n)
        <5>1. Agree(G[t], H[t], n)
          BY <3>1, <3>4, AgreeLess, SMTT(30)
        <5>2. Agree(log'[j], G[t], n)
          BY <1>2, <3>4, <4>2, <5>1, AgreeVia
        <5>3. QED
          BY <4>2, <5>2, SMTT(30)
      <4>3. QED
        BY <4>1, <4>2
    <3>6. QED
      BY <3>2, <3>5 DEF Kept
  <2>3. QED
    BY <2>1, <2>2
<1>6. Abandoned(t, A) \/ (Safe(t, n, H) /\ Kept(t, n, A, H))
  BY DEF EntriesAreSafe
<1>7. QED
  BY <1>4, <1>5, <1>6

\* ... makes safe ones, ...
LEMMA NewEntryIsSafe ==
    ASSUME Types', NEW G, LogsInv(G)', NEW i \in Node, state'[i] = Leader,
           NEW n \in Nat, n <= Len(log'[i]), Ackers(i, n)' \subseteq {i}
    PROVE  LET A == {i} \cup Ackers(i, n)
           IN  (\/ Abandoned(currentTerm[i], A)
                \/ Safe(currentTerm[i], n, G) /\ Kept(currentTerm[i], n, A, G))'
<1>1. {i} \cup Ackers(i, n)' = {i}
  OBVIOUS
<1>2. G[currentTerm'[i]] = log'[i] /\ currentTerm'[i] \in Nat /\ log'[i] \in Seq(Nat)
  BY DEF LogsInv, Types
<1>3. CASE \E u \in Nat : u > currentTerm'[i] /\ G[u] # <<>>
  <2>1. Abandoned(currentTerm[i], {i})'
    BY <1>3, LaterTermAbandons
  <2>2. QED
    BY <1>1, <2>1
<1>4. CASE ~ \E u \in Nat : u > currentTerm'[i] /\ G[u] # <<>>
  <2>1. Safe(currentTerm'[i], n, G)
    BY <1>4 DEF Safe
  <2>2. currentTerm'[i] >= currentTerm'[i] /\ Agree(log'[i], log'[i], n)
    BY <1>2, AgreeSelf, SMTT(30)
  <2>3. Kept(currentTerm[i], n, {i}, G)'
    BY <1>2, <2>2 DEF Kept
  <2>4. Safe(currentTerm[i], n, G)'
    BY <2>1 DEF Safe, Agree
  <2>5. QED
    BY <1>1, <2>3, <2>4
<1>5. QED
  BY <1>3, <1>4

LEMMA EntriesStaySafe ==
    ASSUME Types, Types', NEW H, NEW G, LogsInv(H), LogsInv(G)', Progress(H, G), AcksAreTrue,
           AcksAreTrue', EntriesAreSafe(H)
    PROVE  EntriesAreSafe(G)'
<1> SUFFICES ASSUME NEW i \in Node, state'[i] = Leader, NEW n \in 1..Len(log'[i]),
                    log'[i][n] = currentTerm'[i]
             PROVE  LET A == {i} \cup Ackers(i, n)
                    IN  (\/ Abandoned(currentTerm[i], A)
                         \/ Safe(currentTerm[i], n, G) /\ Kept(currentTerm[i], n, A, G))'
  BY DEF EntriesAreSafe
<1>1. /\ currentTerm[i] \in Nat /\ currentTerm'[i] \in Nat /\ log[i] \in Seq(Nat)
      /\ log'[i] \in Seq(Nat) /\ n \in Nat /\ n \in Nat \ {0} /\ n <= Len(log'[i])
  BY SMTT(30) DEF Types
<1>2. CASE Ackers(i, n)' \subseteq {i}
  BY <1>1, <1>2, NewEntryIsSafe
<1>3. CASE ~(Ackers(i, n)' \subseteq {i})
  <2>1. /\ state[i] = Leader /\ currentTerm'[i] = currentTerm[i]
        /\ \A j \in Ackers(i, n)' :
              \/ j \in Ackers(i, n)
              \/ /\ currentTerm[j] = currentTerm[i] /\ currentTerm'[j] = currentTerm[i]
                 /\ Agree(log'[j], H[currentTerm[i]], n)
    <3>1. AcksGrow(H) /\ Ackers(i, n)' # {}
      BY <1>3 DEF Progress
    <3>2. QED
      BY <1>1, <3>1 DEF AcksGrow
  <2>2. H[currentTerm[i]] = log[i] /\ G[currentTerm[i]] = log'[i]
    <3>1. H[currentTerm[i]] = log[i]
      BY <2>1 DEF LogsInv
    <3>2. G[currentTerm'[i]] = log'[i]
      BY DEF LogsInv
    <3>3. QED
      BY <2>1, <3>1, <3>2
  <2>3. Agree(log'[i], log[i], Len(log[i]))
    <3>1. Agree(G[currentTerm[i]], H[currentTerm[i]], Len(H[currentTerm[i]]))
      BY <1>1 DEF Progress, Grows
    <3>2. QED
      BY <2>2, <3>1
  <2>4. n \in 1..Len(log[i])
    <3>1. PICK j \in Ackers(i, n)' : TRUE
      BY <1>3
    <3>2. CASE j \in Ackers(i, n)
      <4>1. n <= Len(log[i])
        BY <1>1, <2>1, <3>2 DEF AcksAreTrue
      <4>2. QED
        BY <1>1, <4>1, SMTT(30)
    <3>3. CASE Agree(log'[j], H[currentTerm[i]], n)
      <4>1. n <= Len(H[currentTerm[i]])
        BY <3>3 DEF Agree
      <4>2. QED
        BY <1>1, <2>2, <4>1, SMTT(30)
    <3>4. QED
      BY <2>1, <3>2, <3>3
  <2>5. log[i][n] = currentTerm[i]
    BY <2>1, <2>3, <2>4 DEF Agree
  <2>6. PICK A \in SUBSET Node : A = {i} \cup Ackers(i, n)
    BY DEF Ackers
  <2>7. PICK B \in SUBSET Node : B = {i} \cup Ackers(i, n)'
    BY DEF Ackers
  <2>8. PICK t \in Nat : t = currentTerm[i] /\ t = currentTerm'[i]
    BY <1>1, <2>1
  <2>9. \A j \in B : j \in A \/ (currentTerm'[j] = t /\ Agree(log'[j], H[t], n))
    BY <2>1, <2>6, <2>7, <2>8
  <2>10. Abandoned(t, B)' \/ (Safe(t, n, G) /\ Kept(t, n, B, G)')
    BY <1>1, <2>1, <2>4, <2>5, <2>6, <2>7, <2>8, <2>9, OldEntryStaysSafe
  <2>11. QED
    BY <2>7, <2>8, <2>10 DEF Abandoned, Safe, Kept, IsQuorum, Majority
<1>4. QED
  BY <1>2, <1>3

\* ... and commits only what is safe.
LEMMA ChosenStaySafe ==
    ASSUME QuorumsMeet, Types, Types', NEW H, NEW G, LogsInv(H), LogsInv(G)', Progress(H, G),
           EntriesAreSafe(G)', ChosenAreSafe(H)
    PROVE  ChosenAreSafe(G)'
<1>1. /\ History(H) /\ History(G) /\ TermsGrow /\ Grows(H, G) /\ Compared(H, G) /\ LogsKeep(H)
  BY DEF LogsInv, Progress
<1> SUFFICES ASSUME NEW c \in chosen'
             PROVE  \E n \in Nat, Q \in SUBSET Node :
                       /\ c.index \in 1..n /\ n <= Len(G[c.by])
                       /\ G[c.by][n] = c.by /\ G[c.by][c.index] = c.term
                       /\ Safe(c.by, n, G) /\ IsQuorum(Q) /\ Kept(c.by, n, Q, G)'
  BY DEF ChosenAreSafe, Safe, IsQuorum, Majority
<1>2. c.by \in Nat
  BY DEF Types
<1>3. /\ H[c.by] \in Seq(Nat) /\ G[c.by] \in Seq(Nat)
      /\ Agree(G[c.by], H[c.by], Len(H[c.by]))
  BY <1>1, <1>2, TermOfHistory DEF Grows
<1>4. CASE c \in chosen
  <2>1. PICK n \in Nat, Q \in SUBSET Node :
           /\ c.index \in 1..n /\ n <= Len(H[c.by])
           /\ H[c.by][n] = c.by /\ H[c.by][c.index] = c.term
           /\ Safe(c.by, n, H) /\ IsQuorum(Q) /\ Kept(c.by, n, Q, H)
    BY <1>4 DEF ChosenAreSafe
  <2>2. n \in 1..Len(H[c.by])
    BY <1>3, <2>1, SMTT(30)
  <2>3. ~Abandoned(c.by, Q)'
    <3> SUFFICES ASSUME NEW S \in SUBSET Node, IsQuorum(S), S \cap Q = {} PROVE FALSE
      BY DEF Abandoned, IsQuorum, Majority
    <3>1. QED
      BY <2>1 DEF QuorumsMeet
  <2>4. Safe(c.by, n, G)
    BY <1>1, <1>2, <2>1, <2>2, <2>3, SafeStays
  <2>5. Kept(c.by, n, Q, G)'
    BY <1>1, <1>2, <2>1, KeptStays
  <2>6. n <= Len(G[c.by]) /\ G[c.by][n] = c.by /\ G[c.by][c.index] = c.term
    <3>1. c.index \in 1..Len(H[c.by])
      BY <1>3, <2>1, SMTT(30)
    <3>2. G[c.by][n] = H[c.by][n] /\ G[c.by][c.index] = H[c.by][c.index]
      BY <1>3, <2>2, <3>1 DEF Agree
    <3>3. Len(H[c.by]) <= Len(G[c.by])
      BY <1>3 DEF Agree
    <3>4. QED
      BY <1>3, <2>1, <3>2, <3>3, SMTT(30)
  <2>7. QED
    BY <2>1, <2>4, <2>5, <2>6
<1>5. CASE \E i \in Node, n \in Nat :
              /\ state'[i] = Leader /\ currentTerm'[i] = c.by
              /\ c.index \in 1..n /\ n <= Len(log'[i])
              /\ log'[i][n] = c.by /\ log'[i][c.index] = c.term
              /\ IsQuorum({i} \cup Ackers(i, n)')
  <2>1. PICK i \in Node, n \in Nat :
              /\ state'[i] = Leader /\ currentTerm'[i] = c.by
              /\ c.index \in 1..n /\ n <= Len(log'[i])
              /\ log'[i][n] = c.by /\ log'[i][c.index] = c.term
              /\ IsQuorum({i} \cup Ackers(i, n)')
    BY <1>5
  <2>2. G[c.by] = log'[i] /\ n \in 1..Len(log'[i])
    <3>1. G[currentTerm'[i]] = log'[i]
      BY <2>1 DEF LogsInv
    <3>2. log'[i] \in Seq(Nat)
      BY DEF Types
    <3>3. QED
      BY <2>1, <3>1, <3>2, SMTT(30)
  <2>3. PICK B \in SUBSET Node : B = {i} \cup Ackers(i, n)'
    BY DEF Ackers
  <2>4. IsQuorum(B)
    BY <2>1, <2>3
  <2>5. Abandoned(c.by, B)' \/ (Safe(c.by, n, G) /\ Kept(c.by, n, B, G)')
    BY <2>1, <2>2, <2>3 DEF EntriesAreSafe, Abandoned, Safe, Kept, IsQuorum, Majority
  <2>6. ~Abandoned(c.by, B)'
    <3> SUFFICES ASSUME NEW S \in SUBSET Node, IsQuorum(S), S \cap B = {} PROVE FALSE
      BY DEF Abandoned, IsQuorum, Majority
    <3>1. QED
      BY <2>4 DEF QuorumsMeet
  <2>7. QED
    BY <2>1, <2>2, <2>4, <2>5, <2>6
<1>6. QED
  BY <1>4, <1>5 DEF Progress, CommitsAcked

LEMMA AcksStep ==
    ASSUME QuorumsMeet, Types, Types', NEW H, NEW G, LogsInv(H), LogsInv(G)', Progress(H, G),
           AcksInv(H)
    PROVE  AcksInv(G)'
<1>1. AcksAreTrue /\ EntriesAreSafe(H) /\ ChosenAreSafe(H)
  BY DEF AcksInv
<1>2. AcksAreTrue'
  BY <1>1, AcksStayTrue
<1>3. EntriesAreSafe(G)'
  BY <1>1, <1>2, EntriesStaySafe
<1>4. ChosenAreSafe(G)'
  BY <1>1, <1>3, ChosenStaySafe
<1>5. QED
  BY <1>2, <1>3, <1>4 DEF AcksInv

-----------------------------------------------------------------------------
(* Steps that make no entry.                                               *)

LEMMA QuietLogs ==
    ASSUME Types, Types', NEW H, LogsInv(H), Quiet(H)
    PROVE  LogsInv(H)'
<1>1. History(H)
  BY DEF LogsInv
<1>2. \A t \in Nat : H[t] # <<>> => Elected(t)'
  BY DEF LogsInv, ElectedStay, Quiet
<1>3. ASSUME NEW i \in Node
      PROVE  /\ FollowsTerms(log'[i], H)
             /\ \A b \in 1..Len(log'[i]) : log'[i][b] <= currentTerm'[i]
  <2>1. CASE log'[i] = log[i]
    <3>1. FollowsTerms(log[i], H) /\ \A b \in 1..Len(log[i]) : log[i][b] <= currentTerm[i]
      BY DEF LogsInv
    <3>2. /\ log[i] \in Seq(Nat) /\ currentTerm'[i] >= currentTerm[i]
          /\ currentTerm[i] \in Nat /\ currentTerm'[i] \in Nat
      BY DEF Quiet, TermsGrow, Types
    <3>3. \A b \in 1..Len(log[i]) : log[i][b] <= currentTerm'[i]
      BY <3>1, <3>2, SMTT(30)
    <3>4. QED
      BY <2>1, <3>1, <3>3
  <2>2. CASE TakesOver(i, H)
    BY <2>2 DEF TakesOver
  <2>3. QED
    BY <2>1, <2>2 DEF Quiet
<1>4. ASSUME NEW i \in Node, state'[i] = Leader
      PROVE  log'[i] # <<>> /\ H[currentTerm'[i]] = log'[i]
  <2>1. state[i] = Leader /\ currentTerm'[i] = currentTerm[i] /\ ~TakesOver(i, H)
    BY <1>4 DEF Quiet, LeadersStay, TakesOver
  <2>2. log[i] # <<>> /\ H[currentTerm[i]] = log[i]
    BY <2>1 DEF LogsInv
  <2>3. QED
    BY <2>1, <2>2 DEF Quiet
<1>5. \A m \in requests' \cup handling' : Shows(m, H)
  BY DEF LogsInv, Quiet
<1>6. \A m \in replies' : H[m.req] # <<>>
  BY DEF LogsInv, Answers, Quiet
<1>7. \A m \in handling' : currentTerm'[m.to] = m.term
  BY DEF Quiet
<1>8. QED
  BY <1>1, <1>2, <1>3, <1>4, <1>5, <1>6, <1>7 DEF LogsInv, Shows, TermAt

LEMMA QuietProgress ==
    ASSUME Types, Types', NEW H, LogsInv(H), Quiet(H), CommitsAcked
    PROVE  Progress(H, H)
<1>1. TermsGrow
  BY DEF Quiet
<1>2. Grows(H, H)
  BY TermOfHistory, AgreeSelf, SMTT(30) DEF Grows, LogsInv
<1>3. Compared(H, H)
  BY DEF Compared
<1>4. LogsKeep(H)
  <2> SUFFICES ASSUME NEW j \in Node, log'[j] = log[j]
               PROVE  Agree(log'[j], log[j], Len(log[j]))
    BY DEF Quiet, LogsKeep, TakesOver
  <2>1. log[j] \in Seq(Nat) /\ Len(log[j]) \in Nat
    BY SMTT(30) DEF Types
  <2>2. Agree(log[j], log[j], Len(log[j]))
    BY <2>1, AgreeSelf, SMTT(30)
  <2>3. QED
    BY <2>2
<1>5. AcksGrow(H)
  <2> SUFFICES ASSUME NEW i \in Node, state'[i] = Leader, NEW n \in Nat \ {0},
                      NEW j \in Ackers(i, n)', j \notin Ackers(i, n)
               PROVE  /\ currentTerm[j] = currentTerm[i] /\ currentTerm'[j] = currentTerm[i]
                      /\ Agree(log'[j], H[currentTerm[i]], n)
    BY DEF Quiet, AcksGrow, LeadersStay
  <2>1. state[i] = Leader /\ currentTerm'[i] = currentTerm[i] /\ currentTerm[i] \in Nat
    BY DEF Quiet, LeadersStay, Types
  <2>2. j \in Node
    BY DEF Ackers
  <2>3. CASE matchIndex'[i][j] >= n
    <3>1. CASE matchIndex'[i][j] = matchIndex[i][j]
      BY <2>2, <2>3, <3>1 DEF Ackers
    <3>2. CASE \E m \in replies : /\ m.from = j /\ m.to = i /\ m.req = currentTerm[i]
                                  /\ m.success /\ m.match = matchIndex'[i][j]
      BY <2>2, <2>3, <3>2 DEF Ackers
    <3>3. Books(i)
      BY DEF Quiet
    <3>4. QED
      BY <2>2, <3>1, <3>2, <3>3 DEF Books
  <2>4. CASE \E m \in replies' : /\ m.from = j /\ m.to = i /\ m.req = currentTerm'[i]
                                 /\ m.success /\ m.match >= n
    <3>1. PICK m \in replies' : /\ m.from = j /\ m.to = i /\ m.req = currentTerm'[i]
                                /\ m.success /\ m.match >= n
      BY <2>4
    <3>2. m \notin replies
      BY <2>1, <2>2, <3>1 DEF Ackers
    <3>3. Answers(m, H)
      BY <3>2 DEF Quiet
    <3>4. /\ currentTerm[j] = currentTerm[i] /\ currentTerm'[j] = currentTerm[i]
          /\ Agree(log'[j], H[currentTerm[i]], m.match)
      BY <2>1, <3>1, <3>3 DEF Answers
    <3>5. log'[j] \in Seq(Nat) /\ m.match \in Nat /\ n \in Nat
      BY <2>2 DEF Types, Reply
    <3>8. History(H)
      BY DEF LogsInv
    <3>9. H[currentTerm[i]] \in Seq(Nat)
      BY <2>1, <3>8, TermOfHistory
    <3>6. Agree(log'[j], H[currentTerm[i]], n)
      BY <3>1, <3>4, <3>5, <3>9, AgreeLess
    <3>7. QED
      BY <3>4, <3>6
  <2>5. QED
    BY <2>3, <2>4 DEF Ackers
<1>6. QED
  BY <1>1, <1>2, <1>3, <1>4, <1>5 DEF Progress

-----------------------------------------------------------------------------
(* Steps that make an entry: leader i of term t appends it.                *)

LEMMA FollowsGrown ==
    ASSUME NEW H, NEW G, History(H), \A u \in Nat : G[u] \in Seq(Nat), Grows(H, G),
           NEW l \in Seq(Nat), FollowsTerms(l, H)
    PROVE  FollowsTerms(l, G)
<1> SUFFICES ASSUME NEW b \in 1..Len(l) PROVE l[b] > 0 /\ Agree(l, G[l[b]], b)
  BY DEF FollowsTerms
<1>1. l[b] > 0 /\ Agree(l, H[l[b]], b) /\ l[b] \in Nat /\ b \in Nat
  BY SMTT(30) DEF FollowsTerms
<1>2. H[l[b]] \in Seq(Nat) /\ G[l[b]] \in Seq(Nat)
  BY <1>1, TermOfHistory
<1>3. Agree(G[l[b]], H[l[b]], Len(H[l[b]]))
  BY <1>1 DEF Grows
<1>4. b <= Len(H[l[b]])
  BY <1>1 DEF Agree
<1>5. Agree(G[l[b]], H[l[b]], b)
  BY <1>1, <1>2, <1>3, <1>4, AgreeLess, SMTT(30)
<1>6. QED
  BY <1>1, <1>2, <1>5, AgreeVia

LEMMA ShowsGrown ==
    ASSUME NEW H, NEW G, History(H), \A u \in Nat : G[u] \in Seq(Nat), Grows(H, G),
           NEW m \in Request, m.next > 0, Shows(m, H)
    PROVE  Shows(m, G)
<1>1. PICK h \in Seq(Nat), g \in Seq(Nat) : h = H[m.term] /\ g = G[m.term]
  BY TermOfHistory DEF Request
<1>2. Agree(g, h, Len(h))
  BY <1>1 DEF Grows, Request
<1>3. m.next \in Nat /\ m.entries \in Seq(Nat)
  BY DEF Request
<1>4. /\ h # <<>> /\ m.next - 1 + Len(m.entries) <= Len(h) /\ m.prevTerm = TermAt(h, m.next - 1)
      /\ \A k \in 1..Len(m.entries) : m.entries[k] = h[m.next - 1 + k]
  BY <1>1 DEF Shows
<1>5. g # <<>> /\ m.next - 1 + Len(m.entries) <= Len(g)
  BY <1>2, <1>3, <1>4, SMTT(30) DEF Agree
<1>6. m.prevTerm = TermAt(g, m.next - 1)
  <2>1. m.next - 1 = 0 \/ m.next - 1 \in 1..Len(h)
    BY <1>3, <1>4, SMTT(30)
  <2>2. TermAt(g, m.next - 1) = TermAt(h, m.next - 1)
    BY <1>2, <2>1 DEF Agree, TermAt
  <2>3. QED
    BY <1>4, <2>2
<1>7. ASSUME NEW k \in 1..Len(m.entries) PROVE m.entries[k] = g[m.next - 1 + k]
  <2>1. m.next - 1 + k \in 1..Len(h)
    BY <1>3, <1>4, SMTT(30)
  <2>2. g[m.next - 1 + k] = h[m.next - 1 + k]
    BY <1>2, <2>1 DEF Agree
  <2>3. QED
    BY <1>4, <2>2
<1>8. QED
  BY <1>1, <1>5, <1>6, <1>7 DEF Shows

LEMMA HistoryGrows ==
    ASSUME NEW H, NEW l \in Seq(Nat), NEW t \in Nat, MayGrow(H, l, t), NEW G, G = Grown(H, l, t)
    PROVE  HasGrown(H, G, l, t)
<1>0. /\ History(H) /\ FollowsTerms(l, H) /\ t > 0 /\ (H[t] = l \/ H[t] = <<>>)
      /\ \A b \in 1..Len(l) : l[b] <= t
  BY DEF MayGrow
<1>1. H \in [Nat -> Seq(Nat)]
  BY <1>0 DEF History
<1>2. PICK k \in Seq(Nat) : k = Append(l, t)
  BY AgreeAppend
<1>3. Agree(k, l, Len(l)) /\ Len(k) = Len(l) + 1 /\ k[Len(l) + 1] = t
  BY <1>2, AgreeAppend, SMTT(30)
<1>4. /\ G \in [Nat -> Seq(Nat)] /\ G[t] = k
      /\ \A u \in Nat : G[u] \in Seq(Nat) /\ (u # t => G[u] = H[u])
  BY <1>1, <1>2 DEF Grown
<1>5. Grows(H, G)
  <2> SUFFICES ASSUME NEW u \in Nat PROVE Agree(G[u], H[u], Len(H[u]))
    BY DEF Grows
  <2>1. H[u] \in Seq(Nat)
    BY <1>1
  <2>2. CASE u # t
    <3>1. Agree(H[u], H[u], Len(H[u]))
      BY <2>1, AgreeSelf, SMTT(30)
    <3>2. QED
      BY <1>4, <2>2, <3>1
  <2>3. CASE u = t /\ H[t] = l
    BY <1>3, <1>4, <2>3
  <2>4. CASE u = t /\ H[t] = <<>>
    BY <1>4, <2>4, SMTT(30) DEF Agree
  <2>5. QED
    BY <1>0, <2>2, <2>3, <2>4
<1>6. FollowsTerms(l, G)
  BY <1>0, <1>4, <1>5, FollowsGrown
<1>7. FollowsTerms(k, G)
  <2> SUFFICES ASSUME NEW b \in 1..Len(k) PROVE k[b] > 0 /\ Agree(k, G[k[b]], b)
    BY DEF FollowsTerms
  <2>1. CASE b = Len(l) + 1
    <3>1. k[b] = t /\ b <= Len(k) /\ b \in Nat
      BY <1>3, <2>1, SMTT(30)
    <3>2. Agree(k, k, b)
      BY <3>1, AgreeSelf
    <3>3. QED
      BY <1>0, <1>4, <3>1, <3>2
  <2>2. CASE b \in 1..Len(l)
    <3>0. l[b] > 0 /\ Agree(l, G[l[b]], b)
      BY <1>6, <2>2 DEF FollowsTerms
    <3>1. k[b] = l[b] /\ l[b] > 0 /\ Agree(l, G[l[b]], b)
      BY <1>3, <2>2, <3>0 DEF Agree
    <3>2. b \in Nat /\ l[b] \in Nat
      BY <2>2, SMTT(30)
    <3>3. PICK g \in Seq(Nat) : g = G[l[b]]
      BY <1>4, <3>2
    <3>4. Agree(l, g, b)
      BY <3>1, <3>3
    <3>5. Agree(k, g, b)
      BY <1>3, <3>2, <3>4, AgreeUp
    <3>6. QED
      BY <3>1, <3>3, <3>5
  <2>3. QED
    BY <1>3, <2>1, <2>2, SMTT(30)
<1>8. ASSUME NEW u \in Nat
      PROVE  FollowsTerms(G[u], G) /\ \A b \in 1..Len(G[u]) : G[u][b] <= u
  <2>1. CASE u = t
    <3>1. \A b \in 1..Len(k) : k[b] <= t
      BY <1>0, <1>3, SMTT(30) DEF Agree
    <3>2. QED
      BY <1>4, <1>7, <2>1, <3>1
  <2>2. CASE u # t
    <3>1. H[u] \in Seq(Nat) /\ FollowsTerms(H[u], H) /\ \A b \in 1..Len(H[u]) : H[u][b] <= u
      BY <1>0, TermOfHistory
    <3>2. FollowsTerms(H[u], G)
      BY <1>0, <1>4, <1>5, <3>1, FollowsGrown
    <3>3. QED
      BY <1>4, <2>2, <3>1, <3>2
  <2>3. QED
    BY <2>1, <2>2
<1>9. History(G)
  BY <1>4, <1>8 DEF History
<1>10. QED
  BY <1>2, <1>4, <1>5, <1>7, <1>9 DEF HasGrown

LEMMA EntryLogs ==
    ASSUME Types, Types', RequestsStart, NEW H, LogsInv(H), NEW i \in Node, NEW t \in Nat,
           MakesEntry(i, t, H), NEW G, G = Grown(H, log[i], t)
    PROVE  LogsInv(G)' /\ Grows(H, G)
<1>1. /\ \A j \in Node : log[j] \in Seq(Nat) /\ log'[j] \in Seq(Nat) /\ currentTerm[j] \in Nat
                         /\ currentTerm'[j] \in Nat
  BY DEF Types
<1>11. /\ \A j \in Node : j # i => log'[j] = log[j]
       /\ log'[i] = Append(log[i], t)
  BY DEF Types, MakesEntry
<1>12. /\ \A j \in Node : currentTerm'[j] >= currentTerm[j]
       /\ Elected(t)' /\ t > 0 /\ currentTerm'[i] = t
       /\ \A b \in 1..Len(log[i]) : log[i][b] <= t
       /\ H[t] = log[i] \/ H[t] = <<>>
  BY DEF MakesEntry, TermsGrow
<1>2. History(H) /\ \A j \in Node : FollowsTerms(log[j], H)
  BY DEF LogsInv
<1>3. /\ History(G) /\ Grows(H, G) /\ G[t] = log'[i] /\ FollowsTerms(log'[i], G)
      /\ log'[i] # <<>> /\ \A u \in Nat : u # t => G[u] = H[u]
  <2>1. PICK l \in Seq(Nat) : l = log[i]
    BY <1>1
  <2>2. /\ FollowsTerms(l, H) /\ \A b \in 1..Len(l) : l[b] <= t
        /\ H[t] = l \/ H[t] = <<>>
        /\ G = Grown(H, l, t) /\ log'[i] = Append(l, t)
    BY <1>2, <1>11, <1>12, <2>1
  <2>6. MayGrow(H, l, t)
    BY <1>2, <1>12, <2>2 DEF MayGrow
  <2>3. HasGrown(H, G, l, t)
    BY <2>2, <2>6, HistoryGrows
  <2>4. Append(l, t) # <<>>
    BY SMTT(30)
  <2>5. QED
    BY <2>2, <2>3, <2>4 DEF HasGrown
<1>4. \A u \in Nat : G[u] \in Seq(Nat)
  BY <1>3, TermOfHistory
<1>5. \A u \in Nat : G[u] # <<>> => Elected(u)'
  <2> SUFFICES ASSUME NEW u \in Nat, G[u] # <<>>, u # t PROVE Elected(u)'
    BY <1>12
  <2>1. Elected(u)
    BY <1>3 DEF LogsInv
  <2>2. QED
    BY <2>1 DEF MakesEntry, ElectedStay
<1>6. ASSUME NEW j \in Node
      PROVE  /\ FollowsTerms(log'[j], G)
             /\ \A b \in 1..Len(log'[j]) : log'[j][b] <= currentTerm'[j]
  <2>1. CASE j = i
    <3>1. G[t] \in Seq(Nat) /\ \A b \in 1..Len(G[t]) : G[t][b] <= t
      BY <1>3, TermOfHistory
    <3>2. log'[j] = G[t] /\ currentTerm'[j] = t /\ FollowsTerms(log'[j], G)
      BY <1>3, <1>12, <2>1
    <3>3. \A b \in 1..Len(log'[j]) : log'[j][b] <= t
      BY <3>1, <3>2
    <3>4. QED
      BY <3>2, <3>3
  <2>2. CASE j # i
    <3>1. FollowsTerms(log[j], G)
      <4>1. PICK l \in Seq(Nat) : l = log[j]
        BY <1>1
      <4>2. FollowsTerms(l, H)
        BY <1>2, <4>1
      <4>3. FollowsTerms(l, G)
        BY <1>2, <1>3, <1>4, <4>2, FollowsGrown
      <4>4. QED
        BY <4>1, <4>3
    <3>2. \A b \in 1..Len(log[j]) : log[j][b] <= currentTerm[j]
      BY DEF LogsInv
    <3>3. currentTerm'[j] >= currentTerm[j]
      BY <1>12
    <3>4. \A b \in 1..Len(log[j]) : log[j][b] <= currentTerm'[j]
      BY <1>1, <3>2, <3>3, SMTT(30)
    <3>5. QED
      BY <1>11, <2>2, <3>1, <3>4
  <2>3. QED
    BY <2>1, <2>2
<1>7. ASSUME NEW j \in Node, state'[j] = Leader
      PROVE  log'[j] # <<>> /\ G[currentTerm'[j]] = log'[j]
  <2>1. CASE j = i
    <3>1. log'[i] # <<>>
      BY <1>3
    <3>2. QED
      BY <1>3, <1>12, <2>1, <3>1
  <2>2. CASE j # i
    <3>1. state[j] = Leader /\ currentTerm'[j] = currentTerm[j] /\ currentTerm[j] # t
      BY <1>7, <2>2 DEF MakesEntry
    <3>2. log[j] # <<>> /\ H[currentTerm[j]] = log[j]
      BY <3>1 DEF LogsInv
    <3>3. QED
      BY <1>1, <1>3, <1>11, <2>2, <3>1, <3>2
  <2>3. QED
    BY <2>1, <2>2
<1>8. ASSUME NEW m \in requests' \cup handling' PROVE Shows(m, G)
  <2>0. m \in requests \cup handling
    BY DEF MakesEntry
  <2>1. m \in requests \cup handling /\ m \in Request /\ m.next > 0
    BY <2>0 DEF Types, RequestsStart
  <2>2. Shows(m, H)
    BY <2>1 DEF LogsInv
  <2>3. QED
    BY <1>2, <1>3, <1>4, <2>1, <2>2, ShowsGrown
<1>9. ASSUME NEW m \in replies' PROVE G[m.req] # <<>>
  <2>0. m \in replies
    BY DEF MakesEntry
  <2>1. H[m.req] # <<>> /\ m.req \in Nat
    <3>1. m \in Reply
      BY <2>0 DEF Types
    <3>2. H[m.req] # <<>>
      BY <2>0 DEF LogsInv
    <3>3. QED
      BY <3>1, <3>2 DEF Reply
  <2>2. CASE m.req = t
    <3>1. log'[i] # <<>>
      BY <1>3
    <3>2. QED
      BY <1>3, <2>2, <3>1
  <2>3. CASE m.req # t
    BY <1>3, <2>1, <2>3
  <2>4. QED
    BY <2>2, <2>3
<1>13. \A m \in handling' : currentTerm'[m.to] = m.term
  BY DEF MakesEntry
<1>10. QED
  BY <1>13, <1>3, <1>5, <1>6, <1>7, <1>8, <1>9 DEF LogsInv, Shows, TermAt

-----------------------------------------------------------------------------
(* The invariant.                                                          *)

\* A step that makes an entry, seen from the history.
LEMMA EntryProgress ==
    ASSUME Types, Types', RequestsStart, NEW H, LogsInv(H), NEW i \in Node, NEW t \in Nat,
           Enters(i, t, H), NEW G, G = Grown(H, log[i], t)
    PROVE  LogsInv(G)' /\ Progress(H, G) /\ G \in [Nat -> Seq(Nat)]
<1>1. MakesEntry(i, t, H) /\ AcksGrow(H) /\ CommitsAcked
  BY DEF Enters
<1>2. LogsInv(G)' /\ Grows(H, G)
  BY <1>1, EntryLogs
<1>3. TermsGrow /\ log' = [log EXCEPT ![i] = Append(log[i], t)]
  BY <1>1 DEF MakesEntry
<1>4. H \in [Nat -> Seq(Nat)] /\ \A j \in Node : log[j] \in Seq(Nat)
  BY DEF LogsInv, History, Types
<1>5. /\ log'[i] = Append(log[i], t) /\ \A j \in Node : j # i => log'[j] = log[j]
  BY <1>3 DEF Types
<1>6. PICK l \in Seq(Nat) : l = log[i]
  BY <1>4
<1>7. Append(l, t) \in Seq(Nat) /\ Agree(Append(l, t), l, Len(l))
  BY AgreeAppend
<1>8. G \in [Nat -> Seq(Nat)] /\ G[t] = Append(l, t) /\ \A u \in Nat : u # t => G[u] = H[u]
  BY <1>4, <1>6, <1>7 DEF Grown
<1>9. Compared(H, G)
  <2> SUFFICES ASSUME NEW u \in Nat, H[u] = <<>>, G[u] # <<>>
               PROVE  \E k \in Node, Q \in SUBSET Node :
                         /\ IsQuorum(Q) /\ G[u] = Append(log[k], u)
                         /\ \A j \in Q : currentTerm'[j] = u /\ (j = k \/ upToDate(k, j))
    BY DEF Compared
  <2>1. u = t
    BY <1>8
  <2>2. PICK Q \in SUBSET Node :
           IsQuorum(Q) /\ \A j \in Q : currentTerm'[j] = t /\ (j = i \/ upToDate(i, j))
    BY <2>1 DEF Enters
  <2>3. QED
    BY <1>6, <1>8, <2>1, <2>2
<1>10. LogsKeep(H)
  <2> SUFFICES ASSUME NEW j \in Node PROVE Agree(log'[j], log[j], Len(log[j]))
    BY DEF LogsKeep
  <2>1. CASE j = i
    BY <1>5, <1>6, <1>7, <2>1
  <2>2. CASE j # i
    <3>1. log[j] \in Seq(Nat) /\ Len(log[j]) \in Nat
      BY <1>4, SMTT(30)
    <3>2. Agree(log[j], log[j], Len(log[j]))
      BY <3>1, AgreeSelf, SMTT(30)
    <3>3. QED
      BY <1>5, <2>2, <3>2
  <2>3. QED
    BY <2>1, <2>2
<1>11. QED
  BY <1>1, <1>2, <1>3, <1>8, <1>9, <1>10 DEF Progress

\* Every step keeps the invariant, with the history that the step makes of it.
LEMMA HistoryMoves ==
    ASSUME QuorumsMeet, Types, Types', RequestsStart, NEW H \in [Nat -> Seq(Nat)],
           LogsInv(H), AcksInv(H), HistoryStep(H)
    PROVE  \E G \in [Nat -> Seq(Nat)] : LogsInv(G)' /\ Progress(H, G) /\ AcksInv(G)'
<1>1. CASE Quiet(H) /\ CommitsAcked
  <2>1. LogsInv(H)' /\ Progress(H, H)
    BY <1>1, QuietLogs, QuietProgress
  <2>2. AcksInv(H)'
    BY <2>1, AcksStep
  <2>3. QED
    BY <2>1, <2>2
<1>2. ASSUME NEW i \in Node, NEW t \in Nat, Enters(i, t, H)
      PROVE  \E G \in [Nat -> Seq(Nat)] : LogsInv(G)' /\ Progress(H, G) /\ AcksInv(G)'
  <2>1. PICK G : G = Grown(H, log[i], t)
    OBVIOUS
  <2>2. LogsInv(G)' /\ Progress(H, G) /\ G \in [Nat -> Seq(Nat)]
    BY <1>2, <2>1, EntryProgress
  <2>3. AcksInv(G)'
    BY <2>2, AcksStep
  <2>4. QED
    BY <2>2, <2>3
<1>3. QED
  BY <1>1, <1>2 DEF HistoryStep

LEMMA InitHistory ==
    ASSUME Init
    PROVE  LogsInv([t \in Nat |-> <<>>]) /\ AcksInv([t \in Nat |-> <<>>])
<1>1. PICK H : H = [t \in Nat |-> <<>>]
  OBVIOUS
<1>2. H \in [Nat -> Seq(Nat)] /\ \A t \in Nat : H[t] = <<>> /\ Len(H[t]) = 0
  BY <1>1, SMTT(30)
<1>3. /\ \A i \in Node : log[i] = <<>> /\ Len(log[i]) = 0 /\ state[i] # Leader
      /\ requests = {} /\ handling = {} /\ replies = {} /\ chosen = {}
  BY DEF Init, Follower, Leader
<1>4. 1..0 = {}
  BY SMTT(30)
<1>5. History(H)
  BY <1>2, <1>4 DEF History, FollowsTerms
<1>6. LogsInv(H)
  BY <1>2, <1>3, <1>4, <1>5 DEF LogsInv, FollowsTerms
<1>7. AcksInv(H)
  BY <1>3 DEF AcksInv, AcksAreTrue, EntriesAreSafe, ChosenAreSafe
<1>8. QED
  BY <1>1, <1>6, <1>7

LEMMA LeadersAreComplete ==
    ASSUME NEW H, LogsInv(H), AcksInv(H), Types
    PROVE  LeaderCompleteness
<1> SUFFICES ASSUME NEW i \in Node, state[i] = Leader, NEW c \in chosen, c.by < currentTerm[i]
             PROVE  Len(log[i]) >= c.index /\ log[i][c.index] = c.term
  BY DEF LeaderCompleteness
<1>1. PICK n \in Nat : /\ c.index \in 1..n /\ H[c.by][c.index] = c.term /\ Safe(c.by, n, H)
  BY DEF AcksInv, ChosenAreSafe
<1>2. PICK u \in Nat, l \in Seq(Nat), b \in Nat : u = currentTerm[i] /\ l = log[i] /\ b = c.by
  BY DEF Types
<1>3. H[u] = l /\ l # <<>>
  BY <1>2 DEF LogsInv
<1>4. u > b
  BY <1>2
<1>5. Agree(l, H[b], n)
  BY <1>1, <1>2, <1>3, <1>4 DEF Safe
<1>6. n <= Len(l) /\ l[c.index] = H[b][c.index]
  BY <1>1, <1>5 DEF Agree
<1>7. Len(l) >= c.index
  BY <1>1, <1>6, SMTT(30)
<1>8. QED
  BY <1>1, <1>2, <1>6, <1>7

-----------------------------------------------------------------------------
(* Commit indexes.                                                         *)

\* The leaders from the committing one on have a committed entry.
LEMMA ChosenInHistory ==
    ASSUME Types, NEW H, LogsInv(H), AcksInv(H), NEW c \in chosen, NEW t \in Nat, c.by <= t,
           t = c.by \/ H[t] # <<>>
    PROVE  /\ c.index \in Nat /\ c.index > 0 /\ c.by \in Nat /\ c.term \in Nat /\ H[c.by] # <<>>
           /\ c.index <= Len(H[t]) /\ H[t][c.index] = c.term
<1>1. c.index \in Nat /\ c.by \in Nat /\ c.term \in Nat
  BY DEF Types
<1>2. PICK n \in Nat : /\ c.index \in 1..n /\ n <= Len(H[c.by]) /\ H[c.by][c.index] = c.term
                       /\ Safe(c.by, n, H)
  BY DEF AcksInv, ChosenAreSafe
<1>3. PICK h \in Seq(Nat), k \in Seq(Nat) : h = H[c.by] /\ k = H[t]
  <2>1. History(H)
    BY DEF LogsInv
  <2>2. H[c.by] \in Seq(Nat) /\ H[t] \in Seq(Nat)
    BY <1>1, <2>1, TermOfHistory
  <2>3. QED
    BY <2>2
<1>4. c.index > 0 /\ c.index <= Len(h) /\ c.index <= n /\ h # <<>>
  BY <1>1, <1>2, <1>3, SMTT(30)
<1>5. Agree(k, h, n)
  <2>1. CASE t = c.by
    <3>1. n <= Len(h) /\ k = h
      BY <1>2, <1>3, <2>1
    <3>2. QED
      BY <3>1, AgreeSelf
  <2>2. CASE t # c.by
    <3>1. t > c.by
      BY <1>1, <2>2, SMTT(30)
    <3>2. QED
      BY <1>2, <1>3, <2>2, <3>1 DEF Safe
  <2>3. QED
    BY <2>1, <2>2
<1>6. n <= Len(k) /\ k[c.index] = h[c.index]
  BY <1>2, <1>5 DEF Agree
<1>7. c.index <= Len(k)
  BY <1>1, <1>4, <1>6, SMTT(30)
<1>8. QED
  BY <1>1, <1>2, <1>3, <1>4, <1>6, <1>7

\* Two logs that follow the history and have the same entry agree up to it.
LEMMA SameTermAgrees ==
    ASSUME NEW H, NEW l \in Seq(Nat), NEW h \in Seq(Nat), FollowsTerms(l, H), FollowsTerms(h, H),
           NEW k \in Nat, k > 0, k <= Len(l), k <= Len(h), l[k] = h[k]
    PROVE  Agree(l, h, k)
<1>1. k \in 1..Len(l) /\ k \in 1..Len(h)
  BY SMTT(30)
<1>2. Agree(l, H[l[k]], k) /\ Agree(h, H[l[k]], k)
  BY <1>1 DEF FollowsTerms
<1>3. QED
  BY <1>2 DEF Agree

\* No node loses what it takes for committed.
LEMMA CommittedIsKept ==
    ASSUME Types, Types', NEW H, LogsInv(H), AcksInv(H), CommitInv(H), LogsKeep(H)
    PROVE  CommittedKept
<1> SUFFICES ASSUME NEW i \in Node, NEW k \in 1..commitIndex[i]
             PROVE  k <= Len(log'[i]) /\ log'[i][k] = log[i][k]
  BY DEF CommittedKept
<1>1. k \in Nat /\ k > 0
  BY SMTT(30)
<1>2. PICK l \in Seq(Nat), m \in Seq(Nat), t \in Nat : l = log[i] /\ m = log'[i] /\ t = currentTerm[i]
  <2>1. log[i] \in Seq(Nat) /\ log'[i] \in Seq(Nat) /\ currentTerm[i] \in Nat
    BY DEF Types
  <2>2. QED
    BY <2>1
<1>3. PICK c \in chosen : c.index = k /\ c.term = l[k] /\ c.by <= t
  BY <1>2 DEF CommitInv, Certified
<1>4. k <= Len(l)
  BY <1>2 DEF CommitInv
<1>5. CASE Agree(log'[i], log[i], Len(log[i]))
  <2>1. Agree(m, l, Len(l))
    BY <1>2, <1>5
  <2>2. QED
    BY <1>1, <1>2, <1>4, <2>1, SMTT(30) DEF Agree
<1>6. CASE /\ H[t] # <<>>
           /\ \A n \in Nat : Agree(l, H[t], n) => Agree(m, H[t], n)
  <2>1. c.index <= Len(H[t]) /\ H[t][c.index] = c.term
    BY <1>3, <1>6, ChosenInHistory
  <2>2. History(H) /\ FollowsTerms(l, H)
    BY <1>2 DEF LogsInv
  <2>3. PICK h \in Seq(Nat) : h = H[t]
    BY <2>2, TermOfHistory
  <2>4. FollowsTerms(h, H)
    BY <2>2, <2>3, TermOfHistory
  <2>5. k <= Len(h) /\ l[k] = h[k]
    BY <1>3, <2>1, <2>3
  <2>6. Agree(l, h, k)
    BY <1>1, <1>4, <2>2, <2>4, <2>5, SameTermAgrees
  <2>7. Agree(m, h, k)
    BY <1>1, <1>6, <2>3, <2>6
  <2>8. k <= Len(m) /\ m[k] = h[k]
    BY <1>1, <2>7, SMTT(30) DEF Agree
  <2>9. QED
    BY <1>2, <2>5, <2>8
<1>7. QED
  BY <1>2, <1>5, <1>6 DEF LogsKeep

\* A certificate stays one.
LEMMA CertificateStays ==
    ASSUME Types, Types', chosen \subseteq chosen', NEW k, NEW t, NEW a \in Nat, NEW b \in Nat,
           a <= b, Certified(k, t, a)
    PROVE  \E c \in chosen' : c.index = k /\ c.term = t /\ c.by <= b
<1>1. PICK c \in chosen : c.index = k /\ c.term = t /\ c.by <= a
  BY DEF Certified
<1>2. c \in chosen' /\ c.by \in Nat
  BY DEF Types
<1>3. QED
  BY <1>1, <1>2, SMTT(30)

LEMMA CommittedIsInLog ==
    ASSUME Types, NEW H, CommitInv(H), NEW i \in Node
    PROVE  commitIndex[i] \in Nat /\ commitIndex[i] <= Len(log[i])
<1>1. commitIndex[i] \in Nat /\ log[i] \in Seq(Nat)
  BY DEF Types
<1>2. CASE commitIndex[i] = 0
  BY <1>1, <1>2, SMTT(30)
<1>3. CASE commitIndex[i] # 0
  <2>1. commitIndex[i] \in 1..commitIndex[i]
    BY <1>1, <1>3, SMTT(30)
  <2>2. QED
    BY <1>1, <2>1 DEF CommitInv
<1>4. QED
  BY <1>2, <1>3

\* The step of the invariant on commit indexes: the nodes.
LEMMA NodesStayCommitted ==
    ASSUME Types, Types', NEW H, CommitInv(H), TermsGrow, CommittedKept, CommitStep,
           NEW i \in Node, NEW k \in 1..commitIndex'[i]
    PROVE  k <= Len(log'[i]) /\ Certified(k, log[i][k], currentTerm[i])'
<1>1. CASE k <= commitIndex[i]
  <2>1. commitIndex[i] \in Nat /\ k \in Nat /\ k >= 1 /\ currentTerm[i] \in Nat /\ currentTerm'[i] \in Nat
    <3>1. commitIndex[i] \in Nat /\ commitIndex'[i] \in Nat
      BY DEF Types
    <3>2. currentTerm[i] \in Nat /\ currentTerm'[i] \in Nat
      BY DEF Types
    <3>3. QED
      BY <3>1, <3>2, SMTT(30)
  <2>2. k \in 1..commitIndex[i]
    BY <1>1, <2>1, SMTT(30)
  <2>3. k <= Len(log'[i]) /\ log'[i][k] = log[i][k]
    BY <2>2 DEF CommittedKept
  <2>4. Certified(k, log[i][k], currentTerm[i]) /\ chosen \subseteq chosen'
    BY <2>2 DEF CommitInv, CommitStep
  <2>5. currentTerm[i] <= currentTerm'[i]
    <3>1. currentTerm'[i] >= currentTerm[i]
      BY DEF TermsGrow
    <3>2. QED
      BY <2>1, <3>1
  <2>6. \E c \in chosen' : c.index = k /\ c.term = log[i][k] /\ c.by <= currentTerm'[i]
    BY <2>1, <2>4, <2>5, CertificateStays, SMTT(30)
  <2>7. QED
    BY <2>3, <2>6 DEF Certified
<1>2. CASE ~(k <= commitIndex[i])
  BY <1>2 DEF CommitStep
<1>3. QED
  BY <1>1, <1>2

\* The messages.
LEMMA MessagesStayCommitted ==
    ASSUME Types, Types', NEW H, NEW G, LogsInv(H), Grows(H, G), CommitInv(H), CommitStep,
           NEW m \in requests' \cup handling'
    PROVE  /\ m.commit <= m.next - 1 + Len(m.entries)
           /\ \A k \in 1..m.commit : Certified(k, G[m.term][k], m.term)'
<1>1. m.commit \in Nat /\ m.term \in Nat /\ m.next \in Nat /\ Len(m.entries) \in Nat
  <2>1. m \in Request
    BY DEF Types
  <2>2. QED
    BY <2>1, SMTT(30) DEF Request
<1>2. History(H) /\ H[m.term] \in Seq(Nat)
  <2>1. History(H)
    BY DEF LogsInv
  <2>2. QED
    BY <1>1, <2>1, TermOfHistory
<1>3. PICK h \in Seq(Nat) : h = H[m.term]
  BY <1>2
<1>4. Agree(G[m.term], h, Len(h))
  BY <1>1, <1>3 DEF Grows
<1>5. /\ m.commit <= m.next - 1 + Len(m.entries) /\ m.commit <= Len(h)
      /\ \A k \in 1..m.commit : Certified(k, h[k], m.term)
  <2>1. CASE m \in requests \cup handling
    <3>1. m.next - 1 + Len(m.entries) <= Len(h)
      BY <1>3, <2>1 DEF LogsInv, Shows
    <3>2. /\ m.commit <= m.next - 1 + Len(m.entries)
          /\ \A k \in 1..m.commit : Certified(k, h[k], m.term)
      BY <1>3, <2>1 DEF CommitInv
    <3>3. m.commit <= Len(h)
      BY <1>1, <3>1, <3>2, SMTT(30)
    <3>4. QED
      BY <3>2, <3>3
  <2>2. CASE Tells(m)
    <3>1. PICK i \in Node : /\ state[i] = Leader /\ m.term = currentTerm[i]
                            /\ m.commit = commitIndex[i]
      BY <2>2 DEF Tells
    <3>2. h = log[i]
      BY <1>3, <3>1 DEF LogsInv
    <3>3. \A k \in 1..m.commit : Certified(k, h[k], m.term)
      BY <3>1, <3>2 DEF CommitInv
    <3>4. commitIndex[i] <= Len(log[i])
      BY CommittedIsInLog
    <3>5. m.commit <= m.next - 1 + Len(m.entries)
      BY <2>2 DEF Tells
    <3>6. QED
      BY <3>1, <3>2, <3>3, <3>4, <3>5
  <2>3. QED
    BY <2>1, <2>2 DEF CommitStep
<1>6. ASSUME NEW k \in 1..m.commit PROVE Certified(k, G[m.term][k], m.term)'
  <2>1. Certified(k, h[k], m.term) /\ chosen \subseteq chosen'
    BY <1>5 DEF CommitStep
  <2>2. m.term <= m.term
    BY <1>1, SMTT(30)
  <2>3. \E c \in chosen' : c.index = k /\ c.term = h[k] /\ c.by <= m.term
    BY <1>1, <2>1, <2>2, CertificateStays, SMTT(30)
  <2>4. k \in 1..Len(h)
    BY <1>1, <1>5, SMTT(30)
  <2>5. G[m.term][k] = h[k]
    BY <1>4, <2>4 DEF Agree
  <2>6. QED
    BY <2>3, <2>5 DEF Certified
<1>7. QED
  BY <1>5, <1>6

LEMMA CommitsMove ==
    ASSUME Types, Types', NEW H, NEW G, LogsInv(H), TermsGrow, Grows(H, G), CommitInv(H),
           CommittedKept, CommitStep
    PROVE  CommitInv(G)'
<1>1. \A i \in Node : \A k \in 1..commitIndex'[i] :
         k <= Len(log'[i]) /\ Certified(k, log[i][k], currentTerm[i])'
  BY NodesStayCommitted
<1>2. \A m \in requests' \cup handling' :
         /\ m.commit <= m.next - 1 + Len(m.entries)
         /\ \A k \in 1..m.commit : Certified(k, G[m.term][k], m.term)'
  BY MessagesStayCommitted
<1>3. QED
  BY <1>1, <1>2 DEF CommitInv

LEMMA InitCommits ==
    ASSUME Init, NEW H
    PROVE  CommitInv(H)
<1>1. /\ \A i \in Node : commitIndex[i] = 0
      /\ requests \cup handling = {}
  BY DEF Init
<1>2. 1..0 = {}
  BY SMTT(30)
<1>3. QED
  BY <1>1, <1>2 DEF CommitInv

\* Two leaders that have committed something at the same index have committed the same.
LEMMA CertificatesAgree ==
    ASSUME Types, NEW H, LogsInv(H), AcksInv(H), NEW c \in chosen, NEW d \in chosen,
           c.index = d.index
    PROVE  c.term = d.term
<1>1. c.by \in Nat /\ d.by \in Nat
  BY DEF Types
<1>2. ASSUME NEW a \in chosen, NEW b \in chosen, a.by \in Nat, b.by \in Nat, a.by <= b.by,
             a.index = b.index
      PROVE  a.term = b.term
  <2>1. b.by <= b.by
    BY <1>2, SMTT(30)
  <2>2. H[b.by] # <<>> /\ H[b.by][b.index] = b.term
    BY <1>2, <2>1, ChosenInHistory
  <2>3. H[b.by][a.index] = a.term
    BY <1>2, <2>2, ChosenInHistory, SMTT(30)
  <2>4. QED
    BY <1>2, <2>2, <2>3
<1>3. c.by <= d.by \/ d.by <= c.by
  BY <1>1, SMTT(30)
<1>4. QED
  BY <1>1, <1>2, <1>3

LEMMA CommitsAgree ==
    ASSUME MinimaExist, Types, NEW H, LogsInv(H), AcksInv(H), CommitInv(H)
    PROVE  CommittedAgree
<1> SUFFICES ASSUME NEW i \in Node, NEW j \in Node,
                    NEW n \in 1..Min({commitIndex[i], commitIndex[j]})
             PROVE  n <= Len(log[i]) /\ n <= Len(log[j]) /\ log[i][n] = log[j][n]
  BY DEF CommittedAgree
<1>1. n \in 1..commitIndex[i] /\ n \in 1..commitIndex[j]
  <2>1. PICK a \in Nat, b \in Nat : a = commitIndex[i] /\ b = commitIndex[j]
    BY DEF Types
  <2>2. Min({a, b}) \in {a, b} /\ \A y \in {a, b} : Min({a, b}) <= y
    <3>1. {a, b} \in SUBSET Nat /\ {a, b} # {}
      OBVIOUS
    <3>2. QED
      BY <3>1 DEF MinimaExist
  <2>3. PICK k : k = Min({a, b})
    OBVIOUS
  <2>4. k \in Nat /\ k <= a /\ k <= b
    BY <2>2, <2>3
  <2>5. n \in 1..k
    BY <2>1, <2>3
  <2>6. n \in 1..a /\ n \in 1..b
    BY <2>4, <2>5, SMTT(30)
  <2>7. QED
    BY <2>1, <2>6
<1>2. /\ n <= Len(log[i]) /\ \E c \in chosen : c.index = n /\ c.term = log[i][n]
      /\ n <= Len(log[j]) /\ \E c \in chosen : c.index = n /\ c.term = log[j][n]
  BY <1>1 DEF CommitInv, Certified
<1>3. PICK c \in chosen : c.index = n /\ c.term = log[i][n]
  BY <1>2
<1>4. PICK d \in chosen : d.index = n /\ d.term = log[j][n]
  BY <1>2
<1>5. c.index = d.index
  BY <1>3, <1>4
<1>6. c.term = d.term
  BY <1>5, CertificatesAgree
<1>7. QED
  BY <1>2, <1>3, <1>4, <1>6
=============================================================================
