------------------------- MODULE ReplicationLemmas --------------------------
(***************************************************************************)
(* What the operators of module Replication return: the hint of a refusal, *)
(* the merge of a request, the request that is sent, the parts of logs     *)
(* that logs and requests show, votes, and what a merge keeps of a log.    *)
(* Then what its actions do to a history of the leaders' logs.             *)
(***************************************************************************)
EXTENDS ReplicationHistory, TLAPS

\* Most leaves are for Zenon; those that calculate say SMTT.
USE ZenonT(30)

\* The larger and the smaller of two numbers, as Max and Min compute them.
LEMMA MaxOfTwo ==
    ASSUME NEW a \in Int, NEW b \in Int
    PROVE  Max({a, b}) = IF a >= b THEN a ELSE b
<1>1. \E x \in {a, b} : \A y \in {a, b} : x >= y
  BY SMTT(30)
<1>2. Max({a, b}) \in {a, b} /\ \A y \in {a, b} : Max({a, b}) >= y
  BY <1>1 DEF Max
<1>3. QED
  BY <1>2, SMTT(30)

LEMMA MinOfTwo ==
    ASSUME NEW a \in Int, NEW b \in Int
    PROVE  Min({a, b}) = IF a <= b THEN a ELSE b
<1>1. \E x \in {a, b} : \A y \in {a, b} : x <= y
  BY SMTT(30)
<1>2. Min({a, b}) \in {a, b} /\ \A y \in {a, b} : Min({a, b}) <= y
  BY <1>1 DEF Min
<1>3. QED
  BY <1>2, SMTT(30)

LEMMA MinMaxNat ==
    ASSUME NEW a \in Nat, NEW b \in Nat
    PROVE  Max({a, b}) \in Nat /\ Min({a, b}) \in Nat
<1>1. a \in Int /\ b \in Int
  BY SMTT(30)
<1>2. Max({a, b}) = (IF a >= b THEN a ELSE b) /\ Min({a, b}) = (IF a <= b THEN a ELSE b)
  BY <1>1, MaxOfTwo, MinOfTwo
<1>3. QED
  BY <1>2

-----------------------------------------------------------------------------
\* Concatenation, slices and equality of sequences, element by element.
LEMMA ConcatFacts ==
    ASSUME NEW S, NEW s \in Seq(S), NEW t \in Seq(S)
    PROVE  /\ s \o t \in Seq(S) /\ Len(s \o t) = Len(s) + Len(t)
           /\ \A n \in 1..(Len(s) + Len(t)) :
                 (s \o t)[n] = IF n <= Len(s) THEN s[n] ELSE t[n - Len(s)]
BY SMTT(30)

LEMMA SubSeqFacts ==
    ASSUME NEW S, NEW s, NEW a \in Int, NEW b \in Int, \A n \in a..b : s[n] \in S
    PROVE  /\ SubSeq(s, a, b) \in Seq(S)
           /\ Len(SubSeq(s, a, b)) = IF a <= b THEN b - a + 1 ELSE 0
           /\ \A n \in 1..(b - a + 1) : SubSeq(s, a, b)[n] = s[a + n - 1]
BY SMTT(30)

LEMMA SameSequence ==
    ASSUME NEW S, NEW s \in Seq(S), NEW t \in Seq(S), Len(s) = Len(t),
           \A n \in 1..Len(s) : s[n] = t[n]
    PROVE  s = t
<1>1. s = [n \in 1..Len(s) |-> s[n]] /\ t = [n \in 1..Len(t) |-> t[n]]
  BY SMTT(30)
<1>2. QED
  BY <1>1

-----------------------------------------------------------------------------
LEMMA QuorumsIntersect ==
    ASSUME Basics, NEW S \in SUBSET Node, NEW T \in SUBSET Node, IsQuorum(S), IsQuorum(T)
    PROVE  S \cap T # {}
BY DEF Basics, QuorumsMeet

LEMMA MinOfSet ==
    ASSUME Basics, NEW S \in SUBSET Nat, S # {}
    PROVE  Min(S) \in S /\ \A y \in S : Min(S) <= y
BY DEF Basics, MinimaExist

LEMMA MaxOfSet ==
    ASSUME Basics, NEW S \in SUBSET Nat, S # {}, NEW b \in Nat, \A x \in S : x <= b
    PROVE  Max(S) \in S /\ \A y \in S : Max(S) >= y
BY DEF Basics, MaximaExist

-----------------------------------------------------------------------------
(* What the operators on logs compute.                                     *)

LEMMA TermAtType ==
    ASSUME NEW l \in Seq(Nat), NEW n \in 0..Len(l)
    PROVE  TermAt(l, n) \in Nat
BY SMTT(30) DEF TermAt

\* The hint of a refusal is an index.
LEMMA ConflictIndexType ==
    ASSUME Basics, NEW l \in Seq(Nat), NEW m \in Request, m.next > 0,
           m.next = 1 => m.prevTerm = 0, ~prevMatches(l, m)
    PROVE  conflictIndex(l, m) \in Nat
<1> DEFINE prev == m.next - 1
           S == {k \in 1..prev : \A n \in k..prev : l[n] = l[prev]}
<1>1. m.next \in Nat /\ Len(l) \in Nat
  BY SMTT(30) DEF Request
<1>2. CASE prev > Len(l)
  BY <1>1, <1>2, SMTT(30) DEF conflictIndex
<1>3. CASE ~ (prev > Len(l))
  <2>1. prev # 0
    BY <1>1, <1>3, SMTT(30) DEF prevMatches, TermAt
  <2>2. prev \in 1..prev
    BY <1>1, <2>1, SMTT(30)
  <2>3. \A n \in prev..prev : n = prev
    BY <1>1, SMTT(30)
  <2>4. prev \in S
    BY <2>2, <2>3
  <2>5. S \in SUBSET Nat
    BY <1>1, SMTT(30)
  <2>6. Min(S) \in S
    BY <2>4, <2>5, MinOfSet
  <2>7. conflictIndex(l, m) = Min(S)
    BY <1>3 DEF conflictIndex
  <2>8. QED
    BY <2>5, <2>6, <2>7
<1>4. QED
  BY <1>2, <1>3

\* The first missing entry, and the length to which TruncateAfter cuts the log: not
\* below the previous entry.
LEMMA MissingFacts ==
    ASSUME Basics, NEW l \in Seq(Nat), NEW m \in Request, m.next > 0, prevMatches(l, m),
           missing(l, m) # {}
    PROVE  LET k == Min(missing(l, m))
           IN  /\ k \in 1..Len(m.entries) /\ m.next - 2 + k \in Nat
               /\ m.next - 2 + k >= m.next - 1 /\ m.next - 2 + k <= Len(l)
               /\ truncated(l, m) = SubSeq(l, 1, m.next - 2 + k)
               /\ \A h \in 1..(k - 1) : l[m.next - 1 + h] = m.entries[h]
<1> DEFINE S == missing(l, m)
           k == Min(S)
<1>1. m.next \in Nat /\ m.entries \in Seq(Nat) /\ Len(m.entries) \in Nat /\ Len(l) \in Nat
  BY SMTT(30) DEF Request
<1>2. S \in SUBSET Nat /\ S \subseteq 1..Len(m.entries)
  BY <1>1, SMTT(30) DEF missing
<1>3. k \in S /\ \A y \in S : k <= y
  BY <1>2, MinOfSet
<1>4. k \in 1..Len(m.entries)
  BY <1>2, <1>3
<1> HIDE DEF k
<1>5. \A h \in 1..(k - 1) : m.next - 1 + h <= Len(l) /\ l[m.next - 1 + h] = m.entries[h]
  <2> TAKE h \in 1..(k - 1)
  <2>1. h \in 1..Len(m.entries) /\ h < k
    BY <1>1, <1>4, SMTT(30)
  <2>2. h \notin S
    BY <1>1, <1>3, <1>4, <2>1, SMTT(30)
  <2>3. ~ (m.next - 1 + h > Len(l) \/ l[m.next - 1 + h] # m.entries[h])
    BY <2>1, <2>2 DEF missing
  <2>4. QED
    BY <1>1, <2>1, <2>3, SMTT(30)
<1>6. m.next - 1 <= Len(l)
  BY DEF prevMatches
<1>7. m.next - 2 + k <= Len(l)
  <2>1. CASE k = 1
    BY <1>1, <1>6, <2>1, SMTT(30)
  <2>2. CASE k # 1
    <3>1. k - 1 \in 1..(k - 1)
      BY <1>1, <1>4, <2>2, SMTT(30)
    <3>2. m.next - 1 + (k - 1) <= Len(l)
      BY <1>5, <3>1
    <3>3. QED
      BY <1>1, <1>4, <3>2, SMTT(30)
  <2>3. QED
    BY <2>1, <2>2
<1>8. m.next - 2 + k \in Nat /\ m.next - 2 + k >= m.next - 1
  BY <1>1, <1>4, SMTT(30)
<1>9. Min({Len(l), m.next - 2 + k}) = m.next - 2 + k
  <2> DEFINE a == Len(l)
             b == m.next - 2 + k
  <2>1. a \in Int /\ b \in Int /\ b <= a
    BY <1>1, <1>7, <1>8, SMTT(30)
  <2> HIDE DEF a, b
  <2>2. Min({a, b}) = b
    BY <2>1, MinOfTwo, SMTT(30)
  <2>3. QED
    BY <2>2 DEF a, b
<1>10. truncated(l, m) = SubSeq(l, 1, m.next - 2 + k)
  <2>1. truncated(l, m) = SubSeq(l, 1, Min({Len(l), m.next - 2 + k}))
    BY DEF truncated, k
  <2>2. QED
    BY <1>9, <2>1
<1>11. QED
  BY <1>4, <1>5, <1>7, <1>8, <1>10 DEF k

\* What TruncateAfter leaves is a beginning of the log.
LEMMA TruncatedFacts ==
    ASSUME Basics, NEW l \in Seq(Nat), NEW m \in Request, m.next > 0, prevMatches(l, m),
           missing(l, m) # {}
    PROVE  /\ truncated(l, m) \in Seq(Nat) /\ Len(truncated(l, m)) <= Len(l)
           /\ Len(truncated(l, m)) = m.next - 2 + Min(missing(l, m))
           /\ \A n \in 1..Len(truncated(l, m)) : truncated(l, m)[n] = l[n]
<1> DEFINE c == m.next - 2 + Min(missing(l, m))
<1>1. c \in Nat /\ c <= Len(l) /\ truncated(l, m) = SubSeq(l, 1, c)
  BY MissingFacts
<1> HIDE DEF c
<1>2. /\ SubSeq(l, 1, c) \in Seq(Nat) /\ Len(SubSeq(l, 1, c)) = c
      /\ \A n \in 1..c : SubSeq(l, 1, c)[n] = l[n]
  BY <1>1, SMTT(30)
<1>3. QED
  BY <1>1, <1>2 DEF c

\* A log of which the entries from c + 1 on are replaced by those of E from k on.
Joined(l, c, E, k) == SubSeq(l, 1, c) \o SubSeq(E, k, Len(E))

\* E starts at index a and agrees with the log before its k-th entry.
Joins(l, c, E, k, a) ==
    /\ l \in Seq(Nat) /\ E \in Seq(Nat) /\ a \in Nat /\ k \in 1..Len(E) /\ c \in Nat
    /\ a > 0 /\ c = a - 2 + k /\ c <= Len(l)
    /\ \A h \in 1..(k - 1) : l[a - 1 + h] = E[h]

LEMMA JoinFacts ==
    ASSUME NEW l, NEW c, NEW E, NEW k, NEW a, Joins(l, c, E, k, a)
    PROVE  /\ Joined(l, c, E, k) \in Seq(Nat)
           /\ Len(Joined(l, c, E, k)) = a - 1 + Len(E)
           /\ \A n \in 1..(a - 1) : Joined(l, c, E, k)[n] = l[n]
           /\ \A n \in a..(a - 1 + Len(E)) : Joined(l, c, E, k)[n] = E[n - a + 1]
<1> DEFINE t == SubSeq(l, 1, c)
           e == SubSeq(E, k, Len(E))
<1>a. /\ l \in Seq(Nat) /\ E \in Seq(Nat) /\ a \in Nat /\ c \in Nat
      /\ a > 0 /\ c = a - 2 + k /\ c <= Len(l) /\ k \in 1..Len(E)
  BY DEF Joins
<1>1. Len(E) \in Nat /\ Len(l) \in Nat /\ k \in Nat /\ k >= 1 /\ k <= Len(E)
  BY <1>a, SMTT(30)
<1>2. t \in Seq(Nat) /\ Len(t) = c /\ \A n \in 1..c : t[n] = l[n]
  BY <1>a, <1>1, SMTT(30)
<1>3. e \in Seq(Nat) /\ Len(e) = Len(E) - k + 1 /\ \A h \in 1..Len(e) : e[h] = E[k + h - 1]
  BY <1>a, <1>1, SMTT(30)
<1> HIDE DEF t, e
<1>4. /\ t \o e \in Seq(Nat) /\ Len(t \o e) = Len(t) + Len(e)
      /\ \A n \in 1..Len(t) : (t \o e)[n] = t[n]
      /\ \A n \in (Len(t) + 1)..(Len(t) + Len(e)) : (t \o e)[n] = e[n - Len(t)]
  <2>1. Len(t) \in Nat /\ Len(e) \in Nat
    BY <1>2, <1>3, SMTT(30)
  <2>2. /\ t \o e \in Seq(Nat) /\ Len(t \o e) = Len(t) + Len(e)
        /\ \A n \in 1..(Len(t) + Len(e)) : (t \o e)[n] = IF n <= Len(t) THEN t[n] ELSE e[n - Len(t)]
    BY <1>2, <1>3, ConcatFacts
  <2>3. QED
    BY <2>1, <2>2, SMTT(30)
<1>5. Len(t) + Len(e) = a - 1 + Len(E)
  BY <1>a, <1>1, <1>2, <1>3, SMTT(30)
<1>6. \A n \in 1..(a - 1) : (t \o e)[n] = l[n]
  <2> TAKE n \in 1..(a - 1)
  <2>1. n \in 1..c
    BY <1>a, <1>1, SMTT(30)
  <2>2. QED
    BY <1>2, <1>4, <2>1
<1>7. \A n \in a..(a - 1 + Len(E)) : (t \o e)[n] = E[n - a + 1]
  <2> TAKE n \in a..(a - 1 + Len(E))
  <2>1. CASE n <= c
    <3>1. n \in 1..c /\ n - a + 1 \in 1..(k - 1)
      BY <1>a, <1>1, <2>1, SMTT(30)
    <3>2. a - 1 + (n - a + 1) = n
      BY <1>a, <1>1, SMTT(30)
    <3>3. l[n] = E[n - a + 1]
      BY <3>1, <3>2 DEF Joins
    <3>4. QED
      BY <1>2, <1>4, <3>1, <3>3
  <2>2. CASE n > c
    <3>1. n \in (Len(t) + 1)..(Len(t) + Len(e)) /\ n - Len(t) \in 1..Len(e)
      <4>1. Len(t) = c /\ Len(e) = Len(E) - k + 1
        BY <1>2, <1>3
      <4>2. n \in (c + 1)..(c + (Len(E) - k + 1)) /\ n - c \in 1..(Len(E) - k + 1)
        BY <1>a, <1>1, <2>2, SMTT(30)
      <4>3. QED
        BY <4>1, <4>2
    <3>2. k + (n - Len(t)) - 1 = n - a + 1
      BY <1>a, <1>1, <1>2, SMTT(30)
    <3>3. e[n - Len(t)] = E[n - a + 1]
      BY <1>3, <3>1, <3>2
    <3>4. QED
      BY <1>4, <3>1, <3>3
  <2>3. n <= c \/ n > c
    BY <1>a, <1>1, SMTT(30)
  <2>4. QED
    BY <2>1, <2>2, <2>3
<1>8. QED
  <2>1. Joined(l, c, E, k) = t \o e
    BY DEF Joined, t, e
  <2>2. QED
    BY <1>4, <1>5, <1>6, <1>7, <2>1

\* The merged log: the log's own entries before the request, the request's after.
LEMMA MergedFacts ==
    ASSUME Basics, NEW l \in Seq(Nat), NEW m \in Request, m.next > 0, prevMatches(l, m),
           missing(l, m) # {}
    PROVE  /\ merged(l, m) \in Seq(Nat)
           /\ Len(merged(l, m)) = m.next - 1 + Len(m.entries)
           /\ \A n \in 1..(m.next - 1) : merged(l, m)[n] = l[n]
           /\ \A n \in m.next..(m.next - 1 + Len(m.entries)) :
                 merged(l, m)[n] = m.entries[n - m.next + 1]
<1> DEFINE k == Min(missing(l, m))
<1>1. m.next \in Nat /\ m.entries \in Seq(Nat)
  BY DEF Request
<1>2. /\ k \in 1..Len(m.entries) /\ m.next - 2 + k \in Nat /\ m.next - 2 + k <= Len(l)
      /\ \A h \in 1..(k - 1) : l[m.next - 1 + h] = m.entries[h]
      /\ truncated(l, m) = SubSeq(l, 1, m.next - 2 + k)
  BY MissingFacts
<1>3. merged(l, m) = SubSeq(l, 1, m.next - 2 + k) \o SubSeq(m.entries, k, Len(m.entries))
  BY <1>2 DEF merged
<1> HIDE DEF k
<1>4. PICK a, E, c : a = m.next /\ E = m.entries /\ c = m.next - 2 + k
  OBVIOUS
<1>5. Joins(l, c, E, k, a)
  BY <1>1, <1>2, <1>4 DEF Joins
<1>6. merged(l, m) = Joined(l, c, E, k)
  BY <1>3, <1>4 DEF Joined
<1>7. /\ merged(l, m) \in Seq(Nat) /\ Len(merged(l, m)) = a - 1 + Len(E)
      /\ \A n \in 1..(a - 1) : merged(l, m)[n] = l[n]
      /\ \A n \in a..(a - 1 + Len(E)) : merged(l, m)[n] = E[n - a + 1]
  <2> DEFINE j == Joined(l, c, E, k)
  <2>1. j \in Seq(Nat) /\ Len(j) = a - 1 + Len(E)
    BY <1>5, JoinFacts, SMTT(30)
  <2>2. \A n \in 1..(a - 1) : j[n] = l[n]
    BY <1>5, JoinFacts, SMTT(30)
  <2>3. \A n \in a..(a - 1 + Len(E)) : j[n] = E[n - a + 1]
    BY <1>5, JoinFacts, SMTT(30)
  <2>4. QED
    BY <1>6, <2>1, <2>2, <2>3
<1>8. QED
  BY <1>4, <1>7

\* The log after a request that is accepted.
LEMMA MergedType ==
    ASSUME Basics, NEW l \in Seq(Nat), NEW m \in Request, m.next > 0, prevMatches(l, m)
    PROVE  merged(l, m) \in Seq(Nat)
<1>1. CASE missing(l, m) = {}
  BY <1>1 DEF merged
<1>2. CASE missing(l, m) # {}
  BY <1>2, MergedFacts
<1>3. QED
  BY <1>1, <1>2

-----------------------------------------------------------------------------
(* Types.                                                                  *)

\* advanceCommitIndex on a typed log.
LEMMA AdvanceType ==
    ASSUME Basics, Types, NEW i \in Node, NEW term \in Nat, NEW l \in Seq(Nat), NEW match,
           advanceCommitIndex(i, term, l, match)
    PROVE  /\ commitIndex' \in [Node -> Nat]
           /\ chosen' \in SUBSET [index: Nat, term: Nat, by: Nat]
<1> DEFINE ok == committable(i, term, l, match)
           n == IF ok = {} THEN commitIndex[i] ELSE Max(ok)
<1>1. commitIndex \in [Node -> Nat] /\ commitIndex[i] \in Nat /\ Len(l) \in Nat
  BY SMTT(30) DEF Types
<1>2. ok \in SUBSET Nat /\ \A x \in ok : x <= Len(l)
  BY <1>1, SMTT(30) DEF committable
<1>3. n \in Nat /\ \A k \in (commitIndex[i] + 1)..n : k \in Nat /\ l[k] \in Nat
  <2>1. CASE ok = {}
    BY <1>1, <2>1, SMTT(30)
  <2>2. CASE ok # {}
    <3>1. Max(ok) \in ok
      BY <1>1, <1>2, <2>2, MaxOfSet
    <3>2. n = Max(ok)
      BY <2>2
    <3> HIDE DEF ok, n
    <3>3. n \in Nat /\ n <= Len(l)
      BY <1>2, <3>1, <3>2
    <3>4. QED
      BY <1>1, <3>3, SMTT(30)
  <2>3. QED
    BY <2>1, <2>2
<1>4. /\ commitIndex' = [commitIndex EXCEPT ![i] = n]
      /\ chosen' = chosen \cup {[index |-> k, term |-> l[k], by |-> term] :
                                k \in (commitIndex[i] + 1)..n}
  BY DEF advanceCommitIndex
<1> HIDE DEF n
<1>5. commitIndex' \in [Node -> Nat]
  BY <1>1, <1>3, <1>4
<1>6. chosen \in SUBSET [index: Nat, term: Nat, by: Nat]
  BY DEF Types
<1>7. QED
  BY <1>3, <1>4, <1>5, <1>6, SMTT(30)

LEMMA AppendType ==
    ASSUME NEW s \in Seq(Nat), NEW x \in Nat
    PROVE  Append(s, x) \in Seq(Nat)
BY SMTT(30)

\* The fields of the two messages.
LEMMA ReplyFields ==
    ASSUME NEW m \in Reply
    PROVE  /\ m.to \in Node /\ m.from \in Node /\ m.next \in Nat /\ m.match \in Nat
           /\ m.conflict \in Nat /\ m.term \in Nat
BY DEF Reply

LEMMA RequestFields ==
    ASSUME NEW m \in Request
    PROVE  /\ m.to \in Node /\ m.from \in Node /\ m.next \in Nat /\ m.term \in Nat
           /\ m.commit \in Nat /\ m.entries \in Seq(Nat) /\ Len(m.entries) \in Nat
BY SMTT(30) DEF Request

LEMMA UpdateType ==
    ASSUME NEW f \in [Node -> Nat], NEW j \in Node, NEW x \in Nat
    PROVE  [f EXCEPT ![j] = x] \in [Node -> Nat]
OBVIOUS

\* The entries a to b of a log.
LEMMA MiddleOfSeq ==
    ASSUME NEW l \in Seq(Nat), NEW a \in Nat, NEW b \in Nat, a >= 1, b <= Len(l)
    PROVE  /\ SubSeq(l, a, b) \in Seq(Nat)
           /\ Len(SubSeq(l, a, b)) = IF a <= b THEN b - a + 1 ELSE 0
           /\ \A k \in 1..Len(SubSeq(l, a, b)) : SubSeq(l, a, b)[k] = l[a - 1 + k]
<1>1. CASE a <= b
  <2>1. a \in 1..(Len(l) + 1) /\ b \in (a - 1)..Len(l)
    BY <1>1, SMTT(30)
  <2>2. /\ a \in Int /\ b \in Int /\ b - a + 1 \in Nat
        /\ \A n \in a..b : l[n] \in Nat
    BY <1>1, <2>1, SMTT(30)
  <2>3. /\ SubSeq(l, a, b) \in Seq(Nat)
        /\ Len(SubSeq(l, a, b)) = IF a <= b THEN b - a + 1 ELSE 0
        /\ \A n \in 1..(b - a + 1) : SubSeq(l, a, b)[n] = l[a + n - 1]
    BY <2>2, SubSeqFacts, SMTT(30)
  <2>4. PICK s \in Seq(Nat) :
           /\ s = SubSeq(l, a, b) /\ Len(s) = b - a + 1
           /\ \A n \in 1..(b - a + 1) : s[n] = l[a + n - 1]
    BY <1>1, <2>3
  <2>5. \A n \in 1..Len(s) : s[n] = l[a - 1 + n]
    BY <2>2, <2>4, SMTT(30)
  <2>6. QED
    BY <1>1, <2>4, <2>5
<1>2. CASE ~(a <= b)
  <2>1. SubSeq(l, a, b) = <<>>
    BY <1>2, SubSeqFacts, SMTT(30)
  <2>2. QED
    BY <1>2, <2>1, SMTT(30)
<1>3. QED
  BY <1>1, <1>2

\* The request that replicateTo sends: a part of the leader's log.
LEMMA SentRequest ==
    ASSUME Types, NEW s \in sends, replicateTo(s), state[s.from] = Leader, ~fatal[s.from]
    PROVE  \E m \in Request :
              /\ requests' = requests \cup {m} /\ m.next > 0 /\ (m.next = 1 => m.prevTerm = 0)
              /\ m.term = currentTerm[s.from] /\ m.commit = commitIndex[s.from]
              /\ m.from = s.from
              /\ LET l == log[s.from]
                 IN  /\ m.next - 1 + Len(m.entries) <= Len(l) /\ m.next - 1 <= Len(l)
                     /\ m.prevTerm = TermAt(l, m.next - 1)
                     /\ \A k \in 1..Len(m.entries) : m.entries[k] = l[m.next - 1 + k]
<1> DEFINE i == s.from
           start == IF s.next = 0 THEN nextIndex[i][s.to] ELSE s.next
           next == Max({1, Min({start, Len(log[i]) + 1})})
           last == Min({Len(log[i]), next + MaxLogEntriesPerRPC - 1})
           m == [from |-> i, to |-> s.to, term |-> currentTerm[i], next |-> next,
                 prevTerm |-> TermAt(log[i], next - 1),
                 entries |-> SubSeq(log[i], next, last),
                 commit |-> commitIndex[i]]
<1>1. /\ i \in Node /\ s.to \in Node /\ start \in Nat /\ Len(log[i]) \in Nat
      /\ log[i] \in Seq(Nat) /\ currentTerm[i] \in Nat /\ commitIndex[i] \in Nat
      /\ MaxLogEntriesPerRPC \in Nat /\ MaxLogEntriesPerRPC > 0
  <2>1. s \in Send /\ i \in Node /\ s.to \in Node /\ s.next \in Nat
    BY DEF Types, Send
  <2>2. nextIndex[i][s.to] \in Nat
    BY <2>1, SMTT(30) DEF Types
  <2>3. log[i] \in Seq(Nat) /\ currentTerm[i] \in Nat /\ commitIndex[i] \in Nat
    BY <2>1 DEF Types
  <2>4. QED
    BY <2>1, <2>2, <2>3, BoundAssumption, SMTT(30)
<1>2. requests' = requests \cup {m}
  BY DEF replicateTo
<1> HIDE DEF start
<1>3. next \in Nat /\ next >= 1 /\ next <= Len(log[i]) + 1
  <2> DEFINE a == Min({start, Len(log[i]) + 1})
  <2>1. a \in Nat /\ a <= Len(log[i]) + 1
    BY <1>1, MinOfTwo, SMTT(30)
  <2> HIDE DEF a
  <2>2. Max({1, a}) = IF 1 >= a THEN 1 ELSE a
    BY <2>1, MaxOfTwo, SMTT(30)
  <2>3. QED
    BY <1>1, <2>1, <2>2, SMTT(30) DEF a
<1> HIDE DEF next
<1>4. last \in Nat /\ last <= Len(log[i])
  <2> DEFINE a == Len(log[i])
             b == next + MaxLogEntriesPerRPC - 1
  <2>1. a \in Nat /\ b \in Nat
    BY <1>1, <1>3, SMTT(30)
  <2> HIDE DEF a, b
  <2>2. Min({a, b}) = IF a <= b THEN a ELSE b
    BY <2>1, MinOfTwo, SMTT(30)
  <2>3. Min({a, b}) \in Nat /\ Min({a, b}) <= a
    BY <2>1, <2>2, SMTT(30)
  <2>4. QED
    BY <2>3 DEF a, b
<1> HIDE DEF last, i
<1> DEFINE e == SubSeq(log[i], next, last)
<1>5. e = SubSeq(log[i], next, last)
  OBVIOUS
<1>6. /\ e \in Seq(Nat) /\ Len(e) = IF next <= last THEN last - next + 1 ELSE 0
      /\ \A k \in 1..Len(e) : e[k] = log[i][next - 1 + k]
  <2>1. last <= Len(log[i]) /\ next >= 1 /\ next \in Nat /\ last \in Nat /\ log[i] \in Seq(Nat)
    BY <1>1, <1>3, <1>4
  <2>2. e \in Seq(Nat)
    BY <2>1, MiddleOfSeq
  <2>3. Len(e) = IF next <= last THEN last - next + 1 ELSE 0
    BY <2>1, MiddleOfSeq, SMTT(30)
  <2>4. \A k \in 1..Len(e) : e[k] = log[i][next - 1 + k]
    BY <2>1, MiddleOfSeq
  <2>5. QED
    BY <2>2, <2>3, <2>4
<1> HIDE DEF e
<1>7. PICK p : p = TermAt(log[i], next - 1)
  OBVIOUS
<1>8. p \in Nat /\ (next = 1 => p = 0)
  BY <1>1, <1>3, <1>7, SMTT(30) DEF TermAt
<1>9. /\ m \in Request /\ m.next = next /\ m.entries = e /\ m.prevTerm = p
      /\ m.term = currentTerm[i] /\ m.commit = commitIndex[i] /\ m.from = i
  BY <1>1, <1>3, <1>5, <1>6, <1>7, <1>8 DEF Request
<1>10. next - 1 + Len(e) <= Len(log[i]) /\ next - 1 <= Len(log[i])
  BY <1>1, <1>3, <1>4, <1>6, SMTT(30)
<1> HIDE DEF m
<1>11. QED
  <2> SUFFICES /\ m.next > 0 /\ (m.next = 1 => m.prevTerm = 0)
               /\ m.next - 1 + Len(m.entries) <= Len(log[i]) /\ m.next - 1 <= Len(log[i])
               /\ m.prevTerm = TermAt(log[i], m.next - 1)
               /\ \A k \in 1..Len(m.entries) : m.entries[k] = log[i][m.next - 1 + k]
    BY <1>2, <1>9 DEF i
  <2>1. \A k \in 1..Len(m.entries) : m.entries[k] = log[i][m.next - 1 + k]
    BY <1>6, <1>9
  <2> QED
    BY <1>3, <1>7, <1>8, <1>9, <1>10, <2>1, SMTT(30)

-----------------------------------------------------------------------------
(* Parts of logs.                                                          *)

LEMMA OfLogFacts ==
    ASSUME NEW l \in Seq(Nat)
    PROVE  /\ DOMAIN OfLog(l) = 0..Len(l)
           /\ \A n \in 0..Len(l) : OfLog(l)[n] = TermAt(l, n) /\ OfLog(l)[n] \in Nat
BY TermAtType DEF OfLog

LEMMA OfRequestFacts ==
    ASSUME NEW m \in Request, m.next > 0
    PROVE  /\ m.next - 1 \in Nat /\ Len(m.entries) \in Nat
           /\ DOMAIN OfRequest(m) = (m.next - 1)..(m.next - 1 + Len(m.entries))
           /\ OfRequest(m)[m.next - 1] = m.prevTerm /\ m.prevTerm \in Nat
           /\ \A n \in m.next..(m.next - 1 + Len(m.entries)) :
                 /\ OfRequest(m)[n] = m.entries[n - m.next + 1]
                 /\ OfRequest(m)[n] \in Nat
<1>1. m.next \in Nat /\ m.entries \in Seq(Nat) /\ Len(m.entries) \in Nat /\ m.prevTerm \in Nat
  BY SMTT(30) DEF Request
<1>2. m.next - 1 \in Nat /\ m.next - 1 \in (m.next - 1)..(m.next - 1 + Len(m.entries))
  BY <1>1, SMTT(30)
<1>3. \A n \in m.next..(m.next - 1 + Len(m.entries)) :
         /\ n \in (m.next - 1)..(m.next - 1 + Len(m.entries)) /\ n # m.next - 1
         /\ n - m.next + 1 \in 1..Len(m.entries)
  BY <1>1, SMTT(30)
<1>4. \A k \in 1..Len(m.entries) : m.entries[k] \in Nat
  BY <1>1, SMTT(30)
<1>5. QED
  BY <1>1, <1>2, <1>3, <1>4 DEF OfRequest

\* A part is a function on an interval of indexes.
Shape(f) ==
    /\ DOMAIN f \subseteq Nat /\ \A n \in DOMAIN f : f[n] \in Nat
    /\ \A a, b \in DOMAIN f, k \in Nat : a <= k /\ k <= b => k \in DOMAIN f

LEMMA LogShape ==
    ASSUME NEW l \in Seq(Nat)
    PROVE  Shape(OfLog(l))
<1>1. Len(l) \in Nat
  BY SMTT(30)
<1>2. QED
  BY <1>1, OfLogFacts, SMTT(30) DEF Shape

LEMMA RequestShape ==
    ASSUME NEW m \in Request, m.next > 0
    PROVE  Shape(OfRequest(m))
<1> DEFINE a == m.next - 1
           b == m.next - 1 + Len(m.entries)
<1>1. a \in Nat /\ b \in Nat /\ DOMAIN OfRequest(m) = a..b
  BY OfRequestFacts, SMTT(30)
<1>2. m.next \in Nat
  BY DEF Request
<1>3. \A n \in a..b : n = a \/ n \in m.next..b
  BY <1>1, <1>2, SMTT(30)
<1>4. \A n \in a..b : OfRequest(m)[n] \in Nat
  BY <1>3, OfRequestFacts
<1> HIDE DEF a, b
<1>5. QED
  BY <1>1, <1>4, SMTT(30) DEF Shape

LEMMA PartsShape ==
    ASSUME Types, RequestsStart, NEW f \in Parts
    PROVE  Shape(f)
<1>1. CASE \E i \in Node : f = OfLog(log[i])
  BY <1>1, LogShape DEF Types
<1>2. CASE \E m \in requests \cup handling : f = OfRequest(m)
  BY <1>2, RequestShape DEF Types, RequestsStart
<1>3. QED
  BY <1>1, <1>2 DEF Parts

LEMMA LogIsPart ==
    ASSUME NEW i \in Node
    PROVE  OfLog(log[i]) \in Parts
BY DEF Parts

LEMMA RequestIsPart ==
    ASSUME NEW m \in requests \cup handling
    PROVE  OfRequest(m) \in Parts
BY DEF Parts

\* A function that may join the parts: it matches all of them and has no entry that
\* none of them has.
Fits(f) ==
    /\ Shape(f)
    /\ \A g \in Parts : Matching(f, g)
    /\ \A n \in DOMAIN f : \E g \in Parts : n \in DOMAIN g /\ g[n] = f[n]

LEMMA MatchingSymmetric ==
    ASSUME NEW f, NEW g, Matching(f, g)
    PROVE  Matching(g, f)
BY DEF Matching

LEMMA PartFits ==
    ASSUME Types, RequestsStart, PartsMatch, NEW f \in Parts
    PROVE  Fits(f)
BY PartsShape DEF Fits, PartsMatch

\* What shows less than a part.
LEMMA RestrictionFits ==
    ASSUME PartsMatch, NEW g \in Parts, NEW f, Shape(f), DOMAIN f \subseteq DOMAIN g,
           \A n \in DOMAIN f : f[n] = g[n]
    PROVE  Fits(f)
<1>1. ASSUME NEW h \in Parts PROVE Matching(f, h)
  <2>1. Matching(g, h)
    BY DEF PartsMatch
  <2>2. QED
    BY <2>1 DEF Matching
<1>2. QED
  BY <1>1 DEF Fits

\* What shows one part up to an index where it has the term of another part, and the
\* other part from there on.
LEMMA JoinFits ==
    ASSUME Types, RequestsStart, PartsMatch, NEW g \in Parts, NEW h \in Parts, NEW f, Shape(f),
           NEW p \in DOMAIN g \cap DOMAIN h \cap DOMAIN f, g[p] = h[p],
           \A n \in DOMAIN f : n <= p => n \in DOMAIN g /\ f[n] = g[n],
           \A n \in DOMAIN f : n >= p => n \in DOMAIN h /\ f[n] = h[n]
    PROVE  Fits(f)
<1>1. \A n \in DOMAIN f : n \in Nat /\ (n <= p \/ n >= p)
  BY SMTT(30) DEF Shape
<1>2. ASSUME NEW o \in Parts PROVE Matching(f, o)
  <2> SUFFICES ASSUME NEW n \in DOMAIN f \cap DOMAIN o, NEW k \in DOMAIN f \cap DOMAIN o,
                      k <= n, f[n] = o[n]
               PROVE  f[k] = o[k]
    BY DEF Matching
  <2>1. Matching(g, o) /\ Matching(h, o) /\ Shape(o)
    BY <1>2, PartsShape DEF PartsMatch
  <2>2. CASE n <= p
    <3>1. k <= p
      BY <1>1, <2>2, SMTT(30)
    <3>2. f[n] = g[n] /\ f[k] = g[k] /\ n \in DOMAIN g /\ k \in DOMAIN g
      BY <2>2, <3>1
    <3>3. QED
      BY <2>1, <3>2 DEF Matching
  <2>3. CASE n >= p /\ k >= p
    BY <2>1, <2>3 DEF Matching
  <2>4. CASE n >= p /\ k <= p
    <3>1. p \in DOMAIN o
      BY <1>1, <2>1, <2>4 DEF Shape
    <3>2. n \in DOMAIN h /\ f[n] = h[n] /\ k \in DOMAIN g /\ f[k] = g[k]
      BY <2>4
    <3>3. h[p] = o[p]
      BY <2>1, <2>4, <3>1, <3>2 DEF Matching
    <3>4. g[k] = o[k]
      BY <2>1, <2>4, <3>1, <3>2, <3>3 DEF Matching
    <3>5. QED
      BY <3>2, <3>4
  <2>5. QED
    BY <1>1, <2>2, <2>3, <2>4
<1>3. QED
  BY <1>1, <1>2 DEF Fits

\* A request that repeats a part of node i's log.
LEMMA SentFits ==
    ASSUME Types, RequestsStart, PartsMatch, NEW i \in Node, NEW m \in Request, m.next > 0,
           m.next - 1 + Len(m.entries) <= Len(log[i]), m.prevTerm = TermAt(log[i], m.next - 1),
           \A k \in 1..Len(m.entries) : m.entries[k] = log[i][m.next - 1 + k]
    PROVE  Fits(OfRequest(m))
<1> DEFINE a == m.next - 1
           b == m.next - 1 + Len(m.entries)
           g == OfLog(log[i])
           f == OfRequest(m)
<1>1. log[i] \in Seq(Nat) /\ Len(log[i]) \in Nat /\ m.next \in Nat
  BY SMTT(30) DEF Types, Request
<1>2. a \in Nat /\ b \in Nat /\ Len(m.entries) \in Nat /\ b <= Len(log[i]) /\ a <= b
  BY OfRequestFacts, SMTT(30)
<1>3. DOMAIN f = a..b /\ DOMAIN g = 0..Len(log[i])
  BY <1>1, OfRequestFacts, OfLogFacts
<1>4. DOMAIN f \subseteq DOMAIN g
  BY <1>1, <1>2, <1>3, SMTT(30)
<1>5. ASSUME NEW n \in DOMAIN f PROVE f[n] = g[n]
  <2>1. n \in a..b /\ n \in 0..Len(log[i])
    BY <1>3, <1>4
  <2>2. g[n] = TermAt(log[i], n)
    BY <1>1, <2>1, OfLogFacts
  <2>3. CASE n = a
    BY <2>2, <2>3, OfRequestFacts
  <2>4. CASE n # a
    <3>1. n \in m.next..b /\ n - m.next + 1 \in 1..Len(m.entries) /\ n # 0
          /\ m.next - 1 + (n - m.next + 1) = n
      <4> DEFINE N == m.next
                 e == Len(m.entries)
      <4>1. N \in Nat /\ e \in Nat /\ N - 1 \in Nat /\ n \in (N - 1)..(N - 1 + e) /\ n # N - 1
        BY <1>1, <1>2, <2>1, <2>4
      <4> HIDE DEF N, e
      <4>2. n \in N..(N - 1 + e) /\ n - N + 1 \in 1..e /\ n # 0 /\ N - 1 + (n - N + 1) = n
        BY <4>1, SMTT(30)
      <4>3. QED
        BY <4>2 DEF N, e
    <3>2. f[n] = m.entries[n - m.next + 1]
      BY <3>1, OfRequestFacts
    <3>3. f[n] = log[i][n]
      BY <3>1, <3>2
    <3>4. QED
      BY <2>2, <3>1, <3>3 DEF TermAt
  <2>5. QED
    BY <2>3, <2>4
<1>6. Shape(f) /\ g \in Parts
  BY RequestShape, LogIsPart
<1> HIDE DEF f, g
<1>7. Fits(f)
  BY <1>4, <1>5, <1>6, RestrictionFits
<1>8. QED
  BY <1>7 DEF f

\* A log that is cut.
LEMMA TruncatedFits ==
    ASSUME Types, RequestsStart, PartsMatch, NEW i \in Node, NEW l \in Seq(Nat),
           Len(l) <= Len(log[i]), \A n \in 1..Len(l) : l[n] = log[i][n]
    PROVE  Fits(OfLog(l))
<1> DEFINE g == OfLog(log[i])
           f == OfLog(l)
<1>1. log[i] \in Seq(Nat) /\ Len(log[i]) \in Nat /\ Len(l) \in Nat
  BY SMTT(30) DEF Types
<1>2. DOMAIN f = 0..Len(l) /\ DOMAIN g = 0..Len(log[i])
  BY <1>1, OfLogFacts
<1>3. DOMAIN f \subseteq DOMAIN g
  BY <1>1, <1>2, SMTT(30)
<1>4. ASSUME NEW n \in DOMAIN f PROVE f[n] = g[n]
  <2>1. n \in 0..Len(l) /\ n \in 0..Len(log[i]) /\ (n = 0 \/ n \in 1..Len(l))
    BY <1>1, <1>2, <1>3, SMTT(30)
  <2>2. f[n] = TermAt(l, n) /\ g[n] = TermAt(log[i], n)
    BY <1>1, <2>1, OfLogFacts
  <2>3. QED
    BY <2>1, <2>2 DEF TermAt
<1>5. Shape(f) /\ g \in Parts
  BY LogShape, LogIsPart
<1> HIDE DEF f, g
<1>6. Fits(f)
  BY <1>3, <1>4, <1>5, RestrictionFits
<1>7. QED
  BY <1>6 DEF f

\* The log of node i into which a request is merged.
LEMMA MergedFits ==
    ASSUME Basics, Types, RequestsStart, PartsMatch, NEW i \in Node, NEW m \in requests \cup handling,
           prevMatches(log[i], m)
    PROVE  Fits(OfLog(merged(log[i], m)))
<1>1. CASE missing(log[i], m) = {}
  BY <1>1, LogIsPart, PartFits DEF merged
<1>2. CASE missing(log[i], m) # {}
  <2> DEFINE l == merged(log[i], m)
             p == m.next - 1
             b == m.next - 1 + Len(m.entries)
             g == OfLog(log[i])
             h == OfRequest(m)
             f == OfLog(l)
  <2>1. m \in Request /\ m.next > 0 /\ m.next \in Nat /\ log[i] \in Seq(Nat)
    BY DEF Types, RequestsStart, Request
  <2>2. /\ l \in Seq(Nat) /\ Len(l) = b
        /\ \A n \in 1..p : l[n] = log[i][n]
        /\ \A n \in m.next..b : l[n] = m.entries[n - m.next + 1]
    BY <1>2, <2>1, MergedFacts
  <2>3. /\ p \in Nat /\ Len(m.entries) \in Nat /\ b \in Nat /\ p <= b /\ Len(log[i]) \in Nat
        /\ p <= Len(log[i]) /\ TermAt(log[i], p) = m.prevTerm
    BY <2>1, OfRequestFacts, SMTT(30) DEF prevMatches
  <2>4. /\ DOMAIN f = 0..b /\ \A n \in 0..b : f[n] = TermAt(l, n)
        /\ DOMAIN g = 0..Len(log[i]) /\ \A n \in 0..Len(log[i]) : g[n] = TermAt(log[i], n)
    BY <2>1, <2>2, OfLogFacts
  <2>5. /\ DOMAIN h = p..b /\ h[p] = m.prevTerm
        /\ \A n \in m.next..b : h[n] = m.entries[n - m.next + 1]
    BY <2>1, OfRequestFacts
  <2>6. Shape(f) /\ g \in Parts /\ h \in Parts
    BY <2>2, LogShape, LogIsPart, RequestIsPart
  <2> HIDE DEF f, g, h, l
  <2>7. p \in DOMAIN f /\ p \in DOMAIN g /\ p \in DOMAIN h /\ g[p] = h[p]
    BY <2>3, <2>4, <2>5, SMTT(30)
  <2>8. ASSUME NEW n \in DOMAIN f, n <= p PROVE n \in DOMAIN g /\ f[n] = g[n]
    <3>1. n \in 0..b /\ n \in 0..Len(log[i]) /\ (n = 0 \/ n \in 1..p)
      BY <2>3, <2>4, <2>8, SMTT(30)
    <3>2. TermAt(l, n) = TermAt(log[i], n)
      BY <2>2, <3>1 DEF TermAt
    <3>3. QED
      BY <2>4, <3>1, <3>2
  <2>9. ASSUME NEW n \in DOMAIN f, n >= p PROVE n \in DOMAIN h /\ f[n] = h[n]
    <3>1. n \in 0..b /\ n \in p..b /\ (n = p \/ (n \in m.next..b /\ n # 0))
      BY <2>1, <2>3, <2>4, <2>9, SMTT(30)
    <3>2. CASE n = p
      BY <2>7, <2>8, <3>1, <3>2, SMTT(30)
    <3>3. CASE n \in m.next..b /\ n # 0
      BY <2>2, <2>4, <2>5, <3>1, <3>3 DEF TermAt
    <3>4. QED
      BY <3>1, <3>2, <3>3
  <2>10. Fits(f)
    BY <2>6, <2>7, <2>8, <2>9, JoinFits
  <2>11. QED
    BY <2>10 DEF f, l
<1>3. QED
  BY <1>1, <1>2

-----------------------------------------------------------------------------
\* Terms do not go back, and a vote stays while the term does.
VotesStay ==
    \A j \in Node :
        /\ currentTerm'[j] >= currentTerm[j]
        /\ currentTerm'[j] = currentTerm[j] /\ votedFor[j] # Nil => votedFor'[j] = votedFor[j]

LEMMA ElectedStays ==
    ASSUME Types, Types', VotesStay, NEW t \in Nat, Elected(t)
    PROVE  Elected(t)'
<1>1. PICK w \in Node, Q \in SUBSET Node :
         /\ IsQuorum(Q) /\ currentTerm[w] >= t
         /\ \A j \in Q : currentTerm[j] > t \/ (currentTerm[j] = t /\ votedFor[j] = w)
  BY DEF Elected
<1>2. \A j \in Node : currentTerm[j] \in Nat /\ currentTerm'[j] \in Nat
  BY DEF Types
<1>3. currentTerm'[w] >= t
  BY <1>2, <1>1, SMTT(30) DEF VotesStay
<1>4. ASSUME NEW j \in Q
      PROVE  currentTerm'[j] > t \/ (currentTerm'[j] = t /\ votedFor'[j] = w)
  <2>1. j \in Node /\ w # Nil
    BY NodeAssumption
  <2>2. currentTerm'[j] >= currentTerm[j]
    BY <2>1 DEF VotesStay
  <2>3. CASE currentTerm[j] > t
    BY <1>2, <2>1, <2>2, <2>3, SMTT(30)
  <2>4. CASE currentTerm[j] = t /\ votedFor[j] = w
    <3>1. currentTerm'[j] = currentTerm[j] => votedFor'[j] = w
      BY <2>1, <2>4 DEF VotesStay
    <3>2. QED
      BY <1>2, <2>1, <2>2, <2>4, <3>1, SMTT(30)
  <2>5. QED
    BY <1>1, <2>3, <2>4
<1>5. QED
  BY <1>1, <1>3, <1>4 DEF Elected, IsQuorum, Majority

\* stepDown and what keeps term and vote.
LEMMA StepDownVotes ==
    ASSUME Types, NEW i \in Node, NEW term \in Nat, stepDown(i, term)
    PROVE  /\ VotesStay /\ state'[i] = Follower
           /\ \A j \in Node : state'[j] = Leader => state[j] = Leader /\ currentTerm'[j] = currentTerm[j]
<1>1. \A j \in Node : currentTerm[j] \in Nat
  BY DEF Types
<1>2. /\ state' = [state EXCEPT ![i] = Follower]
      /\ currentTerm' = [currentTerm EXCEPT ![i] = IF term > @ THEN term ELSE @]
      /\ votedFor' = [votedFor EXCEPT ![i] = IF term > currentTerm[i] THEN Nil ELSE @]
  BY DEF stepDown
<1>3. VotesStay
  <2>1. currentTerm \in [Node -> Nat] /\ votedFor \in [Node -> Node \cup {Nil}]
    BY DEF Types
  <2>2. /\ currentTerm'[i] = (IF term > currentTerm[i] THEN term ELSE currentTerm[i])
        /\ votedFor'[i] = (IF term > currentTerm[i] THEN Nil ELSE votedFor[i])
    BY <1>2, <2>1
  <2>3. \A j \in Node : j # i => currentTerm'[j] = currentTerm[j] /\ votedFor'[j] = votedFor[j]
    BY <1>2, <2>1
  <2>4. /\ currentTerm'[i] >= currentTerm[i]
        /\ currentTerm'[i] = currentTerm[i] => votedFor'[i] = votedFor[i]
    BY <1>1, <2>2, SMTT(30)
  <2>5. QED
    BY <1>1, <2>3, <2>4, SMTT(30) DEF VotesStay
<1>4. QED
  BY <1>2, <1>3 DEF Types, Follower, Leader

LEMMA VotesUnchanged ==
    ASSUME Types, UNCHANGED <<currentTerm, votedFor>>
    PROVE  VotesStay
BY SMTT(30) DEF Types, VotesStay

\* An election that is lost, or whose no-op entry cannot be written.
LEMMA ElectionVotes ==
    ASSUME Types, NEW i \in Node, NEW Q \in SUBSET Node, NEW R \in SUBSET Node,
           startElection(i, Q, R)
    PROVE  /\ VotesStay
           /\ \A j \in Node : j # i /\ state'[j] = Leader =>
                 state[j] = Leader /\ currentTerm'[j] = currentTerm[j]
<1> DEFINE term == currentTerm[i] + 1
<1>1. /\ currentTerm' = [j \in Node |-> IF j \in Q \cup R THEN term ELSE currentTerm[j]]
      /\ votedFor' = [j \in Node |-> IF j \in Q THEN i ELSE IF j \in R THEN Nil ELSE votedFor[j]]
      /\ \A j \in Q \ {i} : wouldVote(j, i, term)
      /\ \A j \in R : wouldRefuse(j, i, term)
      /\ \E role \in {Follower, Candidate, Leader} : state' = roles(i, role, Q \cup R, term)
  BY DEF startElection
<1>2. \A j \in Node : currentTerm[j] \in Nat
  BY DEF Types
<1>3. \A j \in Q \ {i} : /\ state[j] # Leader
                         /\ currentTerm[j] < term \/ (currentTerm[j] = term /\ votedFor[j] \in {Nil, i})
  BY <1>1 DEF wouldVote
<1>4. \A j \in R : state[j] # Leader /\ currentTerm[j] < term
  BY <1>1 DEF wouldRefuse
<1>5. currentTerm[i] < term
  BY <1>2, SMTT(30)
<1>6. ASSUME NEW j \in Node
      PROVE  /\ currentTerm'[j] >= currentTerm[j]
             /\ currentTerm'[j] = currentTerm[j] /\ votedFor[j] # Nil => votedFor'[j] = votedFor[j]
  <2> HIDE DEF term
  <2>0. term \in Nat
    BY <1>2, SMTT(30) DEF term
  <2>1. CASE j \in Q
    BY <1>1, <1>2, <1>3, <1>5, <2>0, <2>1, SMTT(30)
  <2>2. CASE j \notin Q /\ j \in R
    BY <1>1, <1>2, <1>4, <2>0, <2>2, SMTT(30)
  <2>3. CASE j \notin Q /\ j \notin R
    BY <1>1, <1>2, <2>3, SMTT(30)
  <2>4. QED
    BY <2>1, <2>2, <2>3
<1>7. ASSUME NEW j \in Node, j # i, state'[j] = Leader
      PROVE  state[j] = Leader /\ currentTerm'[j] = currentTerm[j]
  <2>1. state[j] = Leader
    BY <1>1, <1>7 DEF roles, Follower, Leader
  <2>2. j \notin Q /\ j \notin R
    BY <1>3, <1>4, <1>7, <2>1
  <2>3. QED
    BY <1>1, <2>1, <2>2
<1>8. QED
  BY <1>6, <1>7 DEF VotesStay

\* A term that is won was not won before.
LEMMA WonOnce ==
    ASSUME Basics, Types, NEW i \in Node, NEW Q \in SUBSET Node, NEW R \in SUBSET Node,
           startElection(i, Q, R), IsQuorum(Q)
    PROVE  ~Elected(currentTerm[i] + 1)
<1> DEFINE term == currentTerm[i] + 1
<1> SUFFICES ASSUME Elected(term) PROVE FALSE
  OBVIOUS
<1>1. PICK w \in Node, P \in SUBSET Node :
         /\ IsQuorum(P) /\ currentTerm[w] >= term
         /\ \A j \in P : currentTerm[j] > term \/ (currentTerm[j] = term /\ votedFor[j] = w)
  BY DEF Elected
<1>2. PICK j \in Node : j \in P /\ j \in Q
  BY <1>1, QuorumsIntersect
<1>3. /\ currentTerm[j] \in Nat /\ currentTerm[i] \in Nat /\ currentTerm[w] \in Nat
      /\ term \in Nat /\ currentTerm[i] < term
  <2>1. currentTerm[j] \in Nat /\ currentTerm[i] \in Nat /\ currentTerm[w] \in Nat
    BY DEF Types
  <2>2. QED
    BY <2>1, SMTT(30)
<1>4. j # i /\ w # i /\ w # Nil
  BY <1>1, <1>2, <1>3, NodeAssumption, SMTT(30)
<1>5. currentTerm[j] < term \/ (currentTerm[j] = term /\ votedFor[j] \in {Nil, i})
  BY <1>2, <1>4 DEF startElection, wouldVote
<1>6. QED
  BY <1>1, <1>2, <1>3, <1>4, <1>5, SMTT(30)

-----------------------------------------------------------------------------
(* Logs that follow the history.                                           *)

\* A log that is the beginning of another.
LEMMA PrefixFollows ==
    ASSUME NEW H, NEW l \in Seq(Nat), NEW k \in Seq(Nat), Agree(l, k, Len(l)), FollowsTerms(k, H)
    PROVE  FollowsTerms(l, H)
<1> SUFFICES ASSUME NEW b \in 1..Len(l) PROVE l[b] > 0 /\ Agree(l, H[l[b]], b)
  BY DEF FollowsTerms
<1>1. b \in 1..Len(k) /\ l[b] = k[b] /\ \A p \in 1..b : l[p] = k[p]
  BY SMTT(30) DEF Agree
<1>2. k[b] > 0 /\ Agree(k, H[k[b]], b)
  BY <1>1 DEF FollowsTerms
<1>3. QED
  BY <1>1, <1>2, SMTT(30) DEF Agree

\* Two logs with the same entry agree up to it.
LEMMA SameEntry ==
    ASSUME NEW H, NEW l \in Seq(Nat), NEW k \in Seq(Nat), FollowsTerms(l, H), FollowsTerms(k, H),
           NEW p \in Nat, p <= Len(l), p <= Len(k), TermAt(l, p) = TermAt(k, p)
    PROVE  Agree(l, k, p)
<1>1. CASE p = 0
  BY <1>1, SMTT(30) DEF Agree
<1>2. CASE p # 0
  <2>1. p \in 1..Len(l) /\ p \in 1..Len(k) /\ l[p] = k[p]
    BY <1>2, SMTT(30) DEF TermAt
  <2>2. Agree(l, H[l[p]], p) /\ Agree(k, H[l[p]], p)
    BY <2>1 DEF FollowsTerms
  <2>3. QED
    BY <2>1, <2>2 DEF Agree
<1>3. QED
  BY <1>1, <1>2

\* Request m reaches log l, which has its previous entry, in term m.term.
Reaches(m, l, H) ==
    /\ History(H) /\ FollowsTerms(l, H) /\ Shows(m, H) /\ prevMatches(l, m)
    /\ m \in Request /\ m.next > 0 /\ \A b \in 1..Len(l) : l[b] <= m.term

\* Log k keeps what l has of the log of the leader.
KeepsLog(l, k, term, H) ==
    /\ k \in Seq(Nat) /\ FollowsTerms(k, H) /\ \A b \in 1..Len(k) : k[b] <= term
    /\ \A n \in Nat : Agree(l, H[term], n) => Agree(k, H[term], n)

LEMMA ReachedLog ==
    ASSUME NEW m, NEW l \in Seq(Nat), NEW H, Reaches(m, l, H)
    PROVE  /\ H[m.term] \in Seq(Nat) /\ FollowsTerms(H[m.term], H)
           /\ \A b \in 1..Len(H[m.term]) : H[m.term][b] <= m.term
           /\ Agree(l, H[m.term], m.next - 1)
           /\ m.next \in Nat /\ m.entries \in Seq(Nat) /\ m.term \in Nat
           /\ m.next - 1 + Len(m.entries) <= Len(H[m.term])
           /\ \A k \in 1..Len(m.entries) : m.entries[k] = H[m.term][m.next - 1 + k]
<1>1. m \in Request /\ m.next > 0 /\ m.next \in Nat /\ m.entries \in Seq(Nat) /\ m.term \in Nat
  BY DEF Reaches, Request
<1>2. PICK h \in Seq(Nat) : h = H[m.term]
  <2>1. H \in [Nat -> Seq(Nat)]
    BY DEF Reaches, History
  <2>2. H[m.term] \in Seq(Nat)
    BY <1>1, <2>1
  <2>3. QED
    BY <2>2
<1>3. FollowsTerms(h, H) /\ \A b \in 1..Len(h) : h[b] <= m.term
  BY <1>1, <1>2 DEF Reaches, History
<1>4. /\ m.next - 1 + Len(m.entries) <= Len(h) /\ m.prevTerm = TermAt(h, m.next - 1)
      /\ \A k \in 1..Len(m.entries) : m.entries[k] = h[m.next - 1 + k]
  BY <1>2 DEF Reaches, Shows
<1>5. m.next - 1 <= Len(l) /\ TermAt(l, m.next - 1) = m.prevTerm
  BY DEF Reaches, prevMatches
<1>6. Agree(l, h, m.next - 1)
  <2>1. m.next - 1 \in Nat /\ m.next - 1 <= Len(h)
    BY <1>1, <1>4, SMTT(30)
  <2>2. FollowsTerms(l, H)
    BY DEF Reaches
  <2>3. QED
    BY <1>3, <1>4, <1>5, <2>1, <2>2, SameEntry
<1>7. QED
  BY <1>1, <1>2, <1>3, <1>4, <1>6

\* What the log has of the leader's log ends before a missing entry.
LEMMA MissingEnds ==
    ASSUME NEW m, NEW l \in Seq(Nat), NEW H, Reaches(m, l, H), NEW k \in missing(l, m),
           NEW n \in Nat, Agree(l, H[m.term], n)
    PROVE  n < m.next - 1 + k /\ k \in 1..Len(m.entries)
<1>1. PICK h \in Seq(Nat) : h = H[m.term]
  BY ReachedLog
<1>2. /\ m.next \in Nat /\ m.next > 0 /\ k \in 1..Len(m.entries) /\ m.entries \in Seq(Nat)
      /\ m.entries[k] = h[m.next - 1 + k]
  BY <1>1, ReachedLog DEF missing, Reaches
<1>3. m.next - 1 + k > Len(l) \/ l[m.next - 1 + k] # h[m.next - 1 + k]
  BY <1>2 DEF missing
<1>4. n <= Len(l) /\ \A p \in 1..n : l[p] = h[p]
  BY <1>1 DEF Agree
<1>5. PICK q \in Nat : q = m.next - 1 + k /\ q > 0
  <2>1. m.next - 1 + k \in Nat /\ m.next - 1 + k > 0
    BY <1>2, SMTT(30)
  <2>2. QED
    BY <2>1
<1>6. n < q
  BY <1>3, <1>4, <1>5, SMTT(30)
<1>7. QED
  BY <1>2, <1>5, <1>6

\* TruncateAfter keeps it.
LEMMA TruncatedKeeps ==
    ASSUME Basics, NEW m, NEW l \in Seq(Nat), NEW H, Reaches(m, l, H), missing(l, m) # {}
    PROVE  KeepsLog(l, truncated(l, m), m.term, H)
<1>1. m \in Request /\ m.next > 0 /\ prevMatches(l, m) /\ m.next \in Nat
  BY DEF Reaches, Request
<1>2. PICK k : k = truncated(l, m)
  OBVIOUS
<1>3. /\ k \in Seq(Nat) /\ Len(k) <= Len(l) /\ Len(k) = m.next - 2 + Min(missing(l, m))
      /\ \A n \in 1..Len(k) : k[n] = l[n]
  BY <1>1, <1>2, TruncatedFacts
<1>4. Agree(k, l, Len(k)) /\ FollowsTerms(l, H) /\ \A b \in 1..Len(l) : l[b] <= m.term
  BY <1>3, SMTT(30) DEF Agree, Reaches
<1>5. FollowsTerms(k, H) /\ \A b \in 1..Len(k) : k[b] <= m.term
  BY <1>3, <1>4, PrefixFollows, SMTT(30)
<1>6. ASSUME NEW n \in Nat, Agree(l, H[m.term], n) PROVE Agree(k, H[m.term], n)
  <2>0. Len(m.entries) \in Nat
    BY <1>1, RequestFields
  <2>1. missing(l, m) \in SUBSET Nat
    BY <2>0, SMTT(30) DEF missing
  <2>2. PICK q \in missing(l, m) : q = Min(missing(l, m))
    BY <2>1, MinOfSet
  <2>3. n < m.next - 1 + q
    BY <1>6, <2>2, MissingEnds
  <2>4. n <= Len(k) /\ q \in Nat
    BY <1>1, <1>3, <2>1, <2>2, <2>3, SMTT(30)
  <2>5. \A p \in 1..n : k[p] = l[p]
    <3>1. Len(k) \in Nat
      BY <1>3, SMTT(30)
    <3>2. \A p \in 1..n : p \in 1..Len(k)
      BY <2>4, <3>1, SMTT(30)
    <3>3. QED
      BY <1>3, <3>2
  <2>6. QED
    BY <1>6, <2>4, <2>5 DEF Agree
<1>7. QED
  BY <1>2, <1>3, <1>5, <1>6 DEF KeepsLog

\* The merge keeps it, and then the log has all that the request shows.
LEMMA MergedKeeps ==
    ASSUME Basics, NEW m, NEW l \in Seq(Nat), NEW H, Reaches(m, l, H)
    PROVE  /\ KeepsLog(l, merged(l, m), m.term, H)
           /\ Agree(merged(l, m), H[m.term], m.next - 1 + Len(m.entries))
<1>1. /\ m \in Request /\ m.next > 0 /\ prevMatches(l, m) /\ FollowsTerms(l, H)
      /\ \A b \in 1..Len(l) : l[b] <= m.term
  BY DEF Reaches
<1>2. PICK h \in Seq(Nat) : h = H[m.term]
  BY ReachedLog
<1>3. PICK a \in Nat, e \in Seq(Nat) : a = m.next - 1 /\ e = m.entries
  BY <1>1, SMTT(30) DEF Request
<1>4. /\ Agree(l, h, a) /\ FollowsTerms(h, H) /\ \A b \in 1..Len(h) : h[b] <= m.term
      /\ a + Len(e) <= Len(h) /\ \A k \in 1..Len(e) : e[k] = h[a + k]
  BY <1>2, <1>3, ReachedLog
<1>5. CASE missing(l, m) = {}
  <2>1. merged(l, m) = l
    BY <1>5 DEF merged
  <2>2. ASSUME NEW k \in 1..Len(e) PROVE a + k <= Len(l) /\ l[a + k] = h[a + k]
    <3>1. ~ (m.next - 1 + k > Len(l) \/ l[m.next - 1 + k] # m.entries[k])
      BY <1>3, <1>5 DEF missing
    <3>2. QED
      BY <1>3, <1>4, <3>1, SMTT(30)
  <2>3. Agree(l, h, a + Len(e))
    <3>1. a + Len(e) <= Len(l)
      <4>1. CASE Len(e) = 0
        <5>1. a <= Len(l)
          BY <1>4 DEF Agree
        <5>2. QED
          BY <4>1, <5>1, SMTT(30)
      <4>2. CASE Len(e) # 0
        BY <2>2, <4>2, SMTT(30)
      <4>3. QED
        BY <4>1, <4>2
    <3>2. ASSUME NEW p \in 1..(a + Len(e)) PROVE l[p] = h[p]
      <4>1. CASE p <= a
        BY <1>4, <4>1, SMTT(30) DEF Agree
      <4>2. CASE p > a
        <5>1. p - a \in 1..Len(e) /\ a + (p - a) = p
          BY <4>2, SMTT(30)
        <5>2. QED
          BY <2>2, <5>1
      <4>3. QED
        BY <4>1, <4>2, SMTT(30)
    <3>3. QED
      BY <1>4, <3>1, <3>2 DEF Agree
  <2>4. QED
    BY <1>1, <1>2, <1>3, <2>1, <2>3 DEF KeepsLog
<1>6. CASE missing(l, m) # {}
  <2>1. PICK k : k = merged(l, m)
    OBVIOUS
  <2>2. /\ k \in Seq(Nat) /\ Len(k) = a + Len(e)
        /\ \A n \in 1..a : k[n] = l[n]
        /\ \A n \in (a + 1)..(a + Len(e)) : k[n] = e[n - a]
    <3>1. /\ k \in Seq(Nat) /\ Len(k) = m.next - 1 + Len(m.entries)
          /\ \A n \in 1..(m.next - 1) : k[n] = l[n]
          /\ \A n \in m.next..(m.next - 1 + Len(m.entries)) : k[n] = m.entries[n - m.next + 1]
      BY <1>1, <1>6, <2>1, MergedFacts
    <3>2. m.next = a + 1 /\ \A n \in (a + 1)..(a + Len(e)) : n - m.next + 1 = n - a
      BY <1>1, <1>3, SMTT(30) DEF Request
    <3>3. QED
      BY <1>3, <3>1, <3>2
  <2>3. \A p \in 1..Len(k) : k[p] = h[p]
    <3> SUFFICES ASSUME NEW p \in 1..Len(k) PROVE k[p] = h[p]
      OBVIOUS
    <3>1. CASE p <= a
      <4>1. p \in 1..a
        BY <2>2, <3>1, SMTT(30)
      <4>2. QED
        BY <1>4, <2>2, <4>1 DEF Agree
    <3>2. CASE p > a
      <4>1. p - a \in 1..Len(e) /\ a + (p - a) = p /\ p \in (a + 1)..(a + Len(e))
        BY <2>2, <3>2, SMTT(30)
      <4>2. k[p] = e[p - a] /\ e[p - a] = h[p]
        BY <1>4, <2>2, <4>1
      <4>3. QED
        BY <4>2
    <3>3. QED
      BY <3>1, <3>2, SMTT(30)
  <2>4. Agree(k, h, Len(k))
    BY <1>4, <2>2, <2>3, SMTT(30) DEF Agree
  <2>5. FollowsTerms(k, H) /\ \A b \in 1..Len(k) : k[b] <= m.term
    <3>1. FollowsTerms(k, H)
      BY <1>4, <2>2, <2>4, PrefixFollows
    <3>2. Len(k) \in Nat /\ Len(h) \in Nat /\ Len(k) <= Len(h)
      BY <1>4, <2>2, SMTT(30)
    <3>3. \A p \in 1..Len(k) : p \in 1..Len(h)
      BY <3>2, SMTT(30)
    <3>4. QED
      BY <1>4, <2>3, <3>1, <3>3
  <2>6. ASSUME NEW n \in Nat, Agree(l, h, n) PROVE Agree(k, h, n)
    <3>1. PICK q \in missing(l, m) : TRUE
      BY <1>6
    <3>2. n < m.next - 1 + q /\ q \in 1..Len(m.entries)
      BY <1>2, <2>6, <3>1, MissingEnds
    <3>3. n <= Len(k)
      BY <1>3, <2>2, <3>2, SMTT(30)
    <3>4. \A p \in 1..n : p \in 1..Len(k)
      BY <2>2, <3>3, SMTT(30)
    <3>5. QED
      BY <2>3, <2>6, <3>3, <3>4 DEF Agree
  <2>7. KeepsLog(l, k, m.term, H)
    BY <1>2, <2>2, <2>5, <2>6 DEF KeepsLog
  <2>8. QED
    BY <1>2, <1>3, <2>1, <2>2, <2>4, <2>7
<1>7. QED
  BY <1>5, <1>6

-----------------------------------------------------------------------------
(* Parts that several actions share.                                       *)

LEMMA VotesGrow ==
    ASSUME Types, Types', VotesStay
    PROVE  TermsGrow /\ ElectedStay
<1>1. TermsGrow
  BY DEF VotesStay, TermsGrow
<1>2. ElectedStay
  BY ElectedStays DEF ElectedStay
<1>3. QED
  BY <1>1, <1>2

LEMMA CommitsNothing ==
    ASSUME chosen' = chosen
    PROVE  CommitsAcked
BY DEF CommitsAcked

\* The term of a node that handles a request is the request's, and stays so.
LEMMA HandlersKeepTerm ==
    ASSUME NEW H, LogsInv(H), TermsWait
    PROVE  \A m \in handling \cap handling' : currentTerm'[m.to] = m.term
BY DEF LogsInv, TermsWait

LEMMA SilentIsQuiet ==
    ASSUME Types, Types', NEW H, LogsInv(H), TermsWait, VotesStay, Silent
    PROVE  Quiet(H)
<1>1. TermsGrow /\ ElectedStay /\ LeadersStay
  BY VotesGrow DEF Silent
<1>2. log' = log /\ requests' \subseteq requests /\ handling' \subseteq handling /\ replies' \subseteq replies
  BY DEF Silent
<1>3. \A m \in handling' : currentTerm'[m.to] = m.term
  BY <1>2, HandlersKeepTerm
<1>4. \A i \in Node : state'[i] = Leader => Books(i)
  BY DEF Silent, Books
<1>5. QED
  BY <1>1, <1>2, <1>3, <1>4 DEF Quiet

\* advanceCommitIndex commits what a majority has acknowledged.
LEMMA AdvanceCommits ==
    ASSUME Basics, Types, Types', NEW i \in Node, state'[i] = Leader,
           advanceCommitIndex(i, currentTerm'[i], log'[i], matchIndex'[i])
    PROVE  CommitsAcked
<1>1. PICK l \in Seq(Nat), match \in [Node -> Nat], term \in Nat, a \in Nat :
         /\ l = log'[i] /\ match = matchIndex'[i] /\ term = currentTerm'[i] /\ a = commitIndex[i]
  BY DEF Types
<1> DEFINE ok == committable(i, term, l, match)
<1>2. PICK n : n = IF ok = {} THEN a ELSE Max(ok)
  OBVIOUS
<1>3. chosen' = chosen \cup {[index |-> k, term |-> l[k], by |-> term] : k \in (a + 1)..n}
  BY <1>1, <1>2 DEF advanceCommitIndex
<1> SUFFICES ASSUME NEW c \in chosen', c \notin chosen
             PROVE  /\ c.by = term /\ n \in Nat /\ c.index \in 1..n /\ n <= Len(l)
                    /\ l[n] = c.by /\ l[c.index] = c.term
                    /\ IsQuorum({i} \cup Ackers(i, n)')
  BY <1>1 DEF CommitsAcked
<1>4. PICK k \in (a + 1)..n : c = [index |-> k, term |-> l[k], by |-> term]
  BY <1>3
<1>5. ok # {}
  BY <1>2, <1>4, SMTT(30)
<1>6. n = Max(ok)
  BY <1>2, <1>5
<1>7. ok \in SUBSET Nat /\ \A x \in ok : x <= Len(l)
  <2>1. Len(l) \in Nat
    BY SMTT(30)
  <2>2. ok \subseteq (a + 1)..Len(l)
    BY <1>1 DEF committable
  <2>3. QED
    BY <2>1, <2>2, SMTT(30)
<1>8. n \in ok
  <2>1. Len(l) \in Nat
    BY SMTT(30)
  <2>2. QED
    BY <1>5, <1>6, <1>7, <2>1, MaxOfSet
<1>9. /\ n \in (a + 1)..Len(l) /\ \A q \in n..Len(l) : l[q] = term
      /\ IsQuorum({i} \cup {j \in Node \ {i} : match[j] >= n})
  BY <1>1, <1>8 DEF committable
<1>10. n \in Nat /\ n <= Len(l) /\ n \in n..Len(l) /\ k \in 1..n
  BY <1>4, <1>9, SMTT(30)
<1>11. c.by = term /\ c.index = k /\ c.term = l[k]
  BY <1>4
<1>12. IsQuorum({i} \cup Ackers(i, n)')
  <2> DEFINE S == {i} \cup {j \in Node \ {i} : match[j] >= n}
             T == {i} \cup Ackers(i, n)'
  <2>1. S \in SUBSET Node /\ T \in SUBSET Node
    BY DEF Ackers
  <2>2. ASSUME NEW j \in S PROVE j \in T
    BY <1>1 DEF Ackers
  <2>3. IsQuorum(S)
    BY <1>9
  <2> HIDE DEF S, T
  <2>4. IsQuorum(T)
    BY <2>1, <2>2, <2>3 DEF Basics, QuorumsGrow
  <2>5. QED
    BY <2>4 DEF T
<1>13. QED
  BY <1>9, <1>10, <1>11, <1>12

-----------------------------------------------------------------------------
(* What the actions do to a history of the leaders' logs and to commit     *)
(* indexes (module ReplicationHistory): a step is quiet or a leader makes  *)
(* an entry (HistoryStep), and what it commits has been acknowledged or is *)
(* told by a leader (CommitStep).                                          *)

\* An election that is not won, or whose no-op entry cannot be written.
LEMMA LostElection ==
    ASSUME Types, Types', NEW H, LogsInv(H), TermsWait,
           NEW i \in Node, NEW Q \in SUBSET Node, NEW R \in SUBSET Node, startElection(i, Q, R),
           state'[i] # Leader
    PROVE  HistoryStep(H)
<1>1. /\ VotesStay
      /\ \A j \in Node : j # i /\ state'[j] = Leader =>
            state[j] = Leader /\ currentTerm'[j] = currentTerm[j]
  BY ElectionVotes
<1>2. UNCHANGED <<requests, replies, handling>>
  BY DEF startElection
<1>3. \/ UNCHANGED <<logVars, leaderVars>>
      \/ /\ UNCHANGED <<log, commitIndex, chosen>>
         /\ matchIndex' = [matchIndex EXCEPT ![i] = [j \in Node |-> 0]]
  <2>1. CASE state' = roles(i, Leader, Q \cup R, currentTerm[i] + 1)
    BY <2>1 DEF roles
  <2>2. QED
    BY <2>1 DEF startElection
<1>4. log' = log /\ chosen' = chosen
  BY <1>3 DEF logVars
<1>5. \A j \in Node : j # i => matchIndex'[j] = matchIndex[j]
  BY <1>3 DEF leaderVars, Types
<1>6. Silent
  <2>1. requests' = requests /\ replies' = replies /\ handling' = handling
    BY <1>2
  <2>2. LeadersStay
    BY <1>1 DEF LeadersStay
  <2>3. QED
    BY <1>4, <1>5, <2>1, <2>2 DEF Silent
<1>7. QED
  BY <1>1, <1>4, <1>6, SilentIsQuiet, CommitsNothing DEF HistoryStep

LEMMA FlushBeginStep ==
    ASSUME Types, Types', NEW H, LogsInv(H), TermsWait, NEW i \in Node, flushBegin(i)
    PROVE  HistoryStep(H)
<1>1. /\ UNCHANGED <<state, currentTerm, votedFor, log, chosen, matchIndex>>
      /\ UNCHANGED <<requests, replies, handling>>
  BY DEF flushBegin, nodeVars, logVars, leaderVars, netVars
<1>2. Silent
  BY <1>1 DEF Silent, LeadersStay
<1>3. QED
  BY <1>1, <1>2, VotesUnchanged, SilentIsQuiet, CommitsNothing DEF HistoryStep

\* A flush that does not reach the log.
LEMMA FlushAppendQuiet ==
    ASSUME Types, Types', NEW H, LogsInv(H), TermsWait, NEW i \in Node, flushAppend(i),
           log' = log
    PROVE  HistoryStep(H)
<1>1. /\ UNCHANGED <<state, currentTerm, votedFor, log, chosen, matchIndex>>
      /\ UNCHANGED <<requests, replies, handling>>
  BY DEF flushAppend, nodeVars, leaderVars, netVars
<1>2. Silent
  BY <1>1 DEF Silent, LeadersStay
<1>3. QED
  BY <1>1, <1>2, VotesUnchanged, SilentIsQuiet, CommitsNothing DEF HistoryStep

\* The end of a flush, which may commit.
LEMMA FlushEndStep ==
    ASSUME Basics, Types, Types', NEW H, LogsInv(H), TermsWait, NEW i \in Node, flushEnd(i)
    PROVE  HistoryStep(H)
<1>1. /\ UNCHANGED <<currentTerm, votedFor, log, matchIndex, requests, replies, handling>>
      /\ state' = state \/ state' = [state EXCEPT ![i] = Follower]
  BY DEF flushEnd, nodeVars, logVars, leaderVars
<1>2. Silent
  BY <1>1 DEF Silent, LeadersStay, Types, Follower, Leader
<1>3. CommitsAcked
  <2>1. CASE chosen' = chosen
    BY <2>1, CommitsNothing
  <2>2. CASE /\ state[i] = Leader /\ UNCHANGED nodeVars
             /\ advanceCommitIndex(i, currentTerm[i], log[i], matchIndex[i])
    <3>1. state'[i] = Leader
      BY <2>2 DEF nodeVars
    <3>2. advanceCommitIndex(i, currentTerm'[i], log'[i], matchIndex'[i])
      BY <1>1, <2>2
    <3>3. QED
      BY <3>1, <3>2, AdvanceCommits
  <2>3. QED
    BY <2>1, <2>2 DEF flushEnd, logVars
<1>4. VotesStay
  BY <1>1, VotesUnchanged
<1>5. QED
  BY <1>2, <1>3, <1>4, SilentIsQuiet DEF HistoryStep

LEMMA RpcFailsStep ==
    ASSUME Types, Types', NEW H, LogsInv(H), TermsWait, NEW m \in requests \cup replies,
           rpcFails(m)
    PROVE  HistoryStep(H)
<1>1. /\ UNCHANGED <<state, currentTerm, votedFor, log, chosen, matchIndex, handling>>
      /\ requests' = requests \ {m} /\ replies' = replies \ {m}
  BY DEF rpcFails, nodeVars, logVars, leaderVars
<1>2. Silent
  BY <1>1 DEF Silent, LeadersStay
<1>3. QED
  BY <1>1, <1>2, VotesUnchanged, SilentIsQuiet, CommitsNothing DEF HistoryStep

LEMMA RestartStep ==
    ASSUME Types, Types', NEW H, LogsInv(H), TermsWait, NEW i \in Node, restart(i)
    PROVE  HistoryStep(H)
<1>1. /\ UNCHANGED <<currentTerm, votedFor, log, chosen, requests>>
      /\ state' = [state EXCEPT ![i] = Follower]
      /\ matchIndex' = [matchIndex EXCEPT ![i] = [j \in Node |-> 0]]
      /\ replies' \subseteq replies /\ handling' \subseteq handling
  BY DEF restart
<1>2. Silent
  BY <1>1 DEF Silent, LeadersStay, Types, Follower, Leader
<1>3. QED
  BY <1>1, <1>2, VotesUnchanged, SilentIsQuiet, CommitsNothing DEF HistoryStep

LEMMA StutterStep ==
    ASSUME Types, Types', NEW H, LogsInv(H), UNCHANGED vars
    PROVE  HistoryStep(H)
<1>1. /\ UNCHANGED <<state, currentTerm, votedFor, log, chosen, matchIndex>>
      /\ UNCHANGED <<requests, replies, handling>>
  BY DEF vars, nodeVars, logVars, leaderVars, netVars
<1>2. Silent /\ TermsWait
  BY <1>1 DEF Silent, LeadersStay, TermsWait
<1>3. QED
  BY <1>1, <1>2, VotesUnchanged, SilentIsQuiet, CommitsNothing DEF HistoryStep

\* A request that the leader sends shows its log.
LEMMA ReplicateToStep ==
    ASSUME Types, Types', NEW H, LogsInv(H), TermsWait, NEW s \in sends, replicateTo(s)
    PROVE  HistoryStep(H)
<1>1. /\ UNCHANGED <<state, currentTerm, votedFor, log, chosen, matchIndex>>
      /\ UNCHANGED <<replies, handling>>
  BY DEF replicateTo, nodeVars, logVars, leaderVars
<1>2. VotesStay
  BY <1>1, VotesUnchanged
<1>3. CommitsAcked
  BY <1>1, CommitsNothing
<1>4. CASE requests' = requests
  <2>1. Silent
    BY <1>1, <1>4 DEF Silent, LeadersStay
  <2>2. QED
    BY <1>2, <1>3, <2>1, SilentIsQuiet DEF HistoryStep
<1>5. CASE state[s.from] = Leader /\ ~fatal[s.from]
  <2>1. s.from \in Node
    BY DEF Types, Send
  <2>2. PICK l \in Seq(Nat) : l = log[s.from]
    <3>1. log[s.from] \in Seq(Nat)
      BY <2>1 DEF Types
    <3>2. QED
      BY <3>1
  <2>3. H[currentTerm[s.from]] = l /\ l # <<>>
    BY <1>5, <2>1, <2>2 DEF LogsInv
  <2>4. PICK m \in Request :
           /\ requests' = requests \cup {m} /\ m.term = currentTerm[s.from]
           /\ m.next - 1 + Len(m.entries) <= Len(l) /\ m.prevTerm = TermAt(l, m.next - 1)
           /\ \A k \in 1..Len(m.entries) : m.entries[k] = l[m.next - 1 + k]
    BY <1>5, <2>2, SentRequest
  <2>5. Shows(m, H)
    BY <2>3, <2>4 DEF Shows
  <2>6. \A n \in requests' \cup handling' : n \in requests \cup handling \/ Shows(n, H)
    BY <1>1, <2>4, <2>5
  <2>7. \A n \in handling' : currentTerm'[n.to] = n.term
    BY <1>1, HandlersKeepTerm
  <2>8. TermsGrow /\ ElectedStay
    BY <1>2, VotesGrow
  <2>9. /\ LeadersStay /\ \A j \in Node : log'[j] = log[j]
        /\ \A n \in replies' : n \in replies
        /\ \A i \in Node : Books(i)
    BY <1>1 DEF LeadersStay, Books
  <2>10. Quiet(H)
    BY <2>6, <2>7, <2>8, <2>9 DEF Quiet
  <2>11. QED
    BY <1>3, <2>10 DEF HistoryStep
<1>6. QED
  BY <1>4, <1>5 DEF replicateTo

\* A reply: the leader books what it acknowledges, and may commit.
LEMMA HandleReplyStep ==
    ASSUME Basics, Types, Types', NEW H, LogsInv(H), TermsWait, NEW m \in replies, handleReply(m)
    PROVE  HistoryStep(H)
<1>0. m \in Reply /\ m.to \in Node /\ m.from \in Node /\ m.match \in Nat /\ m.term \in Nat
  <2>1. m \in Reply
    BY DEF Types
  <2>2. QED
    BY <2>1, ReplyFields
<1>1. PICK i \in Node : i = m.to
  BY <1>0
<1>2. /\ UNCHANGED <<log, requests, handling>> /\ replies' = replies \ {m}
  BY DEF handleReply, logVars
<1>3. CASE stepDown(i, m.term) /\ UNCHANGED <<logVars, leaderVars>>
  <2>1. /\ VotesStay
        /\ \A j \in Node : state'[j] = Leader => state[j] = Leader /\ currentTerm'[j] = currentTerm[j]
    BY <1>0, <1>3, StepDownVotes
  <2>2. matchIndex' = matchIndex /\ chosen' = chosen
    BY <1>3 DEF leaderVars, logVars
  <2>3. Silent
    BY <1>2, <2>1, <2>2 DEF Silent, LeadersStay
  <2>4. QED
    BY <2>1, <2>2, <2>3, SilentIsQuiet, CommitsNothing DEF HistoryStep
<1>4. CASE UNCHANGED nodeVars /\ UNCHANGED <<logVars, matchIndex>>
  <2>1. UNCHANGED <<state, currentTerm, votedFor, chosen, matchIndex>>
    BY <1>4 DEF nodeVars, logVars
  <2>2. Silent
    BY <1>2, <2>1 DEF Silent, LeadersStay
  <2>3. VotesStay
    BY <2>1, VotesUnchanged
  <2>4. chosen' = chosen
    BY <2>1
  <2>5. QED
    BY <2>2, <2>3, <2>4, SilentIsQuiet, CommitsNothing DEF HistoryStep
<1>5. CASE /\ state[i] = Leader /\ currentTerm[i] = m.req /\ UNCHANGED nodeVars /\ m.success
           /\ LET match == [matchIndex[i] EXCEPT ![m.from] = Max({@, m.match})]
              IN  /\ matchIndex' = [matchIndex EXCEPT ![i] = match]
                  /\ advanceCommitIndex(i, currentTerm[i], log[i], match)
  <2>1. UNCHANGED <<state, currentTerm, votedFor>>
    BY <1>5 DEF nodeVars
  <2>2. PICK match : match = [matchIndex[i] EXCEPT ![m.from] = Max({@, m.match})]
    OBVIOUS
  <2>3. /\ matchIndex'[i] = match /\ \A j \in Node : j # i => matchIndex'[j] = matchIndex[j]
        /\ matchIndex[i] \in [Node -> Nat]
    BY <1>5, <2>2, SMTT(30) DEF Types
  <2>4. advanceCommitIndex(i, currentTerm'[i], log'[i], matchIndex'[i])
    BY <1>2, <1>5, <2>1, <2>2, <2>3
  <2>5. CommitsAcked
    <3>1. state'[i] = Leader
      BY <1>5, <2>1
    <3>2. QED
      BY <2>4, <3>1, AdvanceCommits
  <2>6. ASSUME NEW k \in Node PROVE Books(k)
    <3>1. CASE k # i
      BY <2>3, <3>1 DEF Books
    <3>2. CASE k = i
      <4> SUFFICES ASSUME NEW j \in Node
                   PROVE  \/ matchIndex'[i][j] = matchIndex[i][j]
                          \/ j = m.from /\ m.match = matchIndex'[i][j]
        BY <1>1, <1>5, <3>2 DEF Books
      <4>1. CASE j # m.from
        BY <2>2, <2>3, <4>1
      <4>2. CASE j = m.from
        <5>1. PICK a \in Nat : a = matchIndex[i][j]
          BY <2>3
        <5>2. matchIndex'[i][j] = Max({a, m.match})
          BY <2>2, <2>3, <4>2, <5>1
        <5>3. Max({a, m.match}) = a \/ Max({a, m.match}) = m.match
          BY <1>0, MaxOfTwo, SMTT(30)
        <5>4. QED
          BY <4>2, <5>1, <5>2, <5>3
      <4>3. QED
        BY <4>1, <4>2
    <3>3. QED
      BY <3>1, <3>2
  <2>7. TermsGrow /\ ElectedStay
    BY <2>1, VotesUnchanged, VotesGrow
  <2>8. \A n \in handling' : currentTerm'[n.to] = n.term
    BY <1>2, HandlersKeepTerm
  <2>9. /\ LeadersStay /\ \A j \in Node : log'[j] = log[j]
        /\ \A n \in requests' \cup handling' : n \in requests \cup handling
        /\ \A n \in replies' : n \in replies
    BY <1>2, <2>1 DEF LeadersStay
  <2>10. Quiet(H)
    BY <2>6, <2>7, <2>8, <2>9 DEF Quiet
  <2>11. QED
    BY <2>5, <2>10 DEF HistoryStep
<1>6. QED
  BY <1>1, <1>3, <1>4, <1>5 DEF handleReply, leaderVars

-----------------------------------------------------------------------------
(* The follower's side.                                                    *)

\* A request is handled in its term by a follower.
HandledIn(m, H) ==
    /\ m \in requests \cup handling /\ m \in Request /\ m.next > 0
    /\ currentTerm[m.to] = m.term /\ state[m.to] = Follower /\ Shows(m, H)

LEMMA HandledReaches ==
    ASSUME Types, NEW H, LogsInv(H), NEW m, HandledIn(m, H), prevMatches(log[m.to], m)
    PROVE  Reaches(m, log[m.to], H)
<1>1. m.to \in Node
  BY DEF HandledIn, Request
<1>2. /\ FollowsTerms(log[m.to], H) /\ History(H)
      /\ \A b \in 1..Len(log[m.to]) : log[m.to][b] <= m.term
  BY <1>1 DEF LogsInv, HandledIn
<1>3. QED
  BY <1>2 DEF HandledIn, Reaches

\* The log of the follower becomes one that keeps what it has of the leader's.
LEMMA KeptIsTakenOver ==
    ASSUME Types, Types', NEW H, LogsInv(H), NEW m, HandledIn(m, H), NEW k,
           KeepsLog(log[m.to], k, m.term, H), log' = [log EXCEPT ![m.to] = k],
           currentTerm' = currentTerm, state'[m.to] = Follower
    PROVE  \A j \in Node : log'[j] = log[j] \/ TakesOver(j, H)
<1>1. m.to \in Node /\ log'[m.to] = k /\ \A j \in Node : j # m.to => log'[j] = log[j]
  BY DEF HandledIn, Request, Types
<1>2. /\ state'[m.to] # Leader /\ currentTerm'[m.to] = currentTerm[m.to]
      /\ currentTerm[m.to] = m.term /\ H[m.term] # <<>>
  BY DEF HandledIn, Shows, Follower, Leader
<1>3. TakesOver(m.to, H)
  BY <1>1, <1>2 DEF TakesOver, KeepsLog
<1>4. QED
  BY <1>1, <1>3

LEMMA AnswerFacts ==
    ASSUME NEW r, replies' = Answer(r)
    PROVE  \A n \in replies' : n \in replies \/ n = r
BY DEF Answer

LEMMA AppendEntriesLogs ==
    ASSUME Basics, Types, Types', NEW H, LogsInv(H), NEW m, HandledIn(m, H),
           NEW open, appendEntries(m, open)
    PROVE  /\ \A j \in Node : log'[j] = log[j] \/ TakesOver(j, H)
           /\ \A n \in replies' : n \in replies \/ Answers(n, H)
<1>0. UNCHANGED <<currentTerm, votedFor, chosen>>
  BY DEF appendEntries
<1>1. PICK i \in Node : i = m.to
  BY DEF HandledIn, Request
<1>2. PICK l \in Seq(Nat) : l = log[i]
  BY DEF Types
<1> DEFINE r(success, conflict) ==
              [from |-> i, to |-> m.from, req |-> m.term, next |-> m.next,
               match |-> m.next - 1 + Len(m.entries),
               term |-> currentTerm[i], success |-> success, conflict |-> conflict]
<1>3. CASE /\ UNCHANGED log /\ replies' = Answer(r(FALSE, conflictIndex(log[i], m)))
  <2>1. PICK c : c = conflictIndex(log[i], m)
    OBVIOUS
  <2>2. \A n \in replies' : n \in replies \/ n = r(FALSE, c)
    BY <1>3, <2>1, AnswerFacts
  <2>3. r(FALSE, c).req = m.term /\ r(FALSE, c).success = FALSE
    OBVIOUS
  <2>4. H[m.term] # <<>>
    BY DEF HandledIn, Shows
  <2> HIDE DEF r
  <2>5. Answers(r(FALSE, c), H)
    BY <2>3, <2>4 DEF Answers
  <2>6. QED
    BY <1>3, <2>2, <2>5
<1>4. CASE /\ prevMatches(log[i], m) /\ log' = [log EXCEPT ![i] = merged(log[i], m)]
           /\ replies' = Answer(r(TRUE, 0)) /\ UNCHANGED state
  <2>1. Reaches(m, l, H)
    BY <1>1, <1>2, <1>4, HandledReaches
  <2>2. PICK k : k = merged(l, m)
    OBVIOUS
  <2>3. KeepsLog(l, k, m.term, H) /\ Agree(k, H[m.term], m.next - 1 + Len(m.entries))
    BY <2>1, <2>2, MergedKeeps
  <2>4. log' = [log EXCEPT ![i] = k] /\ log'[i] = k
    BY <1>2, <1>4, <2>2 DEF Types
  <2>5. state'[m.to] = Follower
    BY <1>4 DEF HandledIn
  <2>6. \A j \in Node : log'[j] = log[j] \/ TakesOver(j, H)
    BY <1>0, <1>1, <1>2, <2>3, <2>4, <2>5, KeptIsTakenOver
  <2>7. \A n \in replies' : n \in replies \/ n = r(TRUE, 0)
    BY <1>4, AnswerFacts
  <2>8. /\ r(TRUE, 0).req = m.term /\ r(TRUE, 0).from = i
        /\ r(TRUE, 0).match = m.next - 1 + Len(m.entries)
    OBVIOUS
  <2>9. /\ H[m.term] # <<>> /\ currentTerm[i] = m.term /\ currentTerm'[i] = m.term
        /\ Agree(log'[i], H[m.term], m.next - 1 + Len(m.entries))
    BY <1>0, <1>1, <2>3, <2>4 DEF HandledIn, Shows
  <2> HIDE DEF r
  <2>10. Answers(r(TRUE, 0), H)
    BY <2>8, <2>9 DEF Answers
  <2>11. QED
    BY <2>6, <2>7, <2>10
<1>5. CASE /\ prevMatches(log[i], m) /\ merged(log[i], m) # log[i] /\ UNCHANGED replies
           /\ state' = [state EXCEPT ![i] = Follower]
           /\ \/ UNCHANGED log
              \/ log' = [log EXCEPT ![i] = log[i]]
              \/ log' = [log EXCEPT ![i] = truncated(log[i], m)]
  <2>1. CASE UNCHANGED log \/ log' = [log EXCEPT ![i] = log[i]]
    BY <1>5, <2>1 DEF Types
  <2>2. CASE log' = [log EXCEPT ![i] = truncated(log[i], m)]
    <3>1. Reaches(m, l, H)
      BY <1>1, <1>2, <1>5, HandledReaches
    <3>2. missing(l, m) # {}
      BY <1>2, <1>5 DEF merged
    <3>3. PICK k : k = truncated(l, m)
      OBVIOUS
    <3>4. KeepsLog(l, k, m.term, H)
      BY <3>1, <3>2, <3>3, TruncatedKeeps
    <3>5. state'[m.to] = Follower
      BY <1>1, <1>5 DEF Types
    <3>6. log' = [log EXCEPT ![m.to] = k]
      BY <1>1, <1>2, <2>2, <3>3
    <3>7. \A j \in Node : log'[j] = log[j] \/ TakesOver(j, H)
      BY <1>0, <1>1, <1>2, <3>4, <3>5, <3>6, KeptIsTakenOver
    <3>8. QED
      BY <1>5, <3>7
  <2>3. QED
    BY <1>5, <2>1, <2>2
<1>6. QED
  BY <1>1, <1>3, <1>4, <1>5 DEF appendEntries

\* A request that is handled to its end.
LEMMA AppendEntriesQuiet ==
    ASSUME Basics, Types, Types', NEW H, LogsInv(H), TermsWait, NEW m, HandledIn(m, H),
           NEW open, appendEntries(m, open), open \subseteq handling,
           requests' \subseteq requests, matchIndex' = matchIndex
    PROVE  HistoryStep(H)
<1>1. /\ UNCHANGED <<currentTerm, votedFor, chosen>> /\ handling' = open
      /\ state' = state \/ state' = [state EXCEPT ![m.to] = Follower]
  BY DEF appendEntries
<1>2. TermsGrow /\ ElectedStay
  BY <1>1, VotesUnchanged, VotesGrow
<1>3. LeadersStay
  BY <1>1 DEF LeadersStay, Types, Follower, Leader
<1>4. /\ \A j \in Node : log'[j] = log[j] \/ TakesOver(j, H)
      /\ \A n \in replies' : n \in replies \/ Answers(n, H)
  BY AppendEntriesLogs
<1>5. \A n \in handling' : currentTerm'[n.to] = n.term
  BY <1>1, HandlersKeepTerm
<1>6. \A n \in requests' \cup handling' : n \in requests \cup handling
  BY <1>1
<1>7. \A i \in Node : Books(i)
  BY DEF Books
<1>8. Quiet(H)
  BY <1>2, <1>3, <1>4, <1>5, <1>6, <1>7 DEF Quiet
<1>9. CommitsAcked
  BY <1>1, CommitsNothing
<1>10. QED
  BY <1>8, <1>9 DEF HistoryStep

LEMMA ProcessAppendEntriesStep ==
    ASSUME Basics, Types, Types', RequestsStart, NEW H, LogsInv(H), TermsWait,
           NEW m \in requests, processAppendEntries(m)
    PROVE  HistoryStep(H)
<1>0. m \in Request /\ m.next > 0 /\ Shows(m, H) /\ H[m.term] # <<>>
  BY DEF Types, RequestsStart, LogsInv, Shows
<1>1. PICK i \in Node : i = m.to
  BY <1>0 DEF Request
<1>2. requests' = requests \ {m} /\ matchIndex' = matchIndex /\ m.term \in Nat /\ currentTerm[i] \in Nat
  BY <1>0 DEF processAppendEntries, leaderVars, Request, Types
<1>3. CASE UNCHANGED <<nodeVars, logVars, replies, handling>>
  <2>1. /\ UNCHANGED <<state, currentTerm, votedFor, log, chosen>>
        /\ UNCHANGED <<replies, handling>>
    BY <1>3 DEF nodeVars, logVars
  <2>2. Silent
    BY <1>2, <2>1 DEF Silent, LeadersStay
  <2>3. QED
    BY <2>1, <2>2, VotesUnchanged, SilentIsQuiet, CommitsNothing DEF HistoryStep
<1>4. CASE /\ UNCHANGED <<nodeVars, logVars, handling>>
           /\ replies' =
                 Answer([from |-> i, to |-> m.from, req |-> m.term, next |-> m.next,
                         match |-> 0, term |-> currentTerm[i], success |-> FALSE,
                         conflict |-> 0])
  <2>1. /\ UNCHANGED <<state, currentTerm, votedFor, log, chosen, handling>>
    BY <1>4 DEF nodeVars, logVars
  <2>2. PICK r : r = [from |-> i, to |-> m.from, req |-> m.term, next |-> m.next,
                      match |-> 0, term |-> currentTerm[i], success |-> FALSE, conflict |-> 0]
    OBVIOUS
  <2>3. r.req = m.term /\ r.success = FALSE
    BY <2>2
  <2>4. Answers(r, H)
    BY <1>0, <2>3 DEF Answers
  <2>5. \A n \in replies' : n \in replies \/ n = r
    BY <1>4, <2>2, AnswerFacts
  <2>6. \A n \in replies' : n \in replies \/ Answers(n, H)
    BY <2>4, <2>5
  <2>7. TermsGrow /\ ElectedStay
    BY <2>1, VotesUnchanged, VotesGrow
  <2>8. \A n \in handling' : currentTerm'[n.to] = n.term
    BY <2>1, HandlersKeepTerm
  <2>9. /\ LeadersStay /\ \A j \in Node : log'[j] = log[j]
        /\ \A n \in requests' \cup handling' : n \in requests \cup handling
        /\ \A j \in Node : Books(j)
    BY <1>2, <2>1 DEF LeadersStay, Books
  <2>10. Quiet(H)
    BY <2>6, <2>7, <2>8, <2>9 DEF Quiet
  <2>11. QED
    BY <2>1, <2>10, CommitsNothing DEF HistoryStep
<1>5. CASE /\ ~(m.term < currentTerm[i]) /\ stepDown(i, m.term)
           /\ handling' = handling \cup {m} /\ UNCHANGED <<logVars, replies>>
  <2>1. /\ VotesStay
        /\ \A j \in Node : state'[j] = Leader => state[j] = Leader /\ currentTerm'[j] = currentTerm[j]
    BY <1>2, <1>5, StepDownVotes
  <2>2. currentTerm'[i] = m.term
    BY <1>2, <1>5, SMTT(30) DEF stepDown, Types
  <2>3. UNCHANGED <<log, chosen, replies>>
    BY <1>5 DEF logVars
  <2>4. \A n \in handling' : currentTerm'[n.to] = n.term
    BY <1>1, <1>5, <2>2, HandlersKeepTerm
  <2>5. TermsGrow /\ ElectedStay
    BY <2>1, VotesGrow
  <2>6. /\ LeadersStay /\ \A j \in Node : log'[j] = log[j]
        /\ \A n \in requests' \cup handling' : n \in requests \cup handling
        /\ \A n \in replies' : n \in replies
        /\ \A j \in Node : Books(j)
    BY <1>2, <1>5, <2>1, <2>3 DEF LeadersStay, Books
  <2>7. Quiet(H)
    BY <2>4, <2>5, <2>6 DEF Quiet
  <2>8. QED
    BY <2>3, <2>7, CommitsNothing DEF HistoryStep
<1>6. CASE m.term = currentTerm[i] /\ state[i] = Follower /\ appendEntries(m, handling)
  <2>1. HandledIn(m, H)
    BY <1>0, <1>1, <1>6 DEF HandledIn
  <2>2. requests' \subseteq requests /\ handling \subseteq handling
    BY <1>2
  <2>3. QED
    BY <1>2, <1>6, <2>1, <2>2, AppendEntriesQuiet
<1>7. QED
  BY <1>1, <1>3, <1>4, <1>5, <1>6 DEF processAppendEntries

LEMMA ResumeAppendStep ==
    ASSUME Basics, Types, Types', RequestsStart, HandlersFollow, NEW H, LogsInv(H), TermsWait,
           NEW m \in handling, resumeAppend(m)
    PROVE  HistoryStep(H)
<1>1. /\ m \in Request /\ m.next > 0 /\ Shows(m, H)
      /\ currentTerm[m.to] = m.term /\ state[m.to] = Follower
  BY DEF Types, RequestsStart, LogsInv, HandlersFollow
<1>2. HandledIn(m, H)
  BY <1>1 DEF HandledIn
<1>3. /\ appendEntries(m, handling \ {m}) /\ requests' \subseteq requests /\ matchIndex' = matchIndex
      /\ handling \ {m} \subseteq handling
  BY DEF resumeAppend, leaderVars
<1>4. PICK open : open = handling \ {m}
  OBVIOUS
<1>5. QED
  BY <1>2, <1>3, <1>4, AppendEntriesQuiet

-----------------------------------------------------------------------------
(* Entries.                                                                *)

\* A leader's term is its own.
LEMMA LeaderFacts ==
    ASSUME Types, TermsAreElected, NEW i \in Node, state[i] = Leader
    PROVE  /\ currentTerm[i] > 0 /\ Elected(currentTerm[i])
           /\ \A j \in Node : j # i /\ state[j] = Leader => currentTerm[j] # currentTerm[i]
<1>1. \A j \in Node : state[j] = Leader => currentTerm[j] \in Claims(j)
  BY DEF Claims
<1>2. QED
  BY <1>1 DEF TermsAreElected

\* A flush that reaches the log of a leader of its term.
LEMMA FlushAppendEnters ==
    ASSUME Types, Types', TermsAreElected, FlushesAreTimely, NEW H, LogsInv(H), TermsWait,
           NEW i \in Node, flushAppend(i), log' # log
    PROVE  HistoryStep(H)
<1>1. /\ UNCHANGED <<state, currentTerm, votedFor, chosen, matchIndex>>
      /\ UNCHANGED <<requests, replies, handling>>
  BY DEF flushAppend, nodeVars, leaderVars, netVars
<1>2. /\ flushing[i].pc = "append" /\ log' = [log EXCEPT ![i] = Append(log[i], flushing[i].term)]
      /\ flushing' = [flushing EXCEPT ![i].pc = "end"]
  BY DEF flushAppend
<1>3. flushing'[i].pc = "end"
  BY <1>2, SMTT(30) DEF Types, Flush
<1>4. state[i] = Leader /\ currentTerm[i] = flushing[i].term
  BY <1>2, <1>3 DEF FlushesAreTimely
<1>5. PICK t \in Nat : t = currentTerm[i]
  BY DEF Types
<1>6. /\ t > 0 /\ Elected(t) /\ currentTerm'[i] = t
      /\ \A j \in Node : j # i /\ state[j] = Leader => currentTerm[j] # t
  BY <1>1, <1>4, <1>5, LeaderFacts
<1>7. TermsGrow /\ ElectedStay
  BY <1>1, VotesUnchanged, VotesGrow
<1>8. Elected(t)'
  BY <1>6, <1>7 DEF ElectedStay
<1>9. H[t] = log[i] /\ log[i] # <<>> /\ \A b \in 1..Len(log[i]) : log[i][b] <= t
  BY <1>4, <1>5 DEF LogsInv
<1>10. \A m \in handling' : currentTerm'[m.to] = m.term
  BY <1>1, HandlersKeepTerm
<1>11. /\ log' = [log EXCEPT ![i] = Append(log[i], t)]
       /\ \A j \in Node : j # i /\ state'[j] = Leader =>
             state[j] = Leader /\ currentTerm'[j] = currentTerm[j] /\ currentTerm[j] # t
       /\ requests' \cup handling' \subseteq requests \cup handling /\ replies' \subseteq replies
  BY <1>1, <1>2, <1>4, <1>5, <1>6
<1>12. MakesEntry(i, t, H)
  BY <1>6, <1>7, <1>8, <1>9, <1>10, <1>11 DEF MakesEntry
<1>13. AcksGrow(H)
  <2> SUFFICES ASSUME NEW k \in Node, state'[k] = Leader, NEW n \in Nat \ {0},
                      NEW j \in Ackers(k, n)'
               PROVE  j \in Ackers(k, n)
    BY <1>1 DEF AcksGrow
  <2>1. QED
    BY <1>1 DEF Ackers
<1>14. CommitsAcked
  BY <1>1, CommitsNothing
<1>15. Enters(i, t, H)
  BY <1>9, <1>12, <1>13, <1>14 DEF Enters
<1>16. QED
  BY <1>15 DEF HistoryStep

\* An election that is won: the no-op entry.
LEMMA WonElection ==
    ASSUME Basics, Types, Types', TermsAreElected, NEW H, LogsInv(H), TermsWait,
           NEW i \in Node, NEW Q \in SUBSET Node, NEW R \in SUBSET Node, startElection(i, Q, R),
           state'[i] = Leader
    PROVE  HistoryStep(H)
<1>1. /\ VotesStay
      /\ \A j \in Node : j # i /\ state'[j] = Leader =>
            state[j] = Leader /\ currentTerm'[j] = currentTerm[j]
  BY ElectionVotes
<1>2. PICK t \in Nat : t = currentTerm[i] + 1
  BY SMTT(30) DEF Types
<1>3. /\ UNCHANGED <<requests, replies, handling>> /\ i \in Q
      /\ currentTerm' = [j \in Node |-> IF j \in Q \cup R THEN t ELSE currentTerm[j]]
      /\ votedFor' = [j \in Node |-> IF j \in Q THEN i ELSE IF j \in R THEN Nil ELSE votedFor[j]]
      /\ \A j \in Q \ {i} : wouldVote(j, i, t)
  BY <1>2 DEF startElection
<1>4. IsQuorum(Q) /\ initLeaderState(i, t)
  <2>1. CASE state' = roles(i, Candidate, Q \cup R, t)
    BY <2>1 DEF roles, Candidate, Leader
  <2>2. CASE state' = roles(i, Follower, Q \cup R, t)
    BY <2>2 DEF roles, Follower, Leader
  <2>3. QED
    BY <1>2, <2>1, <2>2 DEF startElection
<1>5. /\ log' = [log EXCEPT ![i] = Append(log[i], t)]
      /\ matchIndex' = [matchIndex EXCEPT ![i] = [j \in Node |-> 0]]
      /\ advanceCommitIndex(i, t, Append(log[i], t), [j \in Node |-> 0])
  BY <1>4 DEF initLeaderState
<1>6. /\ log'[i] = Append(log[i], t) /\ matchIndex'[i] = [j \in Node |-> 0]
      /\ \A j \in Node : j # i => matchIndex'[j] = matchIndex[j]
  BY <1>5, SMTT(30) DEF Types
<1>7. \A j \in Q : currentTerm'[j] = t /\ (j = i \/ upToDate(i, j))
  BY <1>3 DEF wouldVote
<1>8. ~Elected(t)
  BY <1>2, <1>4, WonOnce
<1>9. H[t] = <<>>
  BY <1>8 DEF LogsInv
<1>10. TermsGrow /\ ElectedStay
  BY <1>1, VotesGrow
<1>11. currentTerm'[i] = t /\ t > 0 /\ currentTerm[i] \in Nat /\ currentTerm[i] < t
  <2>1. currentTerm[i] \in Nat
    BY DEF Types
  <2>2. QED
    BY <1>2, <1>3, <1>7, <2>1, SMTT(30)
<1>12. Elected(t)'
  <2>1. \A j \in Q : currentTerm'[j] = t /\ votedFor'[j] = i
    BY <1>3, <1>7
  <2>2. currentTerm'[i] >= t
    BY <1>11, SMTT(30)
  <2>3. QED
    BY <1>4, <2>1, <2>2 DEF Elected, IsQuorum, Majority
<1>13. \A b \in 1..Len(log[i]) : log[i][b] <= t
  <2>1. \A b \in 1..Len(log[i]) : log[i][b] <= currentTerm[i]
    BY DEF LogsInv
  <2>2. log[i] \in Seq(Nat)
    BY DEF Types
  <2>3. QED
    BY <1>11, <2>1, <2>2, SMTT(30)
<1>14. \A j \in Node : j # i /\ state'[j] = Leader =>
          state[j] = Leader /\ currentTerm'[j] = currentTerm[j] /\ currentTerm[j] # t
  <2> SUFFICES ASSUME NEW j \in Node, j # i, state'[j] = Leader
               PROVE  currentTerm[j] # t
    BY <1>1
  <2>1. state[j] = Leader
    BY <1>1
  <2>2. Elected(currentTerm[j])
    BY <2>1, LeaderFacts
  <2>3. QED
    BY <1>8, <2>2
<1>15. \A m \in handling' : currentTerm'[m.to] = m.term
  BY <1>3, HandlersKeepTerm
<1>16. requests' \cup handling' \subseteq requests \cup handling /\ replies' \subseteq replies
  BY <1>3
<1>17. MakesEntry(i, t, H)
  BY <1>5, <1>9, <1>10, <1>11, <1>12, <1>13, <1>14, <1>15, <1>16 DEF MakesEntry
<1>18. ASSUME NEW n \in Nat \ {0} PROVE Ackers(i, n)' = {}
  <2>1. ASSUME NEW j \in Node, matchIndex'[i][j] >= n PROVE FALSE
    BY <1>6, <2>1, SMTT(30)
  <2>2. ASSUME NEW m \in replies', m.req = currentTerm'[i] PROVE FALSE
    <3>1. H[m.req] # <<>>
      BY <1>16 DEF LogsInv
    <3>2. QED
      BY <1>9, <1>11, <2>2, <3>1
  <2>3. QED
    BY <2>1, <2>2 DEF Ackers
<1>19. AcksGrow(H)
  <2> SUFFICES ASSUME NEW k \in Node, state'[k] = Leader, k # i, NEW n \in Nat \ {0},
                      NEW j \in Ackers(k, n)'
               PROVE  j \in Ackers(k, n)
    BY <1>1, <1>9, <1>11, <1>18 DEF AcksGrow
  <2>1. matchIndex'[k] = matchIndex[k] /\ replies' = replies /\ currentTerm'[k] = currentTerm[k]
    BY <1>1, <1>3, <1>6
  <2>2. QED
    BY <2>1 DEF Ackers
<1>20. CommitsAcked
  <2>1. advanceCommitIndex(i, currentTerm'[i], log'[i], matchIndex'[i])
    BY <1>5, <1>6, <1>11
  <2>2. QED
    BY <2>1, AdvanceCommits
<1>21. Enters(i, t, H)
  BY <1>4, <1>7, <1>17, <1>19, <1>20 DEF Enters
<1>22. QED
  BY <1>21 DEF HistoryStep

\* Every step.
LEMMA EveryHistoryStep ==
    ASSUME Basics, Types, Types', MatchingInv, NEW H, LogsInv(H),
           [Next /\ SavesAreAtomic /\ FlushesAreTimely]_vars
    PROVE  HistoryStep(H)
<1>1. RequestsStart /\ HandlersFollow /\ TermsAreElected
  BY DEF MatchingInv
<1>2. CASE UNCHANGED vars
  BY <1>2, StutterStep
<1>3. CASE Next /\ SavesAreAtomic /\ FlushesAreTimely
  <2>1. TermsWait
    <3> SUFFICES ASSUME NEW m \in handling \cap handling'
                 PROVE  currentTerm'[m.to] = currentTerm[m.to]
      BY DEF TermsWait
    <3>1. UNCHANGED <<state[m.to], currentTerm[m.to], votedFor[m.to], log[m.to]>>
      BY <1>3 DEF SavesAreAtomic
    <3>2. QED
      BY <3>1
  <2>2. ASSUME NEW i \in Node, NEW Q \in SUBSET Node, NEW R \in SUBSET Node, startElection(i, Q, R)
        PROVE  HistoryStep(H)
    BY <1>1, <2>1, <2>2, LostElection, WonElection
  <2>3. ASSUME NEW i \in Node, flushBegin(i) PROVE HistoryStep(H)
    BY <2>1, <2>3, FlushBeginStep
  <2>4. ASSUME NEW i \in Node, flushAppend(i) PROVE HistoryStep(H)
    BY <1>1, <1>3, <2>1, <2>4, FlushAppendQuiet, FlushAppendEnters
  <2>5. ASSUME NEW i \in Node, flushEnd(i) PROVE HistoryStep(H)
    BY <2>1, <2>5, FlushEndStep
  <2>6. ASSUME NEW s \in sends, replicateTo(s) PROVE HistoryStep(H)
    BY <2>1, <2>6, ReplicateToStep
  <2>7. ASSUME NEW m \in requests, processAppendEntries(m) PROVE HistoryStep(H)
    BY <1>1, <2>1, <2>7, ProcessAppendEntriesStep
  <2>8. ASSUME NEW m \in handling, resumeAppend(m) PROVE HistoryStep(H)
    BY <1>1, <2>1, <2>8, ResumeAppendStep
  <2>9. ASSUME NEW m \in replies, handleReply(m) PROVE HistoryStep(H)
    BY <2>1, <2>9, HandleReplyStep
  <2>10. ASSUME NEW m \in requests \cup replies, rpcFails(m) PROVE HistoryStep(H)
    BY <2>1, <2>10, RpcFailsStep
  <2>11. ASSUME NEW i \in Node, restart(i) PROVE HistoryStep(H)
    BY <2>1, <2>11, RestartStep
  <2>12. QED
    BY <1>3, <2>2, <2>3, <2>4, <2>5, <2>6, <2>7, <2>8, <2>9, <2>10, <2>11 DEF Next
<1>4. QED
  BY <1>2, <1>3

-----------------------------------------------------------------------------
(* Commit indexes.                                                         *)

\* A step that commits nothing and sends nothing.
LEMMA NothingCommitted ==
    ASSUME Types, chosen' = chosen, commitIndex' = commitIndex,
           requests' \cup handling' \subseteq requests \cup handling
    PROVE  CommitStep
<1>1. \A i \in Node : commitIndex'[i] \in Nat /\ commitIndex'[i] = commitIndex[i]
  BY DEF Types
<1>2. \A i \in Node : /\ commitIndex'[i] >= commitIndex[i]
                      /\ \A k \in 1..commitIndex'[i] : k <= commitIndex[i]
  BY <1>1, SMTT(30)
<1>3. QED
  BY <1>2 DEF CommitStep

\* advanceCommitIndex: the leader commits the entries that its commit index passes.
LEMMA LeaderCommits ==
    ASSUME Basics, Types, Types', NEW i \in Node, NEW match,
           advanceCommitIndex(i, currentTerm'[i], log'[i], match),
           requests' \cup handling' \subseteq requests \cup handling
    PROVE  CommitStep
<1>1. PICK l \in Seq(Nat), term \in Nat, a \in Nat :
         /\ l = log'[i] /\ term = currentTerm'[i] /\ a = commitIndex[i]
  BY DEF Types
<1> DEFINE ok == committable(i, term, l, match)
<1>2. PICK n : n = IF ok = {} THEN a ELSE Max(ok)
  OBVIOUS
<1>3. /\ chosen' = chosen \cup {[index |-> k, term |-> l[k], by |-> term] : k \in (a + 1)..n}
      /\ commitIndex' = [commitIndex EXCEPT ![i] = n]
  BY <1>1, <1>2 DEF advanceCommitIndex
<1>4. n \in Nat /\ n >= a /\ (n > a => n <= Len(l))
  <2>1. CASE ok = {}
    BY <1>2, <2>1, SMTT(30)
  <2>2. CASE ok # {}
    <3>1. Len(l) \in Nat
      BY SMTT(30)
    <3>2. ok \subseteq (a + 1)..Len(l)
      BY <1>1 DEF committable
    <3>3. ok \in SUBSET Nat /\ \A x \in ok : x <= Len(l)
      BY <3>1, <3>2, SMTT(30)
    <3>4. Max(ok) \in ok
      BY <2>2, <3>1, <3>3, MaxOfSet
    <3>5. n \in (a + 1)..Len(l)
      BY <1>2, <2>2, <3>2, <3>4
    <3>6. QED
      BY <3>1, <3>5, SMTT(30)
  <2>3. QED
    BY <2>1, <2>2
<1>5. commitIndex'[i] = n /\ \A j \in Node : j # i => commitIndex'[j] = commitIndex[j]
  BY <1>3 DEF Types
<1>6. \A j \in Node : commitIndex[j] \in Nat /\ commitIndex'[j] \in Nat
  BY DEF Types
<1>7. \A j \in Node : commitIndex'[j] >= commitIndex[j]
  BY <1>1, <1>4, <1>5, <1>6, SMTT(30)
<1>8. chosen \subseteq chosen'
  BY <1>3
<1>9. ASSUME NEW j \in Node, NEW k \in 1..commitIndex'[j], ~(k <= commitIndex[j])
      PROVE  k <= Len(log'[j]) /\ Certified(k, log[j][k], currentTerm[j])'
  <2>1. j = i
    <3>1. CASE j # i
      <4>1. commitIndex'[j] = commitIndex[j]
        BY <1>5, <3>1
      <4>2. QED
        BY <1>6, <1>9, <4>1, SMTT(30)
    <3>2. QED
      BY <3>1
  <2>2. k \in 1..n /\ ~(k <= a)
    BY <1>1, <1>5, <1>9, <2>1
  <2>3. k \in (a + 1)..n /\ k <= Len(l)
    BY <1>4, <2>2, SMTT(30)
  <2>4. PICK c : c = [index |-> k, term |-> l[k], by |-> term]
    OBVIOUS
  <2>5. c \in chosen'
    BY <1>3, <2>3, <2>4
  <2>6. c.index = k /\ c.term = l[k] /\ c.by <= term
    BY <2>4, SMTT(30)
  <2>7. QED
    BY <1>1, <2>1, <2>3, <2>5, <2>6 DEF Certified
<1>10. QED
  BY <1>7, <1>8, <1>9 DEF CommitStep

\* processAppendEntries: the follower's commit index after request m has made its log l.
LEMMA FollowerCommits ==
    ASSUME Basics, Types, Types', NEW H, CommitInv(H), CommittedKept, NEW m, HandledIn(m, H),
           Agree(log'[m.to], H[m.term], m.next - 1 + Len(m.entries)),
           commitIndex' = [commitIndex EXCEPT ![m.to] = followerCommit(@, log'[m.to], m)],
           currentTerm' = currentTerm, chosen' = chosen,
           requests' \cup handling' \subseteq requests \cup handling
    PROVE  CommitStep
<1>1. /\ m \in requests \cup handling /\ m.commit \in Nat /\ m.to \in Node /\ m.term \in Nat
      /\ m.next \in Nat /\ Len(m.entries) \in Nat
  BY SMTT(30) DEF HandledIn, Request
<1>2. PICK i \in Node : i = m.to
  BY <1>1
<1>3. PICK l \in Seq(Nat), a \in Nat, e \in Int :
         l = log'[i] /\ a = commitIndex[i] /\ e = m.next - 1 + Len(m.entries)
  <2>1. log'[i] \in Seq(Nat) /\ commitIndex[i] \in Nat
    BY DEF Types
  <2>2. m.next - 1 + Len(m.entries) \in Int
    BY <1>1, SMTT(30)
  <2>3. QED
    BY <2>1, <2>2
<1>4. /\ commitIndex'[i] = followerCommit(a, l, m)
      /\ \A j \in Node : j # i => commitIndex'[j] = commitIndex[j]
  BY <1>2, <1>3 DEF Types
<1>5. a <= Len(l)
  <2>1. CASE a = 0
    BY <2>1, SMTT(30)
  <2>2. CASE a # 0
    <3>1. a \in 1..commitIndex[i]
      BY <1>3, <2>2, SMTT(30)
    <3>2. QED
      BY <1>3, <3>1 DEF CommittedKept
  <2>3. QED
    BY <2>1, <2>2
<1>6. PICK n \in Nat : n = followerCommit(a, l, m) /\ n >= a /\ (n > a => n <= m.commit)
  <2>1. CASE m.commit > a
    <3>1. PICK c \in Nat, p \in Nat : c = m.commit /\ p = Len(l)
      BY <1>1, SMTT(30)
    <3>2. followerCommit(a, l, m) = Min({c, p})
      BY <2>1, <3>1 DEF followerCommit
    <3>3. Min({c, p}) = IF c <= p THEN c ELSE p
      BY MinOfTwo, SMTT(30)
    <3>4. PICK n \in Nat : n = IF c <= p THEN c ELSE p
      OBVIOUS
    <3>5. n >= a /\ n <= c
      BY <1>5, <2>1, <3>1, <3>4, SMTT(30)
    <3>6. QED
      BY <3>1, <3>2, <3>3, <3>4, <3>5
  <2>2. CASE ~(m.commit > a)
    BY <2>2, SMTT(30) DEF followerCommit
  <2>3. QED
    BY <2>1, <2>2
<1>7. \A j \in Node : commitIndex[j] \in Nat /\ commitIndex'[j] \in Nat
  BY DEF Types
<1>8. \A j \in Node : commitIndex'[j] >= commitIndex[j]
  BY <1>3, <1>4, <1>6, <1>7, SMTT(30)
<1>9. ASSUME NEW j \in Node, NEW k \in 1..commitIndex'[j], ~(k <= commitIndex[j])
      PROVE  k <= Len(log'[j]) /\ Certified(k, log[j][k], currentTerm[j])'
  <2>1. j = i
    <3>1. CASE j # i
      <4>1. commitIndex'[j] = commitIndex[j]
        BY <1>4, <3>1
      <4>2. QED
        BY <1>7, <1>9, <4>1, SMTT(30)
    <3>2. QED
      BY <3>1
  <2>2. k \in 1..n /\ ~(k <= a)
    BY <1>3, <1>4, <1>6, <1>9, <2>1
  <2>3. k \in 1..m.commit
    BY <1>1, <1>6, <2>2, SMTT(30)
  <2>4. m.commit <= m.next - 1 + Len(m.entries) /\ Certified(k, H[m.term][k], m.term)
    BY <1>1, <2>3 DEF CommitInv
  <2>5. k \in 1..e
    BY <1>1, <1>3, <2>3, <2>4, SMTT(30)
  <2>6. e <= Len(l) /\ l[k] = H[m.term][k]
    BY <1>2, <1>3, <2>5 DEF Agree
  <2>7. k <= Len(l)
    BY <2>5, <2>6, SMTT(30)
  <2>8. currentTerm'[i] = m.term
    BY <1>2 DEF HandledIn
  <2>9. QED
    BY <1>3, <2>1, <2>4, <2>6, <2>7, <2>8 DEF Certified
<1>10. QED
  BY <1>8, <1>9 DEF CommitStep

\* The actions.
LEMMA ElectionCommits ==
    ASSUME Basics, Types, Types', NEW i \in Node, NEW Q \in SUBSET Node, NEW R \in SUBSET Node,
           startElection(i, Q, R)
    PROVE  CommitStep
<1>1. requests' \cup handling' \subseteq requests \cup handling
  BY DEF startElection
<1>2. CASE UNCHANGED <<log, commitIndex, chosen>>
  BY <1>1, <1>2, NothingCommitted
<1>3. CASE initLeaderState(i, currentTerm[i] + 1)
  <2>1. PICK t \in Nat : t = currentTerm[i] + 1
    BY SMTT(30) DEF Types
  <2>2. /\ log' = [log EXCEPT ![i] = Append(log[i], t)]
        /\ advanceCommitIndex(i, t, Append(log[i], t), [j \in Node |-> 0])
    BY <1>3, <2>1 DEF initLeaderState
  <2>3. log'[i] = Append(log[i], t)
    BY <2>2 DEF Types
  <2>4. currentTerm'[i] = t
    BY <2>1 DEF startElection
  <2>5. PICK match : match = [j \in Node |-> 0]
    OBVIOUS
  <2>6. advanceCommitIndex(i, currentTerm'[i], log'[i], match)
    BY <2>2, <2>3, <2>4, <2>5
  <2>7. QED
    BY <1>1, <2>6, LeaderCommits
<1>4. QED
  BY <1>2, <1>3 DEF startElection, logVars

LEMMA FlushEndCommits ==
    ASSUME Basics, Types, Types', NEW i \in Node, flushEnd(i)
    PROVE  CommitStep
<1>1. UNCHANGED <<currentTerm, log>> /\ requests' \cup handling' \subseteq requests \cup handling
  BY DEF flushEnd, nodeVars, logVars
<1>2. CASE UNCHANGED logVars
  <2>1. chosen' = chosen /\ commitIndex' = commitIndex
    BY <1>2 DEF logVars
  <2>2. QED
    BY <1>1, <2>1, NothingCommitted
<1>3. CASE advanceCommitIndex(i, currentTerm[i], log[i], matchIndex[i])
  <2>1. advanceCommitIndex(i, currentTerm'[i], log'[i], matchIndex[i])
    BY <1>1, <1>3
  <2>2. PICK match : match = matchIndex[i]
    OBVIOUS
  <2>3. QED
    BY <1>1, <2>1, <2>2, LeaderCommits
<1>4. QED
  BY <1>2, <1>3 DEF flushEnd

LEMMA HandleReplyCommits ==
    ASSUME Basics, Types, Types', NEW m \in replies, handleReply(m)
    PROVE  CommitStep
<1>1. requests' \cup handling' \subseteq requests \cup handling /\ m.to \in Node
  BY DEF handleReply, Types, Reply
<1>2. CASE UNCHANGED logVars
  <2>1. chosen' = chosen /\ commitIndex' = commitIndex
    BY <1>2 DEF logVars
  <2>2. QED
    BY <1>1, <2>1, NothingCommitted
<1>3. CASE /\ UNCHANGED <<nodeVars, log>>
           /\ \E match : advanceCommitIndex(m.to, currentTerm[m.to], log[m.to], match)
  <2>1. UNCHANGED <<currentTerm, log>>
    BY <1>3 DEF nodeVars
  <2>2. PICK match : advanceCommitIndex(m.to, currentTerm[m.to], log[m.to], match)
    BY <1>3
  <2>3. advanceCommitIndex(m.to, currentTerm'[m.to], log'[m.to], match)
    BY <2>1, <2>2
  <2>4. QED
    BY <1>1, <2>3, LeaderCommits
<1>4. QED
  <2>1. CASE /\ UNCHANGED <<nodeVars, log>>
             /\ advanceCommitIndex(m.to, currentTerm[m.to], log[m.to],
                                   [matchIndex[m.to] EXCEPT ![m.from] = Max({@, m.match})])
    BY <1>3, <2>1
  <2>2. QED
    BY <1>2, <2>1 DEF handleReply, logVars

\* A request that is sent tells the leader's commit index.
LEMMA ReplicateToCommits ==
    ASSUME Types, RequestsCoverCommits, NEW s \in sends, replicateTo(s)
    PROVE  CommitStep
<1>1. UNCHANGED <<chosen, commitIndex, handling>> /\ s.from \in Node
  BY DEF replicateTo, logVars, Types, Send
<1>2. CASE requests' = requests
  BY <1>1, <1>2, NothingCommitted
<1>3. CASE state[s.from] = Leader /\ ~fatal[s.from]
  <2>1. PICK m \in Request :
           /\ requests' = requests \cup {m} /\ m.term = currentTerm[s.from]
           /\ m.commit = commitIndex[s.from] /\ m.from = s.from
    BY <1>3, SentRequest
  <2>2. m \in requests \/ Tells(m)
    BY <1>1, <1>3, <2>1 DEF Tells, RequestsCoverCommits
  <2>3. \A n \in requests' \cup handling' : n \in requests \cup handling \/ Tells(n)
    BY <1>1, <2>1, <2>2
  <2>4. \A i \in Node : commitIndex'[i] \in Nat /\ commitIndex'[i] = commitIndex[i]
    BY <1>1 DEF Types
  <2>5. \A i \in Node : /\ commitIndex'[i] >= commitIndex[i]
                        /\ \A k \in 1..commitIndex'[i] : k <= commitIndex[i]
    BY <2>4, SMTT(30)
  <2>6. QED
    BY <1>1, <2>3, <2>5 DEF CommitStep
<1>4. QED
  BY <1>2, <1>3 DEF replicateTo

\* A follower that handles a request to its end.
LEMMA AppendEntriesCommits ==
    ASSUME Basics, Types, Types', NEW H, LogsInv(H), CommitInv(H), CommittedKept,
           NEW m, HandledIn(m, H), NEW open, appendEntries(m, open), open \subseteq handling,
           requests' \subseteq requests
    PROVE  CommitStep
<1>1. /\ currentTerm' = currentTerm /\ chosen' = chosen
      /\ requests' \cup handling' \subseteq requests \cup handling
  BY DEF appendEntries
<1>2. CASE commitIndex' = commitIndex
  BY <1>1, <1>2, NothingCommitted
<1>3. CASE /\ prevMatches(log[m.to], m) /\ log' = [log EXCEPT ![m.to] = merged(log[m.to], m)]
           /\ commitIndex' =
                 [commitIndex EXCEPT ![m.to] = followerCommit(@, merged(log[m.to], m), m)]
  <2>1. Reaches(m, log[m.to], H)
    BY <1>3, HandledReaches
  <2>2. m.to \in Node /\ log[m.to] \in Seq(Nat)
    BY DEF HandledIn, Request, Types
  <2>3. Agree(merged(log[m.to], m), H[m.term], m.next - 1 + Len(m.entries))
    BY <2>1, <2>2, MergedKeeps
  <2>4. log'[m.to] = merged(log[m.to], m)
    BY <1>3, <2>2 DEF Types
  <2>5. /\ commitIndex' = [commitIndex EXCEPT ![m.to] = followerCommit(@, log'[m.to], m)]
        /\ Agree(log'[m.to], H[m.term], m.next - 1 + Len(m.entries))
    BY <1>3, <2>3, <2>4
  <2>6. QED
    BY <1>1, <2>5, FollowerCommits
<1>4. QED
  BY <1>2, <1>3 DEF appendEntries

LEMMA ProcessAppendEntriesCommits ==
    ASSUME Basics, Types, Types', RequestsStart, NEW H, LogsInv(H), CommitInv(H), CommittedKept,
           NEW m \in requests, processAppendEntries(m)
    PROVE  CommitStep
<1>1. m \in Request /\ m.next > 0 /\ Shows(m, H)
  BY DEF Types, RequestsStart, LogsInv
<1>2. requests' = requests \ {m}
  BY DEF processAppendEntries
<1>3. CASE UNCHANGED logVars /\ (handling' = handling \/ handling' = handling \cup {m})
  <2>1. chosen' = chosen /\ commitIndex' = commitIndex
    BY <1>3 DEF logVars
  <2>2. requests' \cup handling' \subseteq requests \cup handling
    BY <1>2, <1>3
  <2>3. QED
    BY <2>1, <2>2, NothingCommitted
<1>4. CASE m.term = currentTerm[m.to] /\ state[m.to] = Follower /\ appendEntries(m, handling)
  <2>1. HandledIn(m, H)
    BY <1>1, <1>4 DEF HandledIn
  <2>2. requests' \subseteq requests /\ handling \subseteq handling
    BY <1>2
  <2>3. QED
    BY <1>4, <2>1, <2>2, AppendEntriesCommits
<1>5. QED
  BY <1>3, <1>4 DEF processAppendEntries

LEMMA ResumeAppendCommits ==
    ASSUME Basics, Types, Types', RequestsStart, HandlersFollow, NEW H, LogsInv(H), CommitInv(H),
           CommittedKept, NEW m \in handling, resumeAppend(m)
    PROVE  CommitStep
<1>1. /\ m \in Request /\ m.next > 0 /\ Shows(m, H)
      /\ currentTerm[m.to] = m.term /\ state[m.to] = Follower
  BY DEF Types, RequestsStart, LogsInv, HandlersFollow
<1>2. HandledIn(m, H)
  BY <1>1 DEF HandledIn
<1>3. /\ appendEntries(m, handling \ {m}) /\ requests' \subseteq requests
      /\ handling \ {m} \subseteq handling
  BY DEF resumeAppend
<1>4. PICK open : open = handling \ {m}
  OBVIOUS
<1>5. QED
  BY <1>2, <1>3, <1>4, AppendEntriesCommits

LEMMA RestartCommits ==
    ASSUME Types, Types', NEW i \in Node, restart(i)
    PROVE  CommitStep
<1>1. /\ chosen' = chosen /\ requests' \cup handling' \subseteq requests \cup handling
      /\ restarts' = restarts + 1 /\ commitIndex' = [commitIndex EXCEPT ![i] = 0]
  BY DEF restart
<1>2. restarts' > restarts
  <2>1. restarts \in Nat
    BY BoundAssumption, SMTT(30) DEF Types
  <2>2. QED
    BY <1>1, <2>1, SMTT(30)
<1>3. commitIndex'[i] = 0 /\ \A j \in Node : j # i => commitIndex'[j] = commitIndex[j]
  BY <1>1 DEF Types
<1>4. \A j \in Node : \A k \in 1..commitIndex'[j] : k <= commitIndex[j]
  <2>1. \A j \in Node : commitIndex[j] \in Nat
    BY DEF Types
  <2>2. QED
    BY <1>3, <2>1, SMTT(30)
<1>5. QED
  BY <1>1, <1>2, <1>4 DEF CommitStep

\* Every step.
LEMMA EveryCommitStep ==
    ASSUME Basics, Types, Types', MatchingInv, NEW H, LogsInv(H), CommitInv(H), CommittedKept,
           [Next /\ SavesAreAtomic /\ FlushesAreTimely /\ RequestsCoverCommits]_vars
    PROVE  CommitStep
<1>1. RequestsStart /\ HandlersFollow
  BY DEF MatchingInv
<1>2. CASE UNCHANGED vars
  <2>1. UNCHANGED <<chosen, commitIndex, requests, handling>>
    BY <1>2 DEF vars, logVars, netVars
  <2>2. QED
    BY <2>1, NothingCommitted
<1>3. CASE Next /\ RequestsCoverCommits
  <2>1. ASSUME \/ \E i \in Node : flushBegin(i) \/ flushAppend(i)
               \/ \E m \in requests \cup replies : rpcFails(m)
        PROVE  CommitStep
    <3>1. /\ UNCHANGED <<chosen, commitIndex>>
          /\ requests' \cup handling' \subseteq requests \cup handling
      BY <2>1 DEF flushBegin, flushAppend, rpcFails, logVars, netVars
    <3>2. QED
      BY <3>1, NothingCommitted
  <2>2. ASSUME NEW i \in Node, NEW Q \in SUBSET Node, NEW R \in SUBSET Node, startElection(i, Q, R)
        PROVE  CommitStep
    BY <2>2, ElectionCommits
  <2>3. ASSUME NEW i \in Node, flushEnd(i) \/ restart(i) PROVE CommitStep
    BY <2>3, FlushEndCommits, RestartCommits
  <2>4. ASSUME NEW s \in sends, replicateTo(s) PROVE CommitStep
    BY <1>3, <2>4, ReplicateToCommits
  <2>5. ASSUME NEW m \in requests, processAppendEntries(m) PROVE CommitStep
    BY <1>1, <2>5, ProcessAppendEntriesCommits
  <2>6. ASSUME NEW m \in handling, resumeAppend(m) PROVE CommitStep
    BY <1>1, <2>6, ResumeAppendCommits
  <2>7. ASSUME NEW m \in replies, handleReply(m) PROVE CommitStep
    BY <2>7, HandleReplyCommits
  <2>8. QED
    BY <1>3, <2>1, <2>2, <2>3, <2>4, <2>5, <2>6, <2>7 DEF Next
<1>4. QED
  BY <1>2, <1>3
=============================================================================
