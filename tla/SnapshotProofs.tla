--------------------------- MODULE SnapshotProofs ---------------------------
(***************************************************************************)
(* Proofs about module Snapshot, for every history, every earlier log and  *)
(* every bound, with failing writes and any number of restarts, in the     *)
(* behaviours of AloneSpec: what is marked as committed is, Restore finds  *)
(* data that it can read, and the apply loop and the end of an             *)
(* installation do not meet.  First what the operations on the log return, *)
(* then the steps of each action, then the theorems.                       *)
(***************************************************************************)
EXTENDS Snapshot, TLAPS

\* Most leaves are for Zenon; those that calculate say SMTT.
USE ZenonT(30)

\* The larger and the smaller of two numbers, as Max and Min compute them.
LEMMA MaxOfTwo ==
    ASSUME NEW a \in Int, NEW b \in Int
    PROVE  Max({a, b}) = IF a >= b THEN a ELSE b
<1>1. \E x \in {a, b} : \A y \in {a, b} : x >= y
  BY SMTT(30)
<1>2. Max({a, b}) \in {a, b} /\ \A y \in {a, b} : Max({a, b}) >= y
  BY <1>1 DEF Max
<1>3. QED
  BY <1>2, SMTT(30)

LEMMA MinOfTwo ==
    ASSUME NEW a \in Int, NEW b \in Int
    PROVE  Min({a, b}) = IF a <= b THEN a ELSE b
<1>1. \E x \in {a, b} : \A y \in {a, b} : x <= y
  BY SMTT(30)
<1>2. Min({a, b}) \in {a, b} /\ \A y \in {a, b} : Min({a, b}) <= y
  BY <1>1 DEF Min
<1>3. QED
  BY <1>2, SMTT(30)

LEMMA MinMaxNat ==
    ASSUME NEW a \in Nat, NEW b \in Nat
    PROVE  Max({a, b}) \in Nat /\ Min({a, b}) \in Nat
<1>1. a \in Int /\ b \in Int
  BY SMTT(30)
<1>2. Max({a, b}) = (IF a >= b THEN a ELSE b) /\ Min({a, b}) = (IF a <= b THEN a ELSE b)
  BY <1>1, MaxOfTwo, MinOfTwo
<1>3. QED
  BY <1>2

-----------------------------------------------------------------------------
\* Concatenation, slices and equality of sequences, element by element.
LEMMA ConcatFacts ==
    ASSUME NEW S, NEW s \in Seq(S), NEW t \in Seq(S)
    PROVE  /\ s \o t \in Seq(S) /\ Len(s \o t) = Len(s) + Len(t)
           /\ \A n \in 1..(Len(s) + Len(t)) :
                 (s \o t)[n] = IF n <= Len(s) THEN s[n] ELSE t[n - Len(s)]
BY SMTT(30)

LEMMA SubSeqFacts ==
    ASSUME NEW S, NEW s, NEW a \in Int, NEW b \in Int, \A n \in a..b : s[n] \in S
    PROVE  /\ SubSeq(s, a, b) \in Seq(S)
           /\ Len(SubSeq(s, a, b)) = IF a <= b THEN b - a + 1 ELSE 0
           /\ \A n \in 1..(b - a + 1) : SubSeq(s, a, b)[n] = s[a + n - 1]
BY SMTT(30)

LEMMA SameSequence ==
    ASSUME NEW S, NEW s \in Seq(S), NEW t \in Seq(S), Len(s) = Len(t),
           \A n \in 1..Len(s) : s[n] = t[n]
    PROVE  s = t
<1>1. s = [n \in 1..Len(s) |-> s[n]] /\ t = [n \in 1..Len(t) |-> t[n]]
  BY SMTT(30)
<1>2. QED
  BY <1>1

-----------------------------------------------------------------------------
\* What the cluster committed at n, as a term and as a snapshot.
LEMMA HistoryFacts ==
    /\ Len(History) \in Nat
    /\ \A n \in Indexes : n \in Nat /\ HistoryTerm(n) \in Nat
    /\ \A n \in Indexes : n # 0 => History[n] \in Nat /\ HistoryTerm(n) = History[n]
BY SnapshotAssumption, SMTT(30) DEF Indexes, HistoryTerm

LEMMA UptoFacts ==
    ASSUME NEW n \in Indexes
    PROVE  Upto(n) \in Seq(Indexes \X Nat) /\ Len(Upto(n)) = n
<1>1. \A k \in 1..n : <<k, History[k]>> \in Indexes \X Nat
  BY HistoryFacts, SMTT(30) DEF Indexes
<1>2. n \in Nat /\ Upto(n) \in [1..n -> Indexes \X Nat]
  BY <1>1, HistoryFacts DEF Upto
<1>3. QED
  BY <1>2, SMTT(30)

LEMMA SnapshotAtType ==
    ASSUME NEW n \in Indexes
    PROVE  SnapshotAt(n) \in Artifact
BY HistoryFacts, UptoFacts DEF SnapshotAt, Artifact

\* Applying the next committed entry.
LEMMA UptoNext ==
    ASSUME NEW n \in Indexes, n + 1 \in Indexes
    PROVE  Append(Upto(n), <<n + 1, History[n + 1]>>) = Upto(n + 1)
<1> DEFINE s == Append(Upto(n), <<n + 1, History[n + 1]>>)
<1>1. n \in Nat /\ <<n + 1, History[n + 1]>> \in Indexes \X Nat
  BY HistoryFacts, SMTT(30)
<1>2. /\ s \in Seq(Indexes \X Nat) /\ Len(s) = n + 1
      /\ \A k \in 1..(n + 1) : s[k] = IF k = n + 1 THEN <<n + 1, History[n + 1]>> ELSE Upto(n)[k]
  BY <1>1, UptoFacts, SMTT(30)
<1>3. /\ Upto(n + 1) \in Seq(Indexes \X Nat) /\ Len(Upto(n + 1)) = n + 1
      /\ \A k \in 1..(n + 1) : Upto(n + 1)[k] = <<k, History[k]>>
  BY UptoFacts DEF Upto
<1>4. \A k \in 1..n : Upto(n)[k] = <<k, History[k]>>
  BY DEF Upto
<1> HIDE DEF s
<1>5. \A k \in 1..Len(s) : s[k] = Upto(n + 1)[k]
  <2> TAKE k \in 1..Len(s)
  <2>1. k \in 1..(n + 1)
    BY <1>2
  <2>2. CASE k = n + 1
    BY <1>2, <1>3, <2>1, <2>2
  <2>3. CASE k # n + 1
    <3>1. k \in 1..n
      BY <1>1, <2>1, <2>3, SMTT(30)
    <3>2. s[k] = Upto(n)[k]
      BY <1>2, <2>1, <2>3
    <3>3. QED
      BY <1>3, <1>4, <2>1, <3>1, <3>2
  <2>4. QED
    BY <2>2, <2>3
<1>6. s = Upto(n + 1)
  BY <1>2, <1>3, <1>5, SameSequence
<1>7. QED
  BY <1>6 DEF s

\* A shorter history is the beginning of a longer one.
LEMMA UptoPrefix ==
    ASSUME NEW m \in Indexes, NEW n \in Indexes, m <= n
    PROVE  SubSeq(Upto(n), 1, Len(Upto(m))) = Upto(m)
<1> DEFINE s == SubSeq(Upto(n), 1, m)
<1>1. m \in Nat /\ n \in Nat /\ Len(Upto(m)) = m /\ Len(Upto(n)) = n
  BY HistoryFacts, UptoFacts
<1>2. \A k \in 1..m : Upto(n)[k] = <<k, History[k]>> /\ Upto(m)[k] = <<k, History[k]>>
  BY <1>1, SMTT(30) DEF Upto
<1>3. s \in Seq(Indexes \X Nat) /\ Len(s) = m /\ \A k \in 1..m : s[k] = Upto(n)[k]
  <2>1. ASSUME NEW S, NEW u \in Seq(S), Len(u) = n
        PROVE  /\ SubSeq(u, 1, m) \in Seq(S) /\ Len(SubSeq(u, 1, m)) = m
               /\ \A k \in 1..m : SubSeq(u, 1, m)[k] = u[k]
    BY <1>1, <2>1, SMTT(30)
  <2>2. Upto(n) \in Seq(Indexes \X Nat)
    BY UptoFacts
  <2>3. QED
    BY <1>1, <2>1, <2>2
<1>4. Upto(m) \in Seq(Indexes \X Nat)
  BY UptoFacts
<1> HIDE DEF s
<1>5. s = Upto(m)
  BY <1>1, <1>2, <1>3, <1>4, SameSequence
<1>6. QED
  BY <1>1, <1>5 DEF s

-----------------------------------------------------------------------------
\* The shape of a log.
LEMMA LogFacts ==
    ASSUME NEW l \in Log
    PROVE  /\ l.base \in Nat /\ l.base \in Indexes
           /\ LastIndex(l) \in Nat /\ l.base <= LastIndex(l)
           /\ LastIndex(l) - l.base = Len(l.entries)
           /\ TermAt(l, l.base) = l.baseTerm
           /\ \A n \in Nat : n > l.base /\ n <= LastIndex(l)
                 => TermAt(l, n) = l.entries[n - l.base] /\ TermAt(l, n) \in Nat
BY HistoryFacts, SMTT(30) DEF Log, LastIndex, TermAt

\* The end of a sequence, after its first d elements.
LEMMA EndOfSeq ==
    ASSUME NEW s \in Seq(Nat), NEW d \in Nat, d <= Len(s)
    PROVE  /\ SubSeq(s, d + 1, Len(s)) \in Seq(Nat)
           /\ Len(SubSeq(s, d + 1, Len(s))) = Len(s) - d
           /\ \A i \in 1..(Len(s) - d) : SubSeq(s, d + 1, Len(s))[i] = s[d + i]
<1>1. \A i \in (d + 1)..Len(s) : s[i] \in Nat
  BY SMTT(30)
<1>2. QED
  BY <1>1, SubSeqFacts, SMTT(30)

\* Log l without the entries up to n.
Suffix(l, n, t) ==
    [base |-> n, baseTerm |-> t,
     entries |-> SubSeq(l.entries, n - l.base + 1, Len(l.entries))]

\* Dropping the entries up to n: the boundary moves, the rest stays.
LEMMA SuffixFacts ==
    ASSUME NEW l \in Log, NEW n \in Indexes, NEW t \in Nat, l.base <= n, n <= LastIndex(l),
           NEW c, c = Suffix(l, n, t)
    PROVE  /\ c \in Log /\ c.base = n /\ c.baseTerm = t /\ LastIndex(c) = LastIndex(l)
           /\ \A k \in Nat : k > n /\ k <= LastIndex(l) => TermAt(c, k) = TermAt(l, k)
<1>1. /\ l.base \in Nat /\ n \in Nat
      /\ LastIndex(l) = l.base + Len(l.entries)
  BY LogFacts, HistoryFacts DEF LastIndex
<1>2. PICK s \in Seq(Nat) : s = l.entries
  BY DEF Log
<1>3. Len(s) \in Nat /\ LastIndex(l) = l.base + Len(s)
  BY <1>1, <1>2, SMTT(30)
<1>4. PICK d \in Nat : d = n - l.base
  BY <1>1, SMTT(30)
<1>5. d <= Len(s) /\ l.base + d = n
  BY <1>1, <1>3, <1>4, SMTT(30)
<1>6. PICK e : e = SubSeq(s, d + 1, Len(s))
  OBVIOUS
<1>7. e \in Seq(Nat) /\ Len(e) = Len(s) - d
  BY <1>5, <1>6, EndOfSeq
<1>8. \A i \in 1..(Len(s) - d) : e[i] = s[d + i]
  BY <1>5, <1>6, EndOfSeq
<1>9. c = [base |-> n, baseTerm |-> t, entries |-> e]
  BY <1>2, <1>4, <1>6 DEF Suffix
<1>10. c.base = n /\ c.baseTerm = t /\ c.entries = e
  BY <1>9, SMTT(30)
<1>11. c \in Log
  BY <1>7, <1>9, SMTT(30) DEF Log
<1>12. LastIndex(c) = LastIndex(l)
  <2>1. LastIndex(c) = n + Len(e)
    BY <1>10 DEF LastIndex
  <2>2. n + (Len(s) - d) = l.base + Len(s)
    BY <1>1, <1>3, <1>5, SMTT(30)
  <2>3. QED
    BY <1>3, <1>7, <2>1, <2>2
<1>13. ASSUME NEW k \in Nat, k > n, k <= LastIndex(l)
       PROVE  TermAt(c, k) = TermAt(l, k)
  <2>1. k - n \in 1..(Len(s) - d)
    BY <1>1, <1>3, <1>5, <1>13, SMTT(30)
  <2>2. d + (k - n) = k - l.base
    BY <1>1, <1>4, SMTT(30)
  <2>3. k # n /\ k # l.base
    BY <1>1, <1>13, SMTT(30)
  <2>4. TermAt(c, k) = e[k - n]
    BY <1>10, <2>3 DEF TermAt
  <2>5. TermAt(l, k) = s[k - l.base]
    BY <1>2, <2>3 DEF TermAt
  <2>6. e[k - n] = s[d + (k - n)]
    BY <1>8, <2>1
  <2>7. QED
    BY <2>2, <2>4, <2>5, <2>6
<1>14. QED
  BY <1>10, <1>11, <1>12, <1>13

\* A log whose beginning, up to an entry that is committed, is dropped still
\* matches what the cluster committed and holds what it held.
LEMMA SuffixMatches ==
    ASSUME NEW l \in Log, NEW n \in Indexes, LogMatches(l), l.base <= n, Agrees(l, n),
           NEW c, c = Suffix(l, n, HistoryTerm(n))
    PROVE  /\ c \in Log /\ c.base = n /\ LogMatches(c)
           /\ \A k \in Indexes : Agrees(l, k) => Agrees(c, k)
<1>1. n \in Nat /\ HistoryTerm(n) \in Nat /\ n <= LastIndex(l)
  BY HistoryFacts DEF Agrees
<1>2. /\ c \in Log /\ c.base = n /\ c.baseTerm = HistoryTerm(n)
      /\ LastIndex(c) = LastIndex(l) /\ LastIndex(l) \in Nat /\ TermAt(c, n) = HistoryTerm(n)
      /\ l.base \in Nat
  BY <1>1, SuffixFacts, LogFacts, SMTT(30)
<1>3. \A k \in Nat : k > n /\ k <= LastIndex(l) => TermAt(c, k) = TermAt(l, k)
  BY <1>1, SuffixFacts, SMTT(30)
<1>4. \A k \in Indexes : k > n => (Agrees(l, k) <=> Agrees(c, k))
  <2> TAKE k \in Indexes
  <2> HAVE k > n
  <2>1. k \in Nat /\ k >= l.base /\ k >= c.base
    BY <1>1, <1>2, HistoryFacts, SMTT(30)
  <2>2. CASE k <= LastIndex(l)
    BY <1>1, <1>2, <1>3, <2>1, <2>2 DEF Agrees
  <2>3. CASE ~ (k <= LastIndex(l))
    BY <1>2, <2>3 DEF Agrees
  <2>4. QED
    BY <2>2, <2>3
<1>5. \A k \in Indexes : k <= n => Agrees(c, k)
  BY <1>1, <1>2, HistoryFacts, SMTT(30) DEF Agrees
<1>6. \A j, k \in Indexes : k <= j /\ Agrees(c, j) => Agrees(c, k)
  <2> TAKE j, k \in Indexes
  <2> HAVE k <= j /\ Agrees(c, j)
  <2>1. CASE k <= n
    BY <1>5, <2>1
  <2>2. CASE ~ (k <= n)
    <3>1. k > n /\ j > n
      BY <1>1, <2>2, HistoryFacts, SMTT(30)
    <3>2. Agrees(l, j)
      BY <1>4, <3>1
    <3>3. Agrees(l, k)
      BY <3>2 DEF LogMatches
    <3>4. QED
      BY <1>4, <3>1, <3>3
  <2>3. QED
    BY <2>1, <2>2
<1>7. LogMatches(c)
  BY <1>2, <1>6 DEF LogMatches
<1>8. \A k \in Indexes : Agrees(l, k) => Agrees(c, k)
  <2>1. \A k \in Indexes : k <= n \/ k > n
    BY <1>1, HistoryFacts, SMTT(30)
  <2>2. QED
    BY <1>4, <1>5, <2>1
<1>9. QED
  BY <1>2, <1>7, <1>8

\* CompactUpTo at a committed entry.
LEMMA CompactMatches ==
    ASSUME NEW l \in Log, NEW n \in Indexes, LogMatches(l), l.base <= n, Agrees(l, n)
    PROVE  /\ compacted(l, n) \in Log /\ compacted(l, n).base = n /\ LogMatches(compacted(l, n))
           /\ \A k \in Indexes : Agrees(l, k) => Agrees(compacted(l, n), k)
<1>1. TermAt(l, n) = HistoryTerm(n)
  BY DEF Agrees
<1>2. compacted(l, n) = Suffix(l, n, HistoryTerm(n))
  BY <1>1 DEF compacted, Suffix
<1>3. QED
  BY <1>2, SuffixMatches

\* RestoreSnapshotBoundary with a snapshot of what the cluster committed: the
\* suffix is kept whenever it holds something that is committed.
LEMMA RestoreMatches ==
    ASSUME NEW l \in Log, NEW n \in Indexes, LogMatches(l), l.base <= n
    PROVE  /\ restored(l, SnapshotAt(n)) \in Log
           /\ restored(l, SnapshotAt(n)).base = n
           /\ LogMatches(restored(l, SnapshotAt(n)))
           /\ Agrees(restored(l, SnapshotAt(n)), n)
           /\ \A k \in Indexes : Agrees(l, k) => Agrees(restored(l, SnapshotAt(n)), k)
<1> DEFINE r == restored(l, SnapshotAt(n))
<1>1. SnapshotAt(n).index = n /\ SnapshotAt(n).term = HistoryTerm(n)
  BY DEF SnapshotAt
<1>2. n \in Nat /\ HistoryTerm(n) \in Nat
  BY HistoryFacts
<1>3. CASE Agrees(l, n)
  <2>1. r = Suffix(l, n, HistoryTerm(n))
    BY <1>1, <1>3 DEF restored, Agrees, Suffix
  <2> HIDE DEF r
  <2>2. /\ r \in Log /\ r.base = n /\ LogMatches(r)
        /\ \A k \in Indexes : Agrees(l, k) => Agrees(r, k)
    BY <1>3, <2>1, SuffixMatches
  <2>3. QED
    BY <1>3, <2>2 DEF r
<1>4. CASE ~ Agrees(l, n)
  <2>1. r = [base |-> n, baseTerm |-> HistoryTerm(n), entries |-> <<>>]
    BY <1>1, <1>4 DEF restored, Agrees
  <2> HIDE DEF r
  <2>2. r \in Log /\ r.base = n /\ r.baseTerm = HistoryTerm(n) /\ LastIndex(r) = n
    BY <1>2, <2>1, SMTT(30) DEF Log, LastIndex
  <2>3. TermAt(r, n) = HistoryTerm(n)
    BY <2>2 DEF TermAt
  <2>4. \A k \in Indexes : k <= n <=> Agrees(r, k)
    BY <1>2, <2>2, <2>3, HistoryFacts, SMTT(30) DEF Agrees
  <2>5. LogMatches(r)
    BY <1>2, <2>2, <2>4, HistoryFacts, SMTT(30) DEF LogMatches
  <2>6. \A k \in Indexes : Agrees(l, k) => k <= n
    BY <1>2, <1>4, HistoryFacts, SMTT(30) DEF LogMatches
  <2>7. QED
    BY <1>2, <2>2, <2>4, <2>5, <2>6, SMTT(30) DEF r
<1>5. QED
  BY <1>3, <1>4

-----------------------------------------------------------------------------
\* The beginning of a sequence.
LEMMA StartOfSeq ==
    ASSUME NEW S, NEW s \in Seq(S), NEW d \in Nat, d <= Len(s)
    PROVE  /\ SubSeq(s, 1, d) \in Seq(S) /\ Len(SubSeq(s, 1, d)) = d
           /\ \A i \in 1..d : SubSeq(s, 1, d)[i] = s[i]
<1>1. \A i \in 1..d : s[i] \in S
  BY SMTT(30)
<1>2. QED
  BY <1>1, SubSeqFacts, SMTT(30)

\* TruncateAfter(n): the entries up to n stay.
LEMMA TruncateFacts ==
    ASSUME NEW l \in Log, NEW n \in Nat, l.base <= n, n <= LastIndex(l)
    PROVE  /\ truncated(l, n) \in Log /\ truncated(l, n).base = l.base
           /\ truncated(l, n).baseTerm = l.baseTerm /\ LastIndex(truncated(l, n)) = n
           /\ Len(truncated(l, n).entries) = n - l.base
           /\ \A i \in 1..(n - l.base) : truncated(l, n).entries[i] = l.entries[i]
           /\ \A k \in Nat : l.base <= k /\ k <= n => TermAt(truncated(l, n), k) = TermAt(l, k)
<1>1. l.base \in Nat /\ LastIndex(l) = l.base + Len(l.entries)
  BY LogFacts DEF LastIndex
<1>2. PICK s \in Seq(Nat) : s = l.entries
  BY DEF Log
<1>3. PICK d \in Nat : d = n - l.base
  BY <1>1, SMTT(30)
<1>4. Len(s) \in Nat /\ d <= Len(s) /\ n = l.base + d
  BY <1>1, <1>2, <1>3, SMTT(30)
<1>5. PICK e : e = SubSeq(s, 1, d)
  OBVIOUS
<1>6. e \in Seq(Nat) /\ Len(e) = d /\ \A i \in 1..d : e[i] = s[i]
  BY <1>4, <1>5, StartOfSeq
<1>7. PICK r : r = truncated(l, n)
  OBVIOUS
<1>8. r = [l EXCEPT !.entries = e]
  BY <1>2, <1>3, <1>5, <1>7 DEF truncated
<1>9. r \in Log /\ r.base = l.base /\ r.baseTerm = l.baseTerm /\ r.entries = e
  BY <1>6, <1>8 DEF Log
<1>10. LastIndex(r) = n
  BY <1>1, <1>4, <1>6, <1>9 DEF LastIndex
<1>11. ASSUME NEW k \in Nat, l.base <= k, k <= n
       PROVE  TermAt(r, k) = TermAt(l, k)
  <2>1. CASE k = l.base
    BY <1>9, <2>1 DEF TermAt
  <2>2. CASE k # l.base
    <3>1. k - l.base \in 1..d
      BY <1>1, <1>4, <1>11, <2>2, SMTT(30)
    <3>2. TermAt(r, k) = e[k - l.base] /\ TermAt(l, k) = s[k - l.base]
      BY <1>2, <1>9, <2>2 DEF TermAt
    <3>3. QED
      BY <1>6, <3>1, <3>2
  <2>3. QED
    BY <2>1, <2>2
<1>12. Len(r.entries) = n - l.base /\ \A i \in 1..(n - l.base) : r.entries[i] = l.entries[i]
  BY <1>2, <1>3, <1>6, <1>9
<1>13. QED
  BY <1>7, <1>9, <1>10, <1>11, <1>12

\* A log that agrees everywhere with what the cluster committed matches it.
LEMMA AgreesEverywhere ==
    ASSUME NEW r \in Log, r.baseTerm = HistoryTerm(r.base),
           \A k \in Indexes : k <= LastIndex(r) => Agrees(r, k)
    PROVE  LogMatches(r)
<1>1. LastIndex(r) \in Nat
  BY LogFacts
<1>2. ASSUME NEW n \in Indexes, NEW k \in Indexes, k <= n, Agrees(r, n)
      PROVE  Agrees(r, k)
  <2>1. k <= LastIndex(r)
    BY <1>1, <1>2, HistoryFacts, SMTT(30) DEF Agrees
  <2>2. QED
    BY <2>1
<1>3. QED
  BY <1>2 DEF LogMatches

\* The log cut before the first entry that a request would replace.
LEMMA TruncateMatches ==
    ASSUME NEW l \in Log, LogMatches(l), NEW cut \in Indexes, l.base <= cut, Agrees(l, cut)
    PROVE  /\ truncated(l, cut) \in Log /\ truncated(l, cut).base = l.base
           /\ LogMatches(truncated(l, cut))
           /\ \A k \in Indexes : k <= cut => Agrees(truncated(l, cut), k)
<1> DEFINE r == truncated(l, cut)
<1>1. cut \in Nat /\ l.base \in Nat /\ cut <= LastIndex(l)
  BY HistoryFacts, LogFacts DEF Agrees
<1>2. /\ r \in Log /\ r.base = l.base /\ r.baseTerm = l.baseTerm /\ LastIndex(r) = cut
      /\ \A k \in Nat : l.base <= k /\ k <= cut => TermAt(r, k) = TermAt(l, k)
  BY <1>1, TruncateFacts
<1> HIDE DEF r
<1>3. \A k \in Indexes : k <= cut => Agrees(r, k)
  <2> TAKE k \in Indexes
  <2> HAVE k <= cut
  <2>1. Agrees(l, k) /\ k \in Nat
    BY HistoryFacts DEF LogMatches
  <2>2. QED
    BY <1>1, <1>2, <2>1 DEF Agrees
<1>4. r.baseTerm = HistoryTerm(r.base)
  BY <1>2 DEF LogMatches
<1>5. LogMatches(r)
  BY <1>2, <1>3, <1>4, AgreesEverywhere
<1>6. QED
  BY <1>2, <1>3, <1>5 DEF r

\* Log l with the entries after cut up to last of a request.
Extended(l, cut, last) == [l EXCEPT !.entries = @ \o SubSeq(History, cut + 1, last)]

\* A cut log with the rest of the request appended.
LEMMA AppendFacts ==
    ASSUME NEW l \in Log, NEW cut \in Indexes, NEW last \in Indexes,
           l.base <= cut, cut < last, LastIndex(l) = cut,
           NEW r, r = Extended(l, cut, last)
    PROVE  /\ r \in Log /\ r.base = l.base /\ r.baseTerm = l.baseTerm /\ LastIndex(r) = last
           /\ \A k \in Nat : l.base <= k /\ k <= cut => TermAt(r, k) = TermAt(l, k)
           /\ \A k \in Nat : cut < k /\ k <= last => TermAt(r, k) = History[k]
<1>1. /\ cut \in Nat /\ last \in Nat /\ l.base \in Nat /\ Len(History) \in Nat
      /\ last <= Len(History)
  BY HistoryFacts, LogFacts, SMTT(30) DEF Indexes
<1>2. PICK s \in Seq(Nat) : s = l.entries
  BY DEF Log
<1>3. Len(s) \in Nat /\ cut = l.base + Len(s)
  BY <1>2, SMTT(30) DEF LastIndex
<1>4. PICK h : h = SubSeq(History, cut + 1, last)
  OBVIOUS
<1>5. /\ h \in Seq(Nat) /\ Len(h) = last - cut
      /\ \A i \in 1..(last - cut) : h[i] = History[cut + i]
  <2>1. \A i \in (cut + 1)..last : History[i] \in Nat
    BY <1>1, SnapshotAssumption, SMTT(30)
  <2>2. QED
    BY <1>1, <1>4, <2>1, SubSeqFacts, SMTT(30)
<1>6. Len(h) = last - cut /\ Len(s) \in Nat /\ Len(s) = cut - l.base
  BY <1>1, <1>3, <1>5, SMTT(30)
<1>7. PICK e : e = s \o h
  OBVIOUS
<1>8. e \in Seq(Nat) /\ Len(e) = Len(s) + Len(h)
  BY <1>5, <1>7, ConcatFacts
<1>9. \A i \in 1..(Len(s) + Len(h)) : e[i] = IF i <= Len(s) THEN s[i] ELSE h[i - Len(s)]
  BY <1>5, <1>7, ConcatFacts, SMTT(30)
<1>10. r = [l EXCEPT !.entries = e]
  BY <1>2, <1>4, <1>7 DEF Extended
<1>11. r \in Log /\ r.base = l.base /\ r.baseTerm = l.baseTerm /\ r.entries = e
  BY <1>8, <1>10 DEF Log
<1>12. LastIndex(r) = last
  <2>1. LastIndex(r) = l.base + Len(e)
    BY <1>11 DEF LastIndex
  <2>2. l.base + ((cut - l.base) + (last - cut)) = last
    BY <1>1, SMTT(30)
  <2>3. QED
    BY <1>6, <1>8, <2>1, <2>2
<1>13. ASSUME NEW k \in Nat, l.base <= k, k <= cut
       PROVE  TermAt(r, k) = TermAt(l, k)
  <2>1. CASE k = l.base
    BY <1>11, <2>1 DEF TermAt
  <2>2. CASE k # l.base
    <3>1. /\ k - l.base \in 1..((cut - l.base) + (last - cut)) /\ k - l.base <= cut - l.base
      BY <1>1, <1>13, <2>2, SMTT(30)
    <3>2. TermAt(r, k) = e[k - l.base] /\ TermAt(l, k) = s[k - l.base]
      BY <1>2, <1>11, <2>2 DEF TermAt
    <3>3. QED
      BY <1>6, <1>9, <3>1, <3>2
  <2>3. QED
    BY <2>1, <2>2
<1>14. ASSUME NEW k \in Nat, cut < k, k <= last
       PROVE  TermAt(r, k) = History[k]
  <2>1. /\ k - l.base \in 1..(Len(s) + Len(h)) /\ ~ (k - l.base <= Len(s))
        /\ (k - l.base) - Len(s) = k - cut /\ k - cut \in 1..(last - cut) /\ k # l.base
    BY <1>1, <1>6, <1>14, SMTT(30)
  <2>2. TermAt(r, k) = e[k - l.base]
    BY <1>11, <2>1 DEF TermAt
  <2>3. e[k - l.base] = h[k - cut]
    BY <1>9, <2>1
  <2>4. h[k - cut] = History[cut + (k - cut)]
    BY <1>5, <2>1
  <2>5. cut + (k - cut) = k
    BY <1>1, SMTT(30)
  <2>6. QED
    BY <2>2, <2>3, <2>4, <2>5
<1>15. QED
  BY <1>11, <1>12, <1>13, <1>14

-----------------------------------------------------------------------------
\* What a step must keep of the log for its part of the invariant.
LEMMA LogInvStep ==
    ASSUME TypeOK, LogInv, LogMatches(log'),
           \A k \in Indexes : Agrees(log, k) => Agrees(log', k),
           Agrees(log', commitIndex'),
           matchIndex' = matchIndex, acks' \subseteq acks
    PROVE  LogInv'
<1>1. Agrees(log', matchIndex')
  BY DEF TypeOK, LogInv
<1>2. \A c \in acks' : c.chunk = Chunks => Agrees(log', c.snap)
  BY DEF TypeOK, LogInv, Chunk
<1>3. QED
  BY <1>1, <1>2 DEF LogInv

\* The initial log is the beginning of an earlier leader's.
LEMMA InitLog ==
    ASSUME NEW n \in 0..Len(Stale), log = [base |-> 0, baseTerm |-> 0, entries |-> SubSeq(Stale, 1, n)]
    PROVE  log \in Log /\ LogMatches(log) /\ Agrees(log, 0)
<1>1. Stale \in Seq(Nat) /\ Len(Stale) \in Nat /\ n \in Nat /\ n <= Len(Stale)
  BY SnapshotAssumption, SMTT(30)
<1>2. PICK e : e = SubSeq(Stale, 1, n)
  OBVIOUS
<1>3. e \in Seq(Nat) /\ Len(e) = n /\ \A i \in 1..n : e[i] = Stale[i]
  BY <1>1, <1>2, StartOfSeq
<1>4. 0 \in Indexes /\ HistoryTerm(0) = 0
  BY HistoryFacts, SMTT(30) DEF Indexes, HistoryTerm
<1>5. log \in Log /\ log.base = 0 /\ log.baseTerm = 0 /\ log.entries = e
  BY <1>2, <1>3, <1>4 DEF Log
<1>6. LastIndex(log) = n
  BY <1>1, <1>3, <1>5, SMTT(30) DEF LastIndex
<1>7. \A k \in Nat : k # 0 /\ k <= n => TermAt(log, k) = Stale[k]
  <2> TAKE k \in Nat
  <2> HAVE k # 0 /\ k <= n
  <2>1. k \in 1..n /\ k - 0 = k
    BY <1>1, SMTT(30)
  <2>2. TermAt(log, k) = e[k - 0]
    BY <1>5 DEF TermAt
  <2>3. QED
    BY <1>3, <2>1, <2>2
<1>8. Agrees(log, 0)
  BY <1>1, <1>4, <1>5, <1>6, SMTT(30) DEF Agrees, TermAt
<1>9. ASSUME NEW m \in Indexes, NEW k \in Indexes, k <= m, Agrees(log, m)
      PROVE  Agrees(log, k)
  <2>1. m \in Nat /\ k \in Nat /\ Len(History) \in Nat /\ m <= Len(History)
    BY HistoryFacts, SMTT(30) DEF Indexes
  <2>2. CASE k = 0
    BY <1>8, <2>2
  <2>3. CASE k # 0
    <3>1. m # 0 /\ m <= n /\ m >= 0
      BY <1>6, <1>9, <2>1, <2>3, SMTT(30) DEF Agrees
    <3>2. TermAt(log, m) = History[m] /\ TermAt(log, m) = Stale[m]
      BY <1>5, <1>7, <1>9, <2>1, <3>1, HistoryFacts DEF Agrees
    <3>3. m \in DOMAIN Stale \cap DOMAIN History
      BY <1>1, <2>1, <3>1, SnapshotAssumption, SMTT(30)
    <3>4. k \in 1..m /\ k <= n
      BY <1>1, <1>9, <2>1, <2>3, <3>1, SMTT(30)
    <3>5. Stale[k] = History[k]
      BY <3>2, <3>3, <3>4, StaleMatchesHistory
    <3>6. TermAt(log, k) = Stale[k] /\ HistoryTerm(k) = History[k]
      BY <1>7, <2>1, <2>3, <3>4, HistoryFacts
    <3>7. QED
      BY <1>6, <3>4, <3>5, <3>6 DEF Agrees
  <2>4. QED
    BY <2>2, <2>3
<1>10. LogMatches(log)
  BY <1>4, <1>5, <1>9 DEF LogMatches
<1>11. QED
  BY <1>5, <1>8, <1>10

LEMMA InitInv == Init => TypeOK /\ SnapshotInv
<1> SUFFICES ASSUME Init PROVE TypeOK /\ SnapshotInv
  OBVIOUS
<1>1. log \in Log /\ LogMatches(log) /\ Agrees(log, 0)
  BY InitLog DEF Init
<1>2. /\ Chunks \in Nat \ {0} /\ MaxCalls \in Nat /\ MaxRestarts \in Nat /\ 0 \in Indexes
      /\ NoSnapshot \in Artifact
  BY SnapshotAssumption, SnapshotAtType, HistoryFacts, SMTT(30) DEF Indexes, NoSnapshot
<1>3. log.base = 0
  BY SMTT(30) DEF Init
<1>4. Upto(0) = <<>> /\ NoSnapshot.index = 0 /\ NoSnapshot = SnapshotAt(0)
  <2>1. Upto(0) \in Seq(Indexes \X Nat) /\ Len(Upto(0)) = 0
    BY <1>2, UptoFacts
  <2>2. Upto(0) = <<>>
    BY <2>1, SMTT(30)
  <2>3. QED
    BY <2>2 DEF NoSnapshot, SnapshotAt
<1>5. TypeOK
  <2>1. /\ machine \in Seq(Indexes \X Nat) /\ matchIndex \in Indexes
        /\ calls \in 0..MaxCalls /\ restarts \in 0..MaxRestarts
    BY <1>2, SMTT(30) DEF Init
  <2>2. /\ partial \in [snap: Indexes, next: 1..(Chunks + 1)]
        /\ applying \in [pc: {"idle", "loop", "apply"}, index: Indexes, term: Nat]
    BY <1>2, SMTT(30) DEF Init
  <2>3. /\ taking \in [pc: {"idle", "persist", "publish", "compact"}, snap: Artifact]
        /\ installing \in [pc: {"idle", "persist", "boundary", "restore"}, snap: Artifact]
    BY <1>2 DEF Init, Idle
  <2>4. QED
    BY <1>1, <1>2, <2>1, <2>2, <2>3 DEF Init, TypeOK
<1>6. LogInv
  BY <1>1 DEF Init, LogInv
<1>7. ApplyInv
  BY <1>4, SMTT(30) DEF Init, ApplyInv
<1>8. InstallInv
  BY <1>3, <1>4, SMTT(30) DEF Init, InstallInv, Idle
<1>9. QED
  BY <1>5, <1>6, <1>7, <1>8 DEF SnapshotInv

-----------------------------------------------------------------------------
LEMMA ApplyWakeStep ==
    ASSUME TypeOK, SnapshotInv, InstallsAreAlone, applyWake
    PROVE  TypeOK' /\ SnapshotInv'
<1>1. UNCHANGED <<log, commitIndex, fatal, lastApplied, machine, snapVars, netVars, up, bounds>>
  BY DEF applyWake
<1>2. /\ applying' \in [pc: {"idle", "loop", "apply"}, index: Indexes, term: Nat]
      /\ applying'.pc # "apply" /\ commitCh' \in BOOLEAN
  BY DEF applyWake, TypeOK
<1>3. TypeOK'
  BY <1>1, <1>2 DEF TypeOK, snapVars, netVars, bounds
<1>4. LogInv'
  BY <1>1 DEF SnapshotInv, LogInv, netVars
<1>5. ApplyInv'
  BY <1>1, <1>2 DEF SnapshotInv, ApplyInv, snapVars
<1>6. InstallInv'
  BY <1>1 DEF SnapshotInv, InstallInv, snapVars, InstallsAreAlone
<1>7. QED
  BY <1>3, <1>4, <1>5, <1>6 DEF SnapshotInv

\* The entry that the apply loop wants is in the log: the boundary has not passed
\* it, and it is committed.
LEMMA NextEntryIsThere ==
    ASSUME TypeOK, SnapshotInv, applying.pc # "idle", lastApplied < commitIndex
    PROVE  /\ lastApplied + 1 \in Indexes /\ HasEntry(log, lastApplied + 1)
           /\ TermAt(log, lastApplied + 1) = HistoryTerm(lastApplied + 1)
<1>1. /\ commitIndex \in Nat /\ lastApplied \in Nat /\ commitIndex <= Len(History)
      /\ Len(History) \in Nat /\ commitIndex \in Indexes
  BY HistoryFacts, SMTT(30) DEF TypeOK, Indexes
<1>2. lastApplied + 1 \in Indexes /\ lastApplied + 1 <= commitIndex
  BY <1>1, SMTT(30) DEF Indexes
<1>3. Agrees(log, lastApplied + 1)
  BY <1>1, <1>2 DEF SnapshotInv, LogInv, LogMatches
<1>4. log.base <= lastApplied /\ log.base \in Nat
  BY LogFacts DEF SnapshotInv, InstallInv, TypeOK
<1>5. QED
  BY <1>1, <1>2, <1>3, <1>4, SMTT(30) DEF Agrees, HasEntry

LEMMA ApplyNextStep ==
    ASSUME TypeOK, SnapshotInv, InstallsAreAlone, applyNext
    PROVE  TypeOK' /\ SnapshotInv'
<1>1. UNCHANGED <<logVars, lastApplied, machine, snapVars, netVars, bounds>> /\ applying.pc = "loop"
  BY DEF applyNext
<1>2. commitIndex \in Nat /\ lastApplied \in Nat
  BY HistoryFacts DEF TypeOK
<1>3. lastApplied < commitIndex =>
          /\ lastApplied + 1 \in Indexes /\ HasEntry(log, lastApplied + 1)
          /\ TermAt(log, lastApplied + 1) = HistoryTerm(lastApplied + 1)
  BY <1>1, NextEntryIsThere
<1>4. \/ up' = up /\ applying' = [applying EXCEPT !.pc = "idle"]
      \/ /\ up' = up /\ lastApplied < commitIndex
         /\ applying' = [pc |-> "apply", index |-> lastApplied + 1,
                         term |-> TermAt(log, lastApplied + 1)]
  <2>1. ~ caughtUp(commitIndex, lastApplied) <=> lastApplied < commitIndex
    BY <1>2, SMTT(30) DEF caughtUp
  <2>2. ~ caughtUp(commitIndex, lastApplied) => HasEntry(log, lastApplied + 1)
    BY <1>3, <2>1
  <2>3. QED
    BY <2>1, <2>2 DEF applyNext
<1>5. /\ applying' \in [pc: {"idle", "loop", "apply"}, index: Indexes, term: Nat]
      /\ applying'.pc = "apply" => /\ applying'.index = lastApplied + 1
                                   /\ applying'.index <= commitIndex
                                   /\ applying'.term = HistoryTerm(applying'.index)
  <2>1. CASE applying' = [applying EXCEPT !.pc = "idle"]
    BY <2>1 DEF TypeOK
  <2>2. CASE /\ lastApplied < commitIndex
             /\ applying' = [pc |-> "apply", index |-> lastApplied + 1,
                             term |-> TermAt(log, lastApplied + 1)]
    <3>1. /\ lastApplied + 1 \in Indexes /\ lastApplied + 1 <= commitIndex
          /\ TermAt(log, lastApplied + 1) = HistoryTerm(lastApplied + 1)
          /\ HistoryTerm(lastApplied + 1) \in Nat
      BY <1>2, <1>3, <2>2, HistoryFacts, SMTT(30)
    <3>2. QED
      BY <2>2, <3>1
  <2>3. QED
    BY <1>4, <2>1, <2>2
<1>6. up' = up
  BY <1>4
<1>7. TypeOK'
  BY <1>1, <1>5, <1>6 DEF TypeOK, logVars, snapVars, netVars, bounds
<1>8. LogInv'
  BY <1>1 DEF SnapshotInv, LogInv, logVars, netVars
<1>9. ApplyInv'
  BY <1>1, <1>5, <1>6 DEF SnapshotInv, ApplyInv, logVars, snapVars
<1>10. InstallInv'
  BY <1>1 DEF SnapshotInv, InstallInv, logVars, snapVars, InstallsAreAlone
<1>11. QED
  BY <1>7, <1>8, <1>9, <1>10 DEF SnapshotInv

LEMMA ApplyEntryStep ==
    ASSUME TypeOK, SnapshotInv, InstallsAreAlone, applyEntry
    PROVE  TypeOK' /\ SnapshotInv'
<1>1. UNCHANGED <<logVars, meta, artifact, partial, taking, waiting, installing, netVars, up, bounds>>
  BY DEF applyEntry
<1>2. /\ lastApplied \in Indexes /\ applying.index \in Indexes /\ lastApplied \in Nat
      /\ applying.index = lastApplied + 1 /\ applying.index <= commitIndex
      /\ applying.term = HistoryTerm(applying.index) /\ machine = Upto(lastApplied)
  BY HistoryFacts DEF applyEntry, TypeOK, SnapshotInv, ApplyInv
<1>3. HistoryTerm(lastApplied + 1) = History[lastApplied + 1]
  BY <1>2, SMTT(30) DEF HistoryTerm
<1>4. lastApplied' = lastApplied + 1 /\ machine' = Upto(lastApplied + 1)
  BY <1>2, <1>3, UptoNext DEF applyEntry
<1>5. /\ applying' \in [pc: {"idle", "loop", "apply"}, index: Indexes, term: Nat]
      /\ applying'.pc = "loop"
  BY DEF applyEntry, TypeOK
<1>6. triggered' \in Nat
  BY SMTT(30) DEF applyEntry, TypeOK
<1>7. lastApplied' \in Indexes /\ machine' \in Seq(Indexes \X Nat)
  BY <1>2, <1>4, UptoFacts
<1>8. TypeOK'
  BY <1>1, <1>5, <1>6, <1>7 DEF TypeOK, logVars, netVars, bounds
<1>9. LogInv'
  BY <1>1 DEF SnapshotInv, LogInv, logVars, netVars
<1>10. ApplyInv'
  BY <1>1, <1>2, <1>4, <1>5 DEF SnapshotInv, ApplyInv, logVars
<1>11. /\ installing.pc # "restore"
       /\ log.base \in Nat /\ (taking.pc # "idle" => taking.snap.index \in Nat)
  BY LogFacts, HistoryFacts DEF SnapshotInv, InstallInv, TypeOK, Artifact, applyEntry
<1>12. InstallInv'
  BY <1>1, <1>2, <1>4, <1>11, SMTT(30) DEF SnapshotInv, InstallInv, logVars
<1>13. QED
  BY <1>8, <1>9, <1>10, <1>12 DEF SnapshotInv

-----------------------------------------------------------------------------
\* The numbers of the invariant.
LEMMA Counters ==
    ASSUME TypeOK
    PROVE  commitIndex \in Nat /\ lastApplied \in Nat /\ matchIndex \in Nat
BY HistoryFacts DEF TypeOK

LEMMA BaseNumber ==
    ASSUME TypeOK
    PROVE  log.base \in Nat
BY LogFacts DEF TypeOK

LEMMA TakingNumber ==
    ASSUME TypeOK
    PROVE  taking.snap.index \in Nat /\ taking.snap.index \in Indexes
BY HistoryFacts DEF TypeOK, Artifact

LEMMA InstallingNumber ==
    ASSUME TypeOK
    PROVE  installing.snap.index \in Nat /\ installing.snap.index \in Indexes
BY HistoryFacts DEF TypeOK, Artifact

LEMMA ArtifactNumber ==
    ASSUME TypeOK
    PROVE  artifact.index \in Nat /\ artifact.index \in Indexes
BY HistoryFacts DEF TypeOK, Artifact

\* takeSnapshot captures what the cluster has committed: lastApplied, its term and
\* the state machine belong together.
LEMMA TakeSnapshotStep ==
    ASSUME TypeOK, SnapshotInv, InstallsAreAlone, takeSnapshot
    PROVE  TypeOK' /\ SnapshotInv'
<1>1. UNCHANGED <<logVars, machineVars, meta, artifact, partial, waiting, installing, netVars, up,
                  bounds>>
  BY DEF takeSnapshot
<1>2. triggered' \in Nat
  BY SMTT(30) DEF takeSnapshot, TypeOK
<1>3. \/ taking' = taking
      \/ /\ lastApplied >= log.base /\ installing.pc = "idle"
         /\ taking' = [pc |-> "persist", snap |-> [index |-> lastApplied,
                       term |-> TermAt(log, lastApplied), data |-> machine]]
  BY DEF takeSnapshot, snapshotMuIsFree
<1>4. ASSUME lastApplied >= log.base
      PROVE  [index |-> lastApplied, term |-> TermAt(log, lastApplied), data |-> machine]
                = SnapshotAt(lastApplied)
  <2>1. Agrees(log, lastApplied)
    BY DEF TypeOK, SnapshotInv, LogInv, ApplyInv, LogMatches
  <2>2. TermAt(log, lastApplied) = HistoryTerm(lastApplied)
    BY <1>4, <2>1 DEF Agrees
  <2>3. QED
    BY <2>2 DEF SnapshotInv, ApplyInv, SnapshotAt
<1>5. lastApplied \in Indexes /\ SnapshotAt(lastApplied) \in Artifact
      /\ SnapshotAt(lastApplied).index = lastApplied
  BY SnapshotAtType DEF TypeOK, SnapshotAt
<1>6. \/ taking' = taking
      \/ /\ log.base <= lastApplied /\ installing.pc = "idle"
         /\ taking' = [pc |-> "persist", snap |-> SnapshotAt(lastApplied)]
  BY <1>3, <1>4, Counters, BaseNumber
<1>7. taking' \in [pc: {"idle", "persist", "publish", "compact"}, snap: Artifact]
  BY <1>5, <1>6, SMTT(30) DEF TypeOK
<1>8. TypeOK'
  BY <1>1, <1>2, <1>7 DEF TypeOK, logVars, machineVars, netVars, bounds
<1>9. LogInv'
  BY <1>1 DEF SnapshotInv, LogInv, logVars, netVars
<1>10. ApplyInv'
  BY <1>1 DEF SnapshotInv, ApplyInv, logVars, machineVars
<1>11. InstallInv'
  <2>1. CASE taking' = taking
    BY <1>1, <2>1 DEF SnapshotInv, InstallInv, logVars, machineVars
  <2>2. CASE /\ log.base <= lastApplied /\ installing.pc = "idle"
             /\ taking' = [pc |-> "persist", snap |-> SnapshotAt(lastApplied)]
    <3>1. /\ taking'.pc = "persist" /\ taking'.snap = SnapshotAt(taking'.snap.index)
          /\ taking'.snap.index = lastApplied
      BY <1>5, <2>2
    <3>2. QED
      BY <1>1, <2>2, <3>1, Counters, SMTT(30) DEF SnapshotInv, InstallInv, logVars, machineVars
  <2>3. QED
    BY <1>6, <2>1, <2>2
<1>12. QED
  BY <1>8, <1>9, <1>10, <1>11 DEF SnapshotInv

LEMMA TakePersistStep ==
    ASSUME TypeOK, SnapshotInv, InstallsAreAlone, takePersist
    PROVE  TypeOK' /\ SnapshotInv'
<1>1. UNCHANGED <<logVars, machineVars, meta, partial, triggered, waiting, installing, netVars, up,
                  bounds>>
  BY DEF takePersist
<1>2. NoSnapshot \in Artifact
  BY SnapshotAtType, SMTT(30) DEF NoSnapshot, Indexes
<1>3. \/ artifact' = taking.snap /\ taking' = [taking EXCEPT !.pc = "publish"]
      \/ taking' = Idle /\ artifact' \in {artifact, taking.snap}
  BY DEF takePersist
<1>4. artifact' \in Artifact
      /\ taking' \in [pc: {"idle", "persist", "publish", "compact"}, snap: Artifact]
  BY <1>2, <1>3, SMTT(30) DEF TypeOK, Idle
<1>5. TypeOK'
  BY <1>1, <1>4 DEF TypeOK, logVars, machineVars, netVars, bounds
<1>6. LogInv'
  BY <1>1 DEF SnapshotInv, LogInv, logVars, netVars
<1>7. ApplyInv'
  BY <1>1 DEF SnapshotInv, ApplyInv, logVars, machineVars
<1>8. InstallInv'
  <2>1. CASE artifact' = taking.snap /\ taking' = [taking EXCEPT !.pc = "publish"]
    <3>1. taking'.pc = "publish" /\ taking'.snap = taking.snap
      BY <2>1 DEF TypeOK
    <3>2. taking.pc # "idle" /\ installing.pc = "idle"
      BY DEF takePersist, SnapshotInv, InstallInv
    <3>3. QED
      BY <1>1, <2>1, <3>1, <3>2 DEF SnapshotInv, InstallInv, logVars, machineVars
  <2>2. CASE taking' = Idle /\ artifact' \in {artifact, taking.snap}
    <3>1. taking.pc = "persist" /\ installing.pc = "idle" /\ Idle.pc = "idle"
      BY DEF takePersist, SnapshotInv, InstallInv, Idle
    <3>2. artifact' = SnapshotAt(artifact'.index) /\ log.base <= artifact'.index
      BY <2>2, <3>1 DEF SnapshotInv, InstallInv
    <3>3. QED
      BY <1>1, <2>2, <3>1, <3>2 DEF SnapshotInv, InstallInv, logVars, machineVars
  <2>3. QED
    BY <1>3, <2>1, <2>2
<1>9. QED
  BY <1>5, <1>6, <1>7, <1>8 DEF SnapshotInv

LEMMA TakePublishStep ==
    ASSUME TypeOK, SnapshotInv, InstallsAreAlone, takePublish
    PROVE  TypeOK' /\ SnapshotInv'
<1>1. UNCHANGED <<logVars, machineVars, artifact, partial, triggered, waiting, installing, netVars,
                  up, bounds>>
  BY DEF takePublish
<1>2. /\ taking.pc = "publish" /\ meta' = taking.snap /\ meta' \in Artifact
      /\ taking' \in [pc: {"idle", "persist", "publish", "compact"}, snap: Artifact]
      /\ taking'.pc = "compact" /\ taking'.snap = taking.snap
  BY DEF takePublish, TypeOK
<1>3. TypeOK'
  BY <1>1, <1>2 DEF TypeOK, logVars, machineVars, netVars, bounds
<1>4. LogInv'
  BY <1>1 DEF SnapshotInv, LogInv, logVars, netVars
<1>5. taking.snap.index <= lastApplied /\ lastApplied <= commitIndex
  BY <1>2 DEF SnapshotInv, InstallInv, ApplyInv
<1>6. meta'.index <= commitIndex
  BY <1>2, <1>5, Counters, TakingNumber, SMTT(30)
<1>7. ApplyInv'
  BY <1>1, <1>6 DEF SnapshotInv, ApplyInv, logVars, machineVars
<1>8. InstallInv'
  BY <1>1, <1>2 DEF SnapshotInv, InstallInv, logVars, machineVars
<1>9. QED
  BY <1>3, <1>4, <1>7, <1>8 DEF SnapshotInv

\* CompactUpTo drops only what the snapshot file holds.
LEMMA TakeCompactStep ==
    ASSUME TypeOK, SnapshotInv, InstallsAreAlone, takeCompact
    PROVE  TypeOK' /\ SnapshotInv'
<1> DEFINE n == taking.snap.index
<1>1. UNCHANGED <<commitIndex, commitCh, machineVars, meta, artifact, partial, triggered, waiting,
                  installing, netVars, up, bounds>> /\ taking' = Idle
  BY DEF takeCompact
<1>2. /\ taking.pc = "compact" /\ installing.pc = "idle" /\ artifact = taking.snap
      /\ log.base <= n /\ n <= lastApplied /\ lastApplied <= commitIndex
  BY DEF takeCompact, SnapshotInv, InstallInv, ApplyInv
<1>3. n \in Indexes /\ n <= commitIndex
  BY <1>2, Counters, TakingNumber, SMTT(30)
<1>4. log \in Log /\ LogMatches(log) /\ Agrees(log, commitIndex) /\ Agrees(log, n)
  BY <1>3 DEF TypeOK, SnapshotInv, LogInv, LogMatches
<1>5. log' = log \/ log' = compacted(log, n)
  BY DEF takeCompact
<1>6. /\ log' \in Log /\ LogMatches(log') /\ log'.base <= n
      /\ \A k \in Indexes : Agrees(log, k) => Agrees(log', k)
  <2>1. CASE log' = log
    BY <1>2, <1>4, <2>1
  <2>2. CASE log' = compacted(log, n)
    <3>1. /\ log' \in Log /\ LogMatches(log') /\ log'.base = n
          /\ \A k \in Indexes : Agrees(log, k) => Agrees(log', k)
      BY <1>2, <1>3, <1>4, <2>2, CompactMatches
    <3>2. QED
      BY <3>1, TakingNumber, SMTT(30)
  <2>3. QED
    BY <1>5, <2>1, <2>2
<1>7. Idle \in [pc: {"idle", "persist", "publish", "compact"}, snap: Artifact] /\ Idle.pc = "idle"
  BY SnapshotAtType, SMTT(30) DEF Idle, NoSnapshot, Indexes
<1>8. fatal' \in BOOLEAN
  BY DEF takeCompact, TypeOK
<1>9. TypeOK'
  BY <1>1, <1>6, <1>7, <1>8 DEF TypeOK, machineVars, netVars, bounds
<1>10. LogInv'
  <2>1. Agrees(log', commitIndex')
    BY <1>1, <1>4, <1>6 DEF TypeOK
  <2>2. QED
    BY <1>1, <1>6, <2>1, LogInvStep DEF SnapshotInv, netVars
<1>11. ApplyInv'
  BY <1>1 DEF SnapshotInv, ApplyInv, machineVars
<1>12. log'.base <= lastApplied
  BY <1>2, <1>6, Counters, TakingNumber, BaseNumber, LogFacts, SMTT(30)
<1>13. InstallInv'
  BY <1>1, <1>2, <1>6, <1>7, <1>12 DEF SnapshotInv, InstallInv, machineVars
<1>14. QED
  BY <1>9, <1>10, <1>11, <1>13 DEF SnapshotInv

-----------------------------------------------------------------------------
\* What is committed is stored: such a snapshot may be acknowledged.
LEMMA CommittedIsStored ==
    ASSUME TypeOK, SnapshotInv, NEW n \in Indexes, n <= commitIndex
    PROVE  Agrees(log, n)
BY DEF TypeOK, SnapshotInv, LogInv, LogMatches

LEMMA HandleInstallStep ==
    ASSUME TypeOK, SnapshotInv, InstallsAreAlone, NEW c \in chunks, handleInstallSnapshot(c)
    PROVE  TypeOK' /\ SnapshotInv'
<1>1. UNCHANGED <<logVars, machineVars, meta, artifact, partial, triggered, taking, installing,
                  matchIndex, up, bounds>>
  BY DEF handleInstallSnapshot
<1>2. c \in Chunk /\ c.snap \in Indexes /\ c.snap \in Nat
  BY HistoryFacts DEF TypeOK, Chunk
<1>3. chunks' \subseteq Chunk /\ acks' \subseteq Chunk /\ waiting' \subseteq Chunk
  BY <1>2 DEF handleInstallSnapshot, TypeOK
<1>4. ~ needed(c) => Agrees(log, c.snap)
  <2>1. ~ needed(c) => c.snap <= commitIndex
    <3>1. meta.index <= commitIndex
      BY DEF SnapshotInv, ApplyInv
    <3>2. meta.index \in Nat
      BY HistoryFacts DEF TypeOK, Artifact
    <3>3. QED
      BY <1>2, <3>1, <3>2, Counters, SMTT(30) DEF needed
  <2>2. QED
    BY <1>2, <2>1, CommittedIsStored
<1>5. acks' \subseteq acks \/ (acks' = acks \cup {c} /\ Agrees(log, c.snap))
  BY <1>4 DEF handleInstallSnapshot
<1>6. TypeOK'
  BY <1>1, <1>3 DEF TypeOK, logVars, machineVars, bounds
<1>7. LogInv'
  BY <1>1, <1>5 DEF SnapshotInv, LogInv, logVars
<1>8. ApplyInv'
  BY <1>1 DEF SnapshotInv, ApplyInv, logVars, machineVars
<1>9. InstallInv'
  BY <1>1 DEF SnapshotInv, InstallInv, logVars, machineVars
<1>10. QED
  BY <1>6, <1>7, <1>8, <1>9 DEF SnapshotInv

\* A chunk is added in order, and the last one starts an installation of a snapshot
\* that reaches past the commit index.
LEMMA InstallChunkStep ==
    ASSUME TypeOK, SnapshotInv, InstallsAreAlone, NEW c \in waiting, installChunk(c)
    PROVE  TypeOK' /\ SnapshotInv'
<1>1. UNCHANGED <<logVars, machineVars, meta, artifact, triggered, taking, chunks, matchIndex, up,
                  bounds>> /\ waiting' = waiting \ {c}
  BY DEF installChunk
<1>2. /\ c \in Chunk /\ c.snap \in Indexes /\ c.snap \in Nat /\ c.chunk \in 1..Chunks
      /\ Chunks \in Nat
  BY HistoryFacts, SnapshotAssumption DEF TypeOK, Chunk
<1>3. taking.pc = "idle" /\ installing.pc = "idle"
  BY DEF installChunk, snapshotMuIsFree
<1>4. ~ stillNeeded(c) => Agrees(log, c.snap)
  <2>1. ~ stillNeeded(c) => c.snap <= commitIndex
    BY <1>2, Counters, SMTT(30) DEF stillNeeded
  <2>2. QED
    BY <1>2, <2>1, CommittedIsStored
<1>5. \/ acks' = acks /\ installing' = installing
      \/ acks' = acks \cup {c} /\ installing' = installing
         /\ (Agrees(log, c.snap) \/ c.chunk < Chunks)
      \/ /\ acks' = acks /\ c.snap > commitIndex
         /\ installing' = [pc |-> "persist", snap |-> SnapshotAt(c.snap)]
  BY <1>4 DEF installChunk, stillNeeded
<1>6. partial' \in [snap: Indexes, next: 1..(Chunks + 1)]
  <2>1. CASE partial' = partial
    BY <2>1 DEF TypeOK
  <2>2. CASE \E next \in 1..(Chunks + 1) :
                partial' = [snap |-> c.snap, next |-> afterChunk(next, c)]
    <3>1. PICK next \in 1..(Chunks + 1) :
                partial' = [snap |-> c.snap, next |-> afterChunk(next, c)]
      BY <2>2
    <3>2. afterChunk(next, c) = IF next >= c.chunk + 1 THEN next ELSE c.chunk + 1
      BY <1>2, MaxOfTwo, SMTT(30) DEF afterChunk
    <3>3. afterChunk(next, c) \in 1..(Chunks + 1)
      BY <1>2, <3>2, SMTT(30)
    <3>4. QED
      BY <1>2, <3>1, <3>3
  <2>3. (IF partial.snap = c.snap THEN partial.next ELSE 1) \in 1..(Chunks + 1)
    BY <1>2, SMTT(30) DEF TypeOK
  <2>4. QED
    BY <2>1, <2>2, <2>3 DEF installChunk
<1>7. SnapshotAt(c.snap) \in Artifact /\ SnapshotAt(c.snap).index = c.snap
  BY <1>2, SnapshotAtType DEF SnapshotAt
<1>8. /\ installing' \in [pc: {"idle", "persist", "boundary", "restore"}, snap: Artifact]
      /\ acks' \subseteq Chunk /\ waiting' \subseteq Chunk
  BY <1>1, <1>2, <1>5, <1>7, SMTT(30) DEF TypeOK
<1>9. TypeOK'
  BY <1>1, <1>6, <1>8 DEF TypeOK, logVars, machineVars, bounds
<1>10. LogInv'
  <2>1. \A d \in acks' : d.chunk = Chunks => Agrees(log, d.snap)
    <3> TAKE d \in acks'
    <3> HAVE d.chunk = Chunks
    <3>1. CASE d \in acks
      BY <3>1 DEF SnapshotInv, LogInv
    <3>2. CASE d \notin acks
      <4>1. d = c /\ (Agrees(log, c.snap) \/ c.chunk < Chunks)
        BY <1>5, <3>2
      <4>2. QED
        BY <1>2, <4>1, SMTT(30)
    <3>3. QED
      BY <3>1, <3>2
  <2>2. QED
    BY <1>1, <2>1 DEF SnapshotInv, LogInv, logVars
<1>11. ApplyInv'
  BY <1>1 DEF SnapshotInv, ApplyInv, logVars, machineVars
<1>12. InstallInv'
  <2>1. CASE installing' = installing
    BY <1>1, <2>1 DEF SnapshotInv, InstallInv, logVars, machineVars
  <2>2. CASE c.snap > commitIndex /\ installing' = [pc |-> "persist", snap |-> SnapshotAt(c.snap)]
    <3>1. /\ installing'.pc = "persist" /\ installing'.snap.index = c.snap
          /\ installing'.snap = SnapshotAt(installing'.snap.index)
      BY <1>7, <2>2
    <3>2. installing'.snap.index >= commitIndex /\ installing'.snap.index > meta.index
      <4>1. meta.index <= commitIndex /\ meta.index \in Nat
        BY HistoryFacts DEF SnapshotInv, ApplyInv, TypeOK, Artifact
      <4>2. QED
        BY <1>2, <2>2, <3>1, <4>1, Counters, SMTT(30)
    <3>3. QED
      BY <1>1, <1>3, <3>1, <3>2 DEF SnapshotInv, InstallInv, logVars, machineVars
  <2>3. QED
    BY <1>5, <2>1, <2>2
<1>13. QED
  BY <1>9, <1>10, <1>11, <1>12 DEF SnapshotInv

LEMMA InstallPersistStep ==
    ASSUME TypeOK, SnapshotInv, InstallsAreAlone, installPersist
    PROVE  TypeOK' /\ SnapshotInv'
<1>1. UNCHANGED <<logVars, machineVars, meta, partial, triggered, taking, waiting, netVars, up,
                  bounds>> /\ installing.pc = "persist"
  BY DEF installPersist
<1>2. NoSnapshot \in Artifact
  BY SnapshotAtType, SMTT(30) DEF NoSnapshot, Indexes
<1>3. \/ artifact' = installing.snap /\ installing' = [installing EXCEPT !.pc = "boundary"]
      \/ installing' = Idle /\ artifact' \in {artifact, installing.snap}
  BY DEF installPersist
<1>4. artifact' \in Artifact
      /\ installing' \in [pc: {"idle", "persist", "boundary", "restore"}, snap: Artifact]
  BY <1>2, <1>3, SMTT(30) DEF TypeOK, Idle
<1>5. TypeOK'
  BY <1>1, <1>4 DEF TypeOK, logVars, machineVars, netVars, bounds
<1>6. LogInv'
  BY <1>1 DEF SnapshotInv, LogInv, logVars, netVars
<1>7. ApplyInv'
  BY <1>1 DEF SnapshotInv, ApplyInv, logVars, machineVars
<1>8. taking.pc = "idle"
  BY <1>1 DEF SnapshotInv, InstallInv, TypeOK
<1>9. /\ installing.snap = SnapshotAt(installing.snap.index)
      /\ log.base <= installing.snap.index /\ log.base <= lastApplied
  <2>1. /\ installing.snap = SnapshotAt(installing.snap.index)
        /\ installing.snap.index >= commitIndex /\ log.base <= lastApplied
        /\ lastApplied <= commitIndex
    BY <1>1 DEF SnapshotInv, InstallInv, ApplyInv
  <2>2. QED
    BY <2>1, Counters, BaseNumber, InstallingNumber, SMTT(30)
<1>10. InstallInv'
  <2>1. CASE artifact' = installing.snap /\ installing' = [installing EXCEPT !.pc = "boundary"]
    <3>1. installing'.pc = "boundary" /\ installing'.snap = installing.snap
      BY <2>1 DEF TypeOK
    <3>2. QED
      BY <1>1, <1>8, <1>9, <2>1, <3>1 DEF SnapshotInv, InstallInv, logVars, machineVars
  <2>2. CASE installing' = Idle /\ artifact' \in {artifact, installing.snap}
    <3>1. artifact' = SnapshotAt(artifact'.index) /\ log.base <= artifact'.index
      BY <1>9, <2>2 DEF SnapshotInv, InstallInv
    <3>2. QED
      BY <1>1, <1>8, <1>9, <2>2, <3>1 DEF SnapshotInv, InstallInv, logVars, machineVars, Idle
  <2>3. QED
    BY <1>3, <2>1, <2>2
<1>11. QED
  BY <1>5, <1>6, <1>7, <1>10 DEF SnapshotInv

-----------------------------------------------------------------------------
(* Numbers are well-founded.                                               *)
INSTANCE WellFoundedInduction

\* A set of naturals has a smallest element, and Min finds it.
LEMMA MinOfSet ==
    ASSUME NEW S \in SUBSET Nat, S # {}
    PROVE  Min(S) \in S /\ \A y \in S : Min(S) <= y
<1> DEFINE R == OpToRel(<, Nat)
<1>1. \A x, y \in Nat : <<y, x>> \in R <=> y < x
  BY DEF OpToRel
<1>2. IsWellFoundedOn(R, Nat)
  BY NatLessThanWellFounded
<1> HIDE DEF R
<1>3. PICK x \in S : \A y \in S : ~ (<<y, x>> \in R)
  BY <1>2, WFMin
<1>4. \A y \in S : x <= y
  <2> TAKE y \in S
  <2>1. x \in Nat /\ y \in Nat
    OBVIOUS
  <2>2. ~ (y < x)
    BY <1>1, <1>3, <2>1
  <2>3. QED
    BY <2>1, <2>2, SMTT(30)
<1>5. QED
  BY <1>4 DEF Min

\* Where a request meets the log: the entries before the first one that the log
\* lacks are there, and what is committed lies before it.
LEMMA CutFacts ==
    ASSUME NEW l \in Log, LogMatches(l), NEW prev \in Indexes, NEW last \in Indexes,
           l.base <= prev, Agrees(l, prev), missing(l, prev, last) # {},
           NEW cut, cut = Min(missing(l, prev, last)) - 1
    PROVE  /\ cut \in Indexes /\ l.base <= cut /\ cut < last /\ Agrees(l, cut)
           /\ \A k \in Indexes : Agrees(l, k) => k <= cut
<1> DEFINE M == missing(l, prev, last)
           m == Min(M)
<1>1. prev \in Nat /\ last \in Nat /\ Len(History) \in Nat /\ last <= Len(History)
  BY HistoryFacts, SMTT(30) DEF Indexes
<1>2. M \in SUBSET Nat
  BY <1>1, SMTT(30) DEF missing
<1>3. m \in M /\ \A y \in M : m <= y
  BY <1>2, MinOfSet
<1>4. m \in (prev + 1)..last /\ (m > LastIndex(l) \/ TermAt(l, m) # History[m])
  BY <1>3 DEF missing
<1>5. \A n \in (prev + 1)..last : n \notin M => n <= LastIndex(l) /\ TermAt(l, n) = History[n]
  <2> TAKE n \in (prev + 1)..last
  <2>1. n \in Nat /\ LastIndex(l) \in Nat
    BY <1>1, LogFacts, SMTT(30)
  <2>2. QED
    BY <2>1, SMTT(30) DEF missing
<1> HIDE DEF M, m
<1>6. m \in Nat /\ m >= prev + 1 /\ m <= last /\ m \in Indexes /\ cut = m - 1 /\ m # 0
  BY <1>1, <1>4, SMTT(30) DEF M, m, Indexes
<1>7. l.base \in Nat /\ LastIndex(l) \in Nat
  BY LogFacts
<1>8. cut \in Indexes /\ l.base <= cut /\ cut < last /\ cut >= prev
  BY <1>1, <1>6, <1>7, SMTT(30) DEF Indexes
<1>9. Agrees(l, cut)
  <2>1. CASE cut = prev
    BY <2>1
  <2>2. CASE cut # prev
    <3>1. cut \in (prev + 1)..last
      BY <1>1, <1>6, <1>8, <2>2, SMTT(30)
    <3>2. cut \notin M
      BY <1>3, <1>6, <3>1, <1>1, SMTT(30)
    <3>3. cut <= LastIndex(l) /\ TermAt(l, cut) = History[cut]
      BY <1>5, <3>1, <3>2
    <3>4. cut # 0
      BY <1>1, <3>1, SMTT(30)
    <3>5. QED
      BY <1>8, <3>3, <3>4, HistoryFacts DEF Agrees
  <2>3. QED
    BY <2>1, <2>2
<1>10. ~ Agrees(l, m)
  <2>1. HistoryTerm(m) = History[m] /\ m >= l.base
    BY <1>1, <1>6, <1>7, HistoryFacts, SMTT(30)
  <2>2. QED
    BY <1>4, <1>6, <1>7, <2>1, SMTT(30) DEF Agrees
<1>11. \A k \in Indexes : Agrees(l, k) => k <= cut
  <2> TAKE k \in Indexes
  <2> HAVE Agrees(l, k)
  <2>1. k \in Nat
    BY HistoryFacts
  <2>2. ~ (m <= k)
    BY <1>6, <1>10 DEF LogMatches
  <2>3. QED
    BY <1>6, <2>1, <2>2, SMTT(30)
<1>12. QED
  BY <1>8, <1>9, <1>11

\* processAppendEntries on a request that fits at prev: the log holds the request
\* and everything committed that it held before.
LEMMA MergeMatches ==
    ASSUME NEW l \in Log, LogMatches(l), NEW prev \in Indexes, NEW last \in Indexes,
           prev <= last, l.base <= prev, Agrees(l, prev),
           NEW r, r = merged(l, prev, last)
    PROVE  /\ r \in Log /\ r.base = l.base /\ LogMatches(r) /\ Agrees(r, last)
           /\ \A k \in Indexes : Agrees(l, k) => Agrees(r, k)
<1>1. /\ prev \in Nat /\ last \in Nat /\ l.base \in Nat /\ LastIndex(l) \in Nat
  BY HistoryFacts, LogFacts
<1>2. CASE missing(l, prev, last) = {}
  <2>1. r = l
    BY <1>2 DEF merged
  <2>2. Agrees(l, last)
    <3>1. CASE last = prev
      BY <3>1
    <3>2. CASE last # prev
      <4>1. last \in (prev + 1)..last /\ last # 0
        BY <1>1, <3>2, SMTT(30)
      <4>2. last <= LastIndex(l) /\ TermAt(l, last) = History[last]
        BY <1>1, <1>2, <4>1, SMTT(30) DEF missing
      <4>3. QED
        BY <4>1, <4>2, HistoryFacts DEF Agrees
    <3>3. QED
      BY <3>1, <3>2
  <2>3. QED
    BY <2>1, <2>2
<1>3. CASE missing(l, prev, last) # {}
  <2>1. PICK cut : cut = Min(missing(l, prev, last)) - 1
    OBVIOUS
  <2>2. /\ cut \in Indexes /\ l.base <= cut /\ cut < last /\ Agrees(l, cut)
        /\ \A k \in Indexes : Agrees(l, k) => k <= cut
    BY <1>3, <2>1, CutFacts
  <2>3. PICK c : c = truncated(l, cut)
    OBVIOUS
  <2>4. /\ c \in Log /\ c.base = l.base /\ LogMatches(c)
        /\ \A k \in Indexes : k <= cut => Agrees(c, k)
    BY <2>2, <2>3, TruncateMatches
  <2>5. LastIndex(c) = cut /\ cut \in Nat
    BY <2>2, <2>3, TruncateFacts, HistoryFacts DEF Agrees
  <2>6. r = Extended(c, cut, last)
    <3>1. r = [l EXCEPT !.entries = c.entries \o SubSeq(History, cut + 1, last)]
      BY <1>3, <2>1, <2>3 DEF merged
    <3>2. c = [l EXCEPT !.entries = SubSeq(@, 1, cut - l.base)]
      BY <2>3 DEF truncated
    <3>3. QED
      BY <3>1, <3>2 DEF Log, Extended
  <2>7. /\ r \in Log /\ r.base = l.base /\ r.baseTerm = c.baseTerm /\ LastIndex(r) = last
        /\ \A k \in Nat : l.base <= k /\ k <= cut => TermAt(r, k) = TermAt(c, k)
        /\ \A k \in Nat : cut < k /\ k <= last => TermAt(r, k) = History[k]
    BY <2>2, <2>4, <2>5, <2>6, AppendFacts, SMTT(30)
  <2>8. \A k \in Indexes : k <= last => Agrees(r, k)
    <3> TAKE k \in Indexes
    <3> HAVE k <= last
    <3>1. k \in Nat
      BY HistoryFacts
    <3>2. CASE k <= cut
      <4>1. Agrees(c, k)
        BY <2>4, <3>2
      <4>2. QED
        BY <1>1, <2>4, <2>7, <3>1, <3>2, <4>1 DEF Agrees
    <3>3. CASE ~ (k <= cut)
      <4>1. k > cut /\ k # 0
        BY <2>5, <3>1, <3>3, SMTT(30)
      <4>2. TermAt(r, k) = History[k]
        BY <2>7, <3>1, <4>1
      <4>3. QED
        BY <2>7, <4>1, <4>2, HistoryFacts DEF Agrees
    <3>4. QED
      BY <3>2, <3>3
  <2>9. r.baseTerm = HistoryTerm(r.base)
    BY <2>4, <2>7 DEF LogMatches
  <2>10. LogMatches(r)
    BY <2>7, <2>8, <2>9, AgreesEverywhere
  <2>11. \A k \in Indexes : Agrees(l, k) => Agrees(r, k)
    <3> TAKE k \in Indexes
    <3> HAVE Agrees(l, k)
    <3>1. k <= last
      BY <1>1, <2>2, <2>5, HistoryFacts, SMTT(30)
    <3>2. QED
      BY <2>8, <3>1
  <2>12. QED
    BY <1>1, <2>7, <2>8, <2>10, <2>11, SMTT(30)
<1>4. QED
  BY <1>2, <1>3

-----------------------------------------------------------------------------
\* A request of the leader changes the log behind what is committed.
LEMMA AppendEntriesLog ==
    ASSUME TypeOK, SnapshotInv, CommitsAreCommitted,
           NEW prev \in Indexes, NEW last \in Indexes, NEW commit \in Indexes,
           prev <= last, processAppendEntries(prev, last, commit)
    PROVE  /\ log' \in Log /\ log'.base = log.base /\ LogMatches(log')
           /\ \A k \in Indexes : Agrees(log, k) => Agrees(log', k)
           /\ commitIndex' \in Indexes /\ commitIndex <= commitIndex' /\ Agrees(log', commitIndex')
<1>1. /\ log \in Log /\ commitIndex \in Indexes /\ LogMatches(log) /\ Agrees(log, commitIndex)
      /\ commitIndex \in Nat /\ prev \in Nat /\ last \in Nat /\ commit \in Nat /\ 0 \in Indexes
  BY HistoryFacts, SMTT(30) DEF TypeOK, SnapshotInv, LogInv, Indexes
<1>2. log.base <= prev /\ Agrees(log, prev)
  <2>1. CASE prev = 0
    <3>1. log.base = 0
      BY <2>1 DEF processAppendEntries
    <3>2. 0 <= commitIndex
      BY <1>1, SMTT(30)
    <3>3. Agrees(log, 0)
      BY <1>1, <3>2 DEF LogMatches
    <3>4. QED
      BY <2>1, <3>1, <3>3, SMTT(30)
  <2>2. CASE prev # 0
    <3>1. log.base <= prev /\ prev <= LastIndex(log) /\ TermAt(log, prev) = History[prev]
      BY <1>1, <2>2, LogFacts DEF processAppendEntries
    <3>2. QED
      BY <2>2, <3>1, HistoryFacts DEF Agrees
  <2>3. QED
    BY <2>1, <2>2
<1>3. CASE log' = merged(log, prev, last)
           /\ IF commit > commitIndex
              THEN commitIndex' = Min({commit, LastIndex(log')})
              ELSE UNCHANGED commitIndex
  <2>1. /\ log' \in Log /\ log'.base = log.base /\ LogMatches(log') /\ Agrees(log', last)
        /\ \A k \in Indexes : Agrees(log, k) => Agrees(log', k)
    BY <1>1, <1>2, <1>3, MergeMatches
  <2>2. LastIndex(log') \in Nat /\ commitIndex <= LastIndex(log') /\ Agrees(log', commitIndex)
    BY <1>1, <2>1, LogFacts DEF Agrees
  <2>3. CASE commit > commitIndex
    <3>1. commitIndex' = IF commit <= LastIndex(log') THEN commit ELSE LastIndex(log')
      <4>1. commit \in Int /\ LastIndex(log') \in Int
        BY <1>1, <2>2, SMTT(30)
      <4>2. QED
        BY <1>3, <2>3, <4>1, MinOfTwo
    <3>2. commitIndex' \in Indexes /\ commitIndex <= commitIndex'
      BY <1>1, <2>2, <2>3, <3>1, HistoryFacts, SMTT(30) DEF Indexes
    <3>3. commitIndex' = commitIndex \/ commitIndex' > commitIndex
      BY <1>1, <3>2, HistoryFacts, SMTT(30)
    <3>4. Agrees(log', commitIndex')
      BY <2>2, <3>3 DEF CommitsAreCommitted
    <3>5. QED
      BY <2>1, <3>2, <3>4
  <2>4. CASE ~ (commit > commitIndex)
    BY <1>1, <1>3, <2>1, <2>2, <2>4, SMTT(30)
  <2>5. QED
    BY <2>3, <2>4
<1>4. CASE /\ missing(log, prev, last) # {}
           /\ log' \in {log, truncated(log, Min(missing(log, prev, last)) - 1)}
           /\ UNCHANGED commitIndex
  <2>1. PICK cut : cut = Min(missing(log, prev, last)) - 1
    OBVIOUS
  <2>2. /\ cut \in Indexes /\ log.base <= cut /\ Agrees(log, cut)
        /\ \A k \in Indexes : Agrees(log, k) => k <= cut
    BY <1>1, <1>2, <1>4, <2>1, CutFacts
  <2>3. PICK c : c = truncated(log, cut)
    OBVIOUS
  <2>4. /\ c \in Log /\ c.base = log.base /\ LogMatches(c)
        /\ \A k \in Indexes : k <= cut => Agrees(c, k)
    BY <1>1, <2>2, <2>3, TruncateMatches
  <2>5. log' \in {log, c}
    BY <1>4, <2>1, <2>3
  <2>6. QED
    BY <1>1, <1>4, <2>2, <2>4, <2>5, SMTT(30)
<1>5. QED
  BY <1>3, <1>4 DEF processAppendEntries

LEMMA AppendEntriesStep ==
    ASSUME TypeOK, SnapshotInv, CommitsAreCommitted, InstallsAreAlone,
           NEW prev \in Indexes, NEW last \in Indexes, NEW commit \in Indexes,
           IsRequest(prev, last, commit), processAppendEntries(prev, last, commit)
    PROVE  TypeOK' /\ SnapshotInv'
<1>1. /\ log' \in Log /\ log'.base = log.base /\ LogMatches(log')
      /\ \A k \in Indexes : Agrees(log, k) => Agrees(log', k)
      /\ commitIndex' \in Indexes /\ commitIndex <= commitIndex' /\ Agrees(log', commitIndex')
  BY AppendEntriesLog DEF IsRequest
<1>2. UNCHANGED <<machineVars, snapVars, netVars, up, bounds>>
  BY DEF processAppendEntries
<1>3. commitCh' \in BOOLEAN /\ fatal' \in BOOLEAN
  BY DEF processAppendEntries, TypeOK
<1>4. TypeOK'
  BY <1>1, <1>2, <1>3 DEF TypeOK, machineVars, snapVars, netVars, bounds
<1>5. LogInv'
  BY <1>1, <1>2, LogInvStep DEF SnapshotInv, netVars
<1>6. /\ commitIndex \in Nat /\ commitIndex' \in Nat /\ lastApplied \in Nat /\ meta.index \in Nat
      /\ applying.index \in Nat
  BY <1>1, HistoryFacts DEF TypeOK, Artifact
<1>7. ApplyInv'
  BY <1>1, <1>2, <1>6, SMTT(30) DEF SnapshotInv, ApplyInv, machineVars, snapVars
<1>8. installing.pc # "idle" => installing.snap.index >= commitIndex'
  BY <1>1, <1>6, InstallingNumber, SMTT(30) DEF InstallsAreAlone, SnapshotInv, InstallInv
<1>9. InstallInv'
  BY <1>1, <1>2, <1>8 DEF SnapshotInv, InstallInv, machineVars, snapVars
<1>10. QED
  BY <1>4, <1>5, <1>7, <1>9 DEF SnapshotInv

\* RestoreSnapshotBoundary moves the boundary past the commit index and keeps
\* whatever the log held that is committed.
LEMMA InstallBoundaryStep ==
    ASSUME TypeOK, SnapshotInv, InstallsAreAlone, installBoundary
    PROVE  TypeOK' /\ SnapshotInv'
<1> DEFINE n == installing.snap.index
<1>1. UNCHANGED <<commitIndex, commitCh, machineVars, meta, artifact, partial, triggered, taking,
                  waiting, netVars, up, bounds>> /\ installing.pc = "boundary"
  BY DEF installBoundary
<1>2. /\ installing.snap = SnapshotAt(n) /\ n >= commitIndex /\ artifact = installing.snap
      /\ log.base <= lastApplied /\ lastApplied <= commitIndex /\ taking.pc = "idle"
  BY <1>1 DEF SnapshotInv, InstallInv, ApplyInv, TypeOK
<1>3. n \in Indexes /\ log.base <= n
  BY <1>2, Counters, BaseNumber, InstallingNumber, SMTT(30)
<1>4. log \in Log /\ LogMatches(log) /\ Agrees(log, commitIndex)
  BY DEF TypeOK, SnapshotInv, LogInv
<1>5. \/ /\ log' = restored(log, SnapshotAt(n)) /\ fatal' = fatal
         /\ installing' = [installing EXCEPT !.pc = "restore"]
      \/ log' = log /\ fatal' = TRUE /\ installing' = Idle
  BY <1>2 DEF installBoundary
<1>6. NoSnapshot \in Artifact
  BY SnapshotAtType, SMTT(30) DEF NoSnapshot, Indexes
<1>7. /\ installing' \in [pc: {"idle", "persist", "boundary", "restore"}, snap: Artifact]
      /\ fatal' \in BOOLEAN
  <2>1. installing' = [installing EXCEPT !.pc = "restore"] \/ installing' = Idle
    BY <1>5
  <2>2. installing' \in [pc: {"idle", "persist", "boundary", "restore"}, snap: Artifact]
    BY <1>6, <2>1, SMTT(30) DEF TypeOK, Idle
  <2>3. fatal' \in BOOLEAN
    BY <1>5 DEF TypeOK
  <2>4. QED
    BY <2>2, <2>3
<1>8. /\ log' \in Log /\ LogMatches(log') /\ \A k \in Indexes : Agrees(log, k) => Agrees(log', k)
      /\ log' # log => log'.base = n
  BY <1>3, <1>4, <1>5, RestoreMatches, SMTT(30)
<1>9. TypeOK'
  BY <1>1, <1>7, <1>8 DEF TypeOK, machineVars, netVars, bounds
<1>10. LogInv'
  <2>1. Agrees(log', commitIndex')
    BY <1>1, <1>4, <1>8 DEF TypeOK
  <2>2. QED
    BY <1>1, <1>8, <2>1, LogInvStep DEF SnapshotInv, netVars
<1>11. ApplyInv'
  BY <1>1 DEF SnapshotInv, ApplyInv, machineVars
<1>12. InstallInv'
  <2>1. CASE log' = restored(log, SnapshotAt(n)) /\ installing' = [installing EXCEPT !.pc = "restore"]
    <3>1. log'.base = n
      BY <1>3, <1>4, <2>1, RestoreMatches
    <3>2. installing'.pc = "restore" /\ installing'.snap = installing.snap
      BY <2>1 DEF TypeOK
    <3>3. n <= n
      BY InstallingNumber, SMTT(30)
    <3>4. applying'.pc = "idle"
      BY <3>2 DEF InstallsAreAlone
    <3>5. QED
      BY <1>1, <1>2, <3>1, <3>2, <3>3, <3>4 DEF SnapshotInv, InstallInv, machineVars
  <2>2. CASE log' = log /\ installing' = Idle
    BY <1>1, <1>2, <2>2 DEF SnapshotInv, InstallInv, machineVars, Idle
  <2>3. QED
    BY <1>5, <2>1, <2>2
<1>13. QED
  BY <1>9, <1>10, <1>11, <1>12 DEF SnapshotInv

\* The end of an installation: state machine, lastApplied and commitIndex move to
\* the snapshot together.
LEMMA InstallRestoreStep ==
    ASSUME TypeOK, SnapshotInv, RestoresSucceed, installRestore
    PROVE  TypeOK' /\ SnapshotInv' /\ lastApplied <= lastApplied'
<1> DEFINE n == installing.snap.index
<1>1. UNCHANGED <<log, applying, artifact, triggered, taking, waiting, chunks, matchIndex,
                  up, bounds>> /\ installing.pc = "restore" /\ installing' = Idle
  BY DEF installRestore
<1>2. /\ installing.snap = SnapshotAt(n) /\ n >= commitIndex /\ n > meta.index
      /\ artifact = installing.snap
      /\ log.base = n /\ lastApplied <= commitIndex /\ applying.pc = "idle" /\ taking.pc = "idle"
  BY <1>1 DEF SnapshotInv, InstallInv, ApplyInv, TypeOK
<1>3. n \in Indexes /\ n \in Nat /\ n # 0 /\ n >= lastApplied /\ Chunks \in Nat \ {0}
  <2>1. meta.index \in Nat
    BY HistoryFacts DEF TypeOK, Artifact
  <2>2. QED
    BY <1>2, <2>1, Counters, InstallingNumber, SnapshotAssumption, SMTT(30)
<1> DEFINE Done == /\ machine' = installing.snap.data /\ meta' = installing.snap
                   /\ commitIndex' = Max({commitIndex, n}) /\ lastApplied' = appliedAfter(installing.snap)
                   /\ commitCh' = (commitCh \/ Max({commitIndex, n}) > appliedAfter(installing.snap))
                   /\ partial' = [snap |-> 0, next |-> 1]
                   /\ acks' = acks \cup {[snap |-> n, chunk |-> Chunks]}
                   /\ fatal' = fatal
<1>3a. Done
  <2>1. Done \/ meta' = meta
    BY DEF installRestore
  <2>2. meta # installing.snap
    <3>1. meta.index \in Nat
      BY HistoryFacts DEF TypeOK, Artifact
    <3>2. meta.index # n
      BY <1>2, <1>3, <3>1, SMTT(30)
    <3>3. QED
      BY <3>2
  <2>3. meta' = installing.snap
    <3>1. installing'.pc = "idle" /\ restarts' = restarts
      BY <1>1, SMTT(30) DEF Idle, bounds
    <3>2. QED
      BY <1>1, <3>1 DEF RestoresSucceed
  <2>4. QED
    BY <2>1, <2>2, <2>3
<1>4. commitIndex' = n /\ lastApplied' = n
  <2>1. Max({commitIndex, n}) = n /\ Max({lastApplied, n}) = n
    BY <1>2, <1>3, Counters, MaxOfTwo, SMTT(30)
  <2>2. QED
    BY <1>3a, <2>1 DEF appliedAfter
<1>5. /\ machine' = Upto(n) /\ meta' = SnapshotAt(n) /\ meta'.index = n
  <2>1. machine' = installing.snap.data /\ meta' = installing.snap
    BY <1>3a
  <2>2. SnapshotAt(n).index = n /\ SnapshotAt(n).data = Upto(n)
    BY DEF SnapshotAt
  <2>3. QED
    BY <1>2, <2>1, <2>2
<1>6. /\ machine' \in Seq(Indexes \X Nat) /\ meta' \in Artifact /\ NoSnapshot \in Artifact
      /\ Idle.pc = "idle"
  BY <1>3, <1>5, UptoFacts, SnapshotAtType, SMTT(30) DEF NoSnapshot, Indexes, Idle
<1>7. /\ partial' \in [snap: Indexes, next: 1..(Chunks + 1)]
      /\ commitCh' \in BOOLEAN /\ fatal' \in BOOLEAN
  <2>1. partial' = [snap |-> 0, next |-> 1] /\ 0 \in Indexes
    BY <1>3a, HistoryFacts, SMTT(30) DEF Indexes
  <2>2. 1 \in 1..(Chunks + 1)
    BY <1>3, SMTT(30)
  <2>3. partial' \in [snap: Indexes, next: 1..(Chunks + 1)]
    BY <2>1, <2>2, SMTT(30)
  <2>4. fatal \in BOOLEAN /\ commitCh \in BOOLEAN
    BY DEF TypeOK
  <2>5. commitCh' \in BOOLEAN /\ fatal' \in BOOLEAN
    <3>1. PICK b \in BOOLEAN : commitCh' = (commitCh \/ b)
      BY <1>3a
    <3>2. QED
      BY <1>3a, <2>4, <3>1
  <2>6. QED
    BY <2>3, <2>5
<1>8. /\ acks' = acks \cup {[snap |-> n, chunk |-> Chunks]} /\ acks' \subseteq Chunk
  <2>1. acks' = acks \cup {[snap |-> n, chunk |-> Chunks]}
    BY <1>3a
  <2>2. QED
    BY <1>3, <2>1, SMTT(30) DEF Chunk, TypeOK
<1>9. installing' \in [pc: {"idle", "persist", "boundary", "restore"}, snap: Artifact]
  BY <1>1, <1>6 DEF Idle
<1>10. TypeOK'
  BY <1>1, <1>3, <1>4, <1>6, <1>7, <1>8, <1>9 DEF TypeOK, bounds
<1>11. Agrees(log, n)
  <2>1. log \in Log /\ log.baseTerm = HistoryTerm(n)
    BY <1>2 DEF TypeOK, SnapshotInv, LogInv, LogMatches
  <2>2. QED
    BY <1>2, <2>1, LogFacts DEF Agrees
<1>12. LogInv'
  <2>1. LogInv /\ log' = log /\ matchIndex' = matchIndex
    BY <1>1 DEF SnapshotInv
  <2>2. \A c \in acks' : c \in acks \/ c.snap = n
    BY <1>8, SMTT(30)
  <2>3. QED
    BY <1>4, <1>11, <2>1, <2>2 DEF LogInv
<1>13. n <= n
  BY <1>3, SMTT(30)
<1>14. ApplyInv'
  BY <1>1, <1>2, <1>4, <1>5, <1>13 DEF SnapshotInv, ApplyInv
<1>15. InstallInv'
  BY <1>1, <1>2, <1>4, <1>6, <1>13 DEF SnapshotInv, InstallInv
<1>16. lastApplied <= lastApplied'
  BY <1>3, <1>4, Counters, SMTT(30)
<1>17. QED
  BY <1>10, <1>12, <1>14, <1>15, <1>16 DEF SnapshotInv

-----------------------------------------------------------------------------
\* The leader's side: chunks that are sent, acknowledged or lost.
LEMMA LeaderStep ==
    ASSUME TypeOK, SnapshotInv, InstallsAreAlone,
           \/ \E n \in Indexes \ {0} : sendSnapshot(n)
           \/ \E c \in acks : handleAck(c)
           \/ \E c \in chunks \cup waiting \cup acks : chunkFails(c)
    PROVE  TypeOK' /\ SnapshotInv'
<1>1. /\ UNCHANGED <<logVars, machineVars, meta, artifact, partial, triggered, taking, installing,
                     up, restarts>>
      /\ acks' \subseteq acks /\ waiting' \subseteq waiting
  BY DEF sendSnapshot, handleAck, chunkFails, snapVars, bounds
<1>2. Chunks \in Nat \ {0} /\ MaxCalls \in Nat
  BY SnapshotAssumption
<1>3. chunks' \subseteq Chunk /\ calls' \in 0..MaxCalls
  <2>1. CASE \E n \in Indexes \ {0} : sendSnapshot(n)
    BY <1>2, <2>1, SMTT(30) DEF sendSnapshot, TypeOK, Chunk
  <2>2. CASE \E c \in acks : handleAck(c)
    <3>1. PICK c \in acks : handleAck(c)
      BY <2>2
    <3>2. c \in Chunk /\ (c.chunk < Chunks => [c EXCEPT !.chunk = @ + 1] \in Chunk)
      BY <1>2, SMTT(30) DEF TypeOK, Chunk
    <3>3. QED
      BY <3>1, <3>2 DEF handleAck, TypeOK, bounds
  <2>3. CASE \E c \in chunks \cup waiting \cup acks : chunkFails(c)
    BY <2>3 DEF chunkFails, TypeOK, bounds
  <2>4. QED
    BY <2>1, <2>2, <2>3
<1>4. matchIndex' \in Indexes /\ Agrees(log, matchIndex')
  <2>1. CASE matchIndex' = matchIndex
    BY <2>1 DEF TypeOK, SnapshotInv, LogInv
  <2>2. CASE \E c \in acks : c.chunk = Chunks /\ matchIndex' = Max({matchIndex, c.snap})
    <3>1. PICK c \in acks : c.chunk = Chunks /\ matchIndex' = Max({matchIndex, c.snap})
      BY <2>2
    <3>2. c.snap \in Indexes /\ Agrees(log, c.snap)
      BY <3>1 DEF TypeOK, Chunk, SnapshotInv, LogInv
    <3>3. Max({matchIndex, c.snap}) \in {matchIndex, c.snap}
      <4>1. c.snap \in Int /\ matchIndex \in Int
        BY <3>2, Counters, HistoryFacts, SMTT(30)
      <4>2. QED
        BY <4>1, MaxOfTwo
    <3>4. QED
      BY <3>1, <3>2, <3>3 DEF TypeOK, SnapshotInv, LogInv
  <2>3. QED
    BY <2>1, <2>2 DEF sendSnapshot, handleAck, chunkFails
<1>5. TypeOK'
  BY <1>1, <1>3, <1>4, SMTT(30) DEF TypeOK, logVars, machineVars
<1>6. LogInv'
  BY <1>1, <1>4 DEF SnapshotInv, LogInv, logVars
<1>7. ApplyInv'
  BY <1>1 DEF SnapshotInv, ApplyInv, logVars, machineVars
<1>8. InstallInv'
  BY <1>1 DEF SnapshotInv, InstallInv, logVars, machineVars
<1>9. QED
  BY <1>5, <1>6, <1>7, <1>8 DEF SnapshotInv

\* The snapshot file always fits the log.
LEMMA FilesFit ==
    ASSUME TypeOK, SnapshotInv
    PROVE  canRestore(log, artifact)
<1>1. /\ artifact = SnapshotAt(artifact.index) /\ log.base <= artifact.index
      /\ log.baseTerm = HistoryTerm(log.base)
  BY DEF SnapshotInv, InstallInv, LogInv, LogMatches
<1>2. artifact.term = HistoryTerm(artifact.index)
  BY <1>1, SMTT(30) DEF SnapshotAt
<1>3. QED
  BY <1>1, <1>2, BaseNumber, ArtifactNumber DEF canRestore

\* NewRaftNode and loadSnapshotFromDisk after a crash at any point.
LEMMA RestartStep ==
    ASSUME TypeOK, SnapshotInv, InstallsAreAlone, restart
    PROVE  TypeOK' /\ SnapshotInv'
<1> DEFINE n == artifact.index
<1>1. /\ artifact = SnapshotAt(n) /\ log.base <= n /\ n \in Indexes /\ n \in Nat
      /\ log \in Log /\ LogMatches(log) /\ Agrees(log, 0) /\ log.base \in Nat
  <2>1. 0 \in Indexes /\ 0 <= commitIndex
    BY Counters, HistoryFacts, SMTT(30) DEF Indexes
  <2>2. Agrees(log, 0)
    BY <2>1, CommittedIsStored
  <2>3. QED
    BY <2>2, BaseNumber, ArtifactNumber DEF TypeOK, SnapshotInv, InstallInv, LogInv
<1>2. up' = TRUE
  BY FilesFit DEF restart
<1>3. log' = IF n > 0 THEN restored(log, SnapshotAt(n)) ELSE log
  BY <1>1, <1>2 DEF restart
<1>4. /\ log' \in Log /\ LogMatches(log') /\ log'.base = n /\ Agrees(log', n)
      /\ \A k \in Indexes : Agrees(log, k) => Agrees(log', k)
  <2>1. CASE n > 0
    BY <1>1, <1>3, <2>1, RestoreMatches
  <2>2. CASE ~ (n > 0)
    <3>1. n = 0 /\ log.base = 0
      BY <1>1, <2>2, SMTT(30)
    <3>2. QED
      <4>1. log' = log
        BY <1>3, <2>2
      <4>2. QED
        BY <1>1, <3>1, <4>1
  <2>3. QED
    BY <2>1, <2>2
<1>5. /\ machine' = Upto(n) /\ meta' = artifact /\ commitIndex' = n /\ lastApplied' = n
      /\ artifact' = artifact /\ commitCh' = FALSE /\ fatal' = FALSE /\ triggered' = 0
      /\ taking' = Idle /\ installing' = Idle /\ waiting' = {}
      /\ UNCHANGED <<netVars, calls>>
  BY <1>1, SMTT(30) DEF restart, SnapshotAt
<1>6. /\ machine' \in Seq(Indexes \X Nat) /\ 0 \in Indexes /\ Chunks \in Nat \ {0}
      /\ Idle.pc = "idle" /\ NoSnapshot \in Artifact
  BY <1>1, <1>5, UptoFacts, SnapshotAtType, SnapshotAssumption, SMTT(30) DEF NoSnapshot, Indexes, Idle
<1>7. /\ applying' \in [pc: {"idle", "loop", "apply"}, index: Indexes, term: Nat]
      /\ applying'.pc = "idle" /\ partial' \in [snap: Indexes, next: 1..(Chunks + 1)]
  BY <1>6, SMTT(30) DEF restart
<1>8. restarts' \in 0..MaxRestarts
  BY SnapshotAssumption, SMTT(30) DEF restart, TypeOK
<1>9. /\ taking' \in [pc: {"idle", "persist", "publish", "compact"}, snap: Artifact]
      /\ installing' \in [pc: {"idle", "persist", "boundary", "restore"}, snap: Artifact]
  BY <1>5, <1>6 DEF Idle
<1>10. TypeOK'
  BY <1>1, <1>2, <1>4, <1>5, <1>6, <1>7, <1>8, <1>9 DEF TypeOK, netVars
<1>11. LogInv'
  <2>1. Agrees(log', commitIndex') /\ matchIndex' = matchIndex /\ acks' = acks
    BY <1>4, <1>5 DEF netVars
  <2>2. QED
    BY <1>4, <2>1, LogInvStep DEF SnapshotInv
<1>12. n <= n
  BY <1>1, SMTT(30)
<1>13. ApplyInv'
  BY <1>2, <1>5, <1>7, <1>12 DEF ApplyInv
<1>14. InstallInv'
  BY <1>1, <1>4, <1>5, <1>6, <1>12 DEF InstallInv
<1>15. QED
  BY <1>10, <1>11, <1>13, <1>14 DEF SnapshotInv

-----------------------------------------------------------------------------
LEMMA SnapshotInvStep ==
    TypeOK /\ SnapshotInv /\ [AloneNext]_vars => TypeOK' /\ SnapshotInv'
<1> SUFFICES ASSUME TypeOK, SnapshotInv, [AloneNext]_vars
             PROVE  TypeOK' /\ SnapshotInv'
  OBVIOUS
<1>1. CASE UNCHANGED vars
  <2>1. UNCHANGED <<logVars, machineVars, snapVars, netVars, up, bounds>>
    BY <1>1 DEF vars
  <2>2. TypeOK'
    BY <2>1 DEF TypeOK, logVars, machineVars, snapVars, netVars, bounds
  <2>3. LogInv'
    BY <2>1 DEF SnapshotInv, LogInv, logVars, netVars
  <2>4. ApplyInv'
    BY <2>1 DEF SnapshotInv, ApplyInv, logVars, machineVars, snapVars
  <2>5. InstallInv'
    BY <2>1 DEF SnapshotInv, InstallInv, logVars, machineVars, snapVars
  <2>6. QED
    BY <2>2, <2>3, <2>4, <2>5 DEF SnapshotInv
<1>2. CASE AloneNext
  <2>0. Next /\ CommitsAreCommitted /\ RestoresSucceed /\ InstallsAreAlone
    BY <1>2 DEF AloneNext
  <2> USE <2>0
  <2>1. CASE \E prev, last, commit \in Indexes :
               IsRequest(prev, last, commit) /\ processAppendEntries(prev, last, commit)
    BY <2>1, AppendEntriesStep
  <2>2. CASE applyWake
    BY <2>2, ApplyWakeStep
  <2>3. CASE applyNext
    BY <2>3, ApplyNextStep
  <2>4. CASE applyEntry
    BY <2>4, ApplyEntryStep
  <2>5. CASE takeSnapshot
    BY <2>5, TakeSnapshotStep
  <2>6. CASE takePersist
    BY <2>6, TakePersistStep
  <2>7. CASE takePublish
    BY <2>7, TakePublishStep
  <2>8. CASE takeCompact
    BY <2>8, TakeCompactStep
  <2>9. CASE \E c \in chunks : handleInstallSnapshot(c)
    BY <2>9, HandleInstallStep
  <2>10. CASE \E c \in waiting : installChunk(c)
    BY <2>10, InstallChunkStep
  <2>11. CASE installPersist
    BY <2>11, InstallPersistStep
  <2>12. CASE installBoundary
    BY <2>12, InstallBoundaryStep
  <2>13. CASE installRestore
    BY <2>13, InstallRestoreStep
  <2>14. CASE \/ \E n \in Indexes \ {0} : sendSnapshot(n)
              \/ \E c \in acks : handleAck(c)
              \/ \E c \in chunks \cup waiting \cup acks : chunkFails(c)
    BY <2>14, LeaderStep
  <2>15. CASE restart
    BY <2>15, RestartStep
  <2>16. QED
    BY <2>1, <2>2, <2>3, <2>4, <2>5, <2>6, <2>7, <2>8, <2>9, <2>10, <2>11, <2>12, <2>13,
       <2>14, <2>15 DEF Next
<1>3. QED
  BY <1>1, <1>2

\* In the behaviours of AloneSpec log, state machine, snapshot file and boundary stay
\* consistent through every step of the apply loop, takeSnapshot,
\* handleInstallSnapshot and a restart: the inductive invariant.
THEOREM SnapshotInvariant == AloneSpec => [](TypeOK /\ SnapshotInv)
<1>1. Init => TypeOK /\ SnapshotInv
  BY InitInv
<1>2. TypeOK /\ SnapshotInv /\ [AloneNext]_vars => (TypeOK /\ SnapshotInv)'
  BY SnapshotInvStep
<1>3. QED
  BY <1>1, <1>2, PTL DEF AloneSpec

\* The state machine is the committed prefix up to lastApplied, each entry once and
\* in order, for every history, if applyEntriesLoop and finalizeInstalledSnapshot do
\* not meet (AloneSpec).
THEOREM MachineIsCommittedPrefix == AloneSpec => []MachineIsPrefix
<1>1. SnapshotInv => MachineIsPrefix
  BY DEF SnapshotInv, ApplyInv, MachineIsPrefix
<1>2. QED
  BY <1>1, SnapshotInvariant, PTL

\* A crash between any two steps of takeSnapshot or of an installation, or a write
\* that fails there, leaves files from which loadSnapshotFromDisk recovers
\* everything that was compacted, in the behaviours of AloneSpec.
THEOREM RestartIsSafe == AloneSpec => []RestartLosesNothing
<1>1. TypeOK /\ SnapshotInv => RestartLosesNothing
  BY FilesFit DEF SnapshotInv, InstallInv, RestartLosesNothing
<1>2. QED
  BY <1>1, SnapshotInvariant, PTL

\* What sendSnapshot has booked in matchIndex is in the node's log or snapshot, in
\* spite of chunks that are lost, repeated or skipped, and of restarts, in the
\* behaviours of AloneSpec.
THEOREM AcknowledgedIsStored == AloneSpec => []AckedIsStored
<1>1. TypeOK /\ SnapshotInv => AckedIsStored
  <2> SUFFICES ASSUME TypeOK, SnapshotInv PROVE AckedIsStored
    OBVIOUS
  <2>1. Agrees(log, matchIndex) /\ matchIndex \in Indexes /\ LogMatches(log)
    BY DEF TypeOK, SnapshotInv, LogInv
  <2>2. ASSUME NEW n \in log.base..matchIndex, n > 0
        PROVE  TermAt(log, n) = History[n]
    <3>1. n \in Indexes /\ n <= matchIndex /\ n >= log.base /\ n # 0
      BY <2>1, <2>2, Counters, BaseNumber, HistoryFacts, SMTT(30) DEF Indexes
    <3>2. Agrees(log, n)
      BY <2>1, <3>1 DEF LogMatches
    <3>3. QED
      BY <3>1, <3>2, HistoryFacts DEF Agrees
  <2>3. QED
    BY <2>1, <2>2 DEF AckedIsStored, Agrees
<1>2. QED
  BY <1>1, SnapshotInvariant, PTL

\* lastApplied falls only at a restart.
LEMMA AppliedGrows ==
    ASSUME TypeOK, SnapshotInv, [AloneNext]_vars, restarts' = restarts
    PROVE  lastApplied <= lastApplied'
<1>1. lastApplied \in Nat
  BY Counters
<1>2. CASE lastApplied' = lastApplied
  BY <1>1, <1>2, SMTT(30)
<1>3. CASE applyEntry
  BY <1>1, <1>3, SMTT(30) DEF applyEntry, SnapshotInv, ApplyInv
<1>4. CASE installRestore /\ RestoresSucceed
  BY <1>4, InstallRestoreStep
<1>5. ~ restart
  <2>1. restarts \in Nat
    BY SnapshotAssumption, SMTT(30) DEF TypeOK
  <2>2. QED
    BY <2>1, SMTT(30) DEF restart
<1>6. QED
  <2>1. CASE UNCHANGED vars
    BY <1>2, <2>1 DEF vars, machineVars
  <2>2. CASE AloneNext
    <3>1. \/ UNCHANGED machineVars \/ UNCHANGED lastApplied \/ applyEntry \/ installRestore
          \/ restart
      BY <2>2 DEF AloneNext, Next, processAppendEntries, applyWake, applyNext, takeSnapshot, takePersist,
         takePublish, takeCompact, handleInstallSnapshot, installChunk, installPersist,
         installBoundary, sendSnapshot, handleAck, chunkFails
    <3>2. QED
      BY <1>2, <1>3, <1>4, <1>5, <2>2, <3>1 DEF machineVars, AloneNext
  <2>3. QED
    BY <2>1, <2>2

\* While the process runs, an applied entry stays applied, also when
\* finalizeInstalledSnapshot replaces the state machine, if nothing is committed past
\* the snapshot meanwhile (AloneSpec).
THEOREM AppliedEntriesStay == AloneSpec => AppliedStays
<1> DEFINE Stays == restarts' = restarts => /\ Len(machine') >= Len(machine)
                                           /\ SubSeq(machine', 1, Len(machine)) = machine
<1>1. TypeOK /\ SnapshotInv /\ TypeOK' /\ SnapshotInv' /\ [AloneNext]_vars
         => [Stays]_vars
  <2> SUFFICES ASSUME TypeOK, SnapshotInv, TypeOK', SnapshotInv', [AloneNext]_vars,
                      restarts' = restarts
               PROVE  /\ Len(machine') >= Len(machine)
                      /\ SubSeq(machine', 1, Len(machine)) = machine
    OBVIOUS
  <2>1. lastApplied <= lastApplied'
    BY AppliedGrows
  <2>2. /\ lastApplied \in Indexes /\ lastApplied' \in Indexes
        /\ machine = Upto(lastApplied) /\ machine' = Upto(lastApplied')
    BY DEF TypeOK, SnapshotInv, ApplyInv
  <2>3. Len(machine) = lastApplied /\ Len(machine') = lastApplied'
    BY <2>2, UptoFacts
  <2>4. SubSeq(machine', 1, Len(machine)) = machine
    BY <2>1, <2>2, UptoPrefix
  <2>5. QED
    BY <2>1, <2>2, <2>3, <2>4, HistoryFacts
<1>2. QED
  BY <1>1, SnapshotInvariant, PTL DEF AloneSpec, AppliedStays
=============================================================================
