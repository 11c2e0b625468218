----------------------------- MODULE WALProofs -----------------------------
(***************************************************************************)
(* What the write-ahead log of WAL promises, for any terms, batches,       *)
(* failing calls and losses of power: the file that is found when the      *)
(* power fails can be read and holds the log from before or from after the *)
(* operation that was running, the file of a running node is its log, and  *)
(* no file is ever refused at a start.                                     *)
(***************************************************************************)
EXTENDS WAL, TLAPS

Entry == Nat \X Nat
Log == [base : Nat, baseTerm : Nat, known : BOOLEAN, entries : Seq(Entry)]
DiskFile ==
    [kind : {"none", "legacy", "v1"}, base : Nat, baseTerm : Nat, records : Seq(Entry),
     torn : BOOLEAN, synced : Nat, cut : Seq(Entry)]
Rewriting == {"temp", "syncTemp", "rename", "syncDir", "reopen"}
Running == {"opening", "snapshot", "up"}

Boundary == [index : Nat, term : Nat]
Operation ==
    [pc : {"idle", "write", "sync", "failed"} \cup Rewriting, target : Log,
     batch : Seq(Entry), start : Nat]

Types ==
    /\ mem \in Log
    /\ wal \in DiskFile
    /\ snap \in Boundary
    /\ op \in Operation
    /\ phase \in Running \cup {"down"}

\* A log that the restart after it accepts: its indexes are consecutive, and it
\* begins at or before the snapshot s, with the same term where they meet.
Sound(l, s) ==
    /\ l \in Log
    /\ validSequence(l.entries, l.base + 1)
    /\ l.base <= s.index
    /\ s.index = 0 => l.known
    /\ s.index = l.base /\ s.index > 0 /\ l.known => l.baseTerm = s.term

\* A file that is on the disk as it is.
Whole(f) == f \in DiskFile /\ f.synced = Len(f.records) /\ f.cut = <<>>

\* A file on the disk that holds log l.
Stores(f, l) == Whole(f) /\ ~f.torn /\ loaded(f) = l

\* The file that a rewriting with log l leaves.
Rewritten(l) == File("v1", l, Len(l.entries))

\* File f holds log l, which is on the disk, and n records of the batch, which are not.
Following(f, l, batch, n) ==
    /\ f \in DiskFile /\ f.kind = "v1" /\ f.base = l.base /\ f.baseTerm = l.baseTerm
    /\ f.synced = Len(l.entries)
    /\ f.records = l.entries \o SubSeq(batch, 1, n)

\* The same; the records that follow the log may have been cut off again.
HalfAppended(f, l, batch) ==
    \E n, m \in 0..Len(batch) : Following(f, l, batch, n) /\ f.cut = SubSeq(batch, 1, m)

Appending ==
    /\ phase = "up" /\ old = {} /\ op.batch # <<>>
    /\ op.start = Len(mem.entries)
    /\ op.target = [mem EXCEPT !.entries = @ \o op.batch]
    /\ validSequence(op.batch, LastIndex(mem) + 1)

\* Where the files are, at each step of the operation that holds the lock.
AtStep ==
    /\ op.pc \in {"idle", "temp", "syncTemp", "rename"} => Stores(wal, mem) /\ old = {}
    /\ op.pc = "idle" => (mem.known => wal.kind = "v1")
    /\ op.pc \in {"write", "sync"} =>
          /\ Appending /\ ~wal.torn /\ wal.cut = <<>>
          /\ \E n \in 0..Len(op.batch) :
                Following(wal, mem, op.batch, n) /\ (op.pc = "sync" <=> n = Len(op.batch))
    /\ op.pc = "syncTemp" => tmp = File("v1", op.target, 0)
    /\ op.pc = "rename" => tmp = Rewritten(op.target)
    /\ op.pc \in {"syncDir", "reopen"} =>
          wal = Rewritten(op.target) /\ \A f \in old : op.pc = "syncDir" /\ Stores(f, mem)
    /\ op.pc = "failed" =>
          /\ phase = "up"
          /\ \/ \A f \in {wal} \cup old : Stores(f, mem) \/ Stores(f, op.target)
             \/ Appending /\ HalfAppended(wal, mem, op.batch)

WALInv ==
    /\ Types
    /\ phase = "down" => op = Idle /\ old = {} /\ Whole(wal) /\ Sound(loaded(wal), snap)
    /\ phase \in Running => Sound(mem, snap) /\ AtStep
    /\ phase \in Running /\ op.pc # "idle" => Sound(op.target, snap) /\ op.target.known
    /\ phase = "opening" => op.pc \in Rewriting
    /\ phase = "snapshot" => op.pc \in Rewriting \cup {"idle"}
    /\ phase = "up" => mem.known

-----------------------------------------------------------------------------
(* Sequences.                                                              *)
USE ZenonT(30)

\* Two sequences with the same elements are the same.
LEMMA SameSequence ==
    ASSUME NEW S, NEW s \in Seq(S), NEW t \in Seq(S), Len(s) = Len(t),
           \A n \in 1..Len(s) : s[n] = t[n]
    PROVE  s = t
<1>1. s = [n \in 1..Len(s) |-> s[n]] /\ t = [n \in 1..Len(t) |-> t[n]]
  BY SMTT(30)
<1>2. QED
  BY <1>1

\* The type, the length and the elements of a part of a sequence.
LEMMA PartOf ==
    ASSUME NEW S, NEW s \in Seq(S), NEW a \in 1..(Len(s) + 1), NEW b \in (a - 1)..Len(s)
    PROVE  /\ SubSeq(s, a, b) \in Seq(S)
           /\ Len(SubSeq(s, a, b)) = b - a + 1
           /\ \A n \in 1..(b - a + 1) : SubSeq(s, a, b)[n] = s[a + n - 1]
BY SMTT(30)

\* The type, the length and the elements of a concatenation.
LEMMA Joined ==
    ASSUME NEW S, NEW s \in Seq(S), NEW t \in Seq(S)
    PROVE  /\ s \o t \in Seq(S)
           /\ Len(s \o t) = Len(s) + Len(t)
           /\ \A n \in 1..Len(s) : (s \o t)[n] = s[n]
           /\ \A n \in 1..Len(t) : (s \o t)[Len(s) + n] = t[n]
BY SMTT(30)

\* Nothing is left of a sequence, all of it, and nothing is added to it.
LEMMA Ends ==
    ASSUME NEW S, NEW s \in Seq(S)
    PROVE  /\ SubSeq(s, 1, 0) = <<>>
           /\ SubSeq(s, Len(s) + 1, Len(s)) = <<>>
           /\ SubSeq(s, 1, Len(s)) = s
           /\ s \o <<>> = s
<1>1. SubSeq(s, 1, 0) = <<>> /\ SubSeq(s, Len(s) + 1, Len(s)) = <<>>
  BY SMTT(30)
<1>2. SubSeq(s, 1, Len(s)) = s
  <2>1. 1 \in 1..(Len(s) + 1) /\ Len(s) \in (1 - 1)..Len(s)
    BY SMTT(30)
  <2>2. /\ SubSeq(s, 1, Len(s)) \in Seq(S) /\ Len(SubSeq(s, 1, Len(s))) = Len(s) - 1 + 1
        /\ \A n \in 1..(Len(s) - 1 + 1) : SubSeq(s, 1, Len(s))[n] = s[1 + n - 1]
    BY <2>1, PartOf
  <2>3. QED
    BY <2>2, SameSequence, SMTT(30)
<1>3. s \o <<>> = s
  BY SMTT(30)
<1>4. QED
  BY <1>1, <1>2, <1>3

\* A concatenation is taken apart again.
LEMMA TakenApart ==
    ASSUME NEW S, NEW s \in Seq(S), NEW t \in Seq(S)
    PROVE  /\ SubSeq(s \o t, 1, Len(s)) = s
           /\ SubSeq(s \o t, Len(s) + 1, Len(s \o t)) = t
<1>. DEFINE u == s \o t
<1>1. /\ u \in Seq(S) /\ Len(u) = Len(s) + Len(t)
      /\ \A n \in 1..Len(s) : u[n] = s[n]
      /\ \A n \in 1..Len(t) : u[Len(s) + n] = t[n]
  BY Joined, SMTT(30)
<1>. HIDE DEF u
<1>2. SubSeq(u, 1, Len(s)) = s
  <2>1. 1 \in 1..(Len(u) + 1) /\ Len(s) \in (1 - 1)..Len(u)
    BY <1>1, SMTT(30)
  <2>2. /\ SubSeq(u, 1, Len(s)) \in Seq(S) /\ Len(SubSeq(u, 1, Len(s))) = Len(s) - 1 + 1
        /\ \A n \in 1..(Len(s) - 1 + 1) : SubSeq(u, 1, Len(s))[n] = u[1 + n - 1]
    BY <1>1, <2>1, PartOf, SMTT(30)
  <2>3. \A n \in 1..Len(s) : SubSeq(u, 1, Len(s))[n] = s[n]
    BY <1>1, <2>2, SMTT(30)
  <2>4. QED
    BY <2>2, <2>3, SameSequence, SMTT(30)
<1>3. SubSeq(u, Len(s) + 1, Len(u)) = t
  <2>. DEFINE v == SubSeq(u, Len(s) + 1, Len(u))
  <2>1. Len(s) + 1 \in 1..(Len(u) + 1) /\ Len(u) \in (Len(s) + 1 - 1)..Len(u)
    BY <1>1, SMTT(30)
  <2>2. /\ v \in Seq(S) /\ Len(v) = Len(u) - (Len(s) + 1) + 1
        /\ \A n \in 1..(Len(u) - (Len(s) + 1) + 1) : v[n] = u[Len(s) + 1 + n - 1]
    BY <1>1, <2>1, PartOf, SMTT(30)
  <2>. HIDE DEF v
  <2>3. Len(v) = Len(t) /\ \A n \in 1..Len(t) : v[n] = t[n]
    BY <1>1, <2>2, SMTT(30)
  <2>4. v = t
    BY <2>2, <2>3, SameSequence
  <2>5. QED
    BY <2>4 DEF v
<1>4. QED
  BY <1>2, <1>3 DEF u

\* The beginning of a beginning.
LEMMA PrefixOfPrefix ==
    ASSUME NEW S, NEW t \in Seq(S), NEW n \in 0..Len(t), NEW k \in 0..n
    PROVE  /\ SubSeq(SubSeq(t, 1, n), 1, k) = SubSeq(t, 1, k)
           /\ SubSeq(t, 1, k) \in Seq(S) /\ Len(SubSeq(t, 1, k)) = k
<1>. DEFINE u == SubSeq(t, 1, n)
<1>1. u \in Seq(S) /\ Len(u) = n /\ \A j \in 1..n : u[j] = t[j]
  BY PartOf, SMTT(30)
<1>2. /\ SubSeq(t, 1, k) \in Seq(S) /\ Len(SubSeq(t, 1, k)) = k
      /\ \A j \in 1..k : SubSeq(t, 1, k)[j] = t[j]
  BY PartOf, SMTT(30)
<1>. HIDE DEF u
<1>3. SubSeq(u, 1, k) \in Seq(S) /\ Len(SubSeq(u, 1, k)) = k /\ \A j \in 1..k : SubSeq(u, 1, k)[j] = u[j]
  BY <1>1, PartOf, SMTT(30)
<1>4. SubSeq(u, 1, k) = SubSeq(t, 1, k)
  BY <1>1, <1>2, <1>3, SameSequence, SMTT(30)
<1>5. QED
  BY <1>2, <1>4 DEF u

\* The next record of a batch.
LEMMA OneMore ==
    ASSUME NEW S, NEW s \in Seq(S), NEW t \in Seq(S), NEW n \in 0..(Len(t) - 1)
    PROVE  (s \o SubSeq(t, 1, n)) \o <<t[n + 1]>> = s \o SubSeq(t, 1, n + 1)
<1>1. /\ SubSeq(t, 1, n) \in Seq(S) /\ Len(SubSeq(t, 1, n)) = n
      /\ \A j \in 1..n : SubSeq(t, 1, n)[j] = t[j]
  BY PartOf, SMTT(30)
<1>2. /\ SubSeq(t, 1, n + 1) \in Seq(S) /\ Len(SubSeq(t, 1, n + 1)) = n + 1
      /\ \A j \in 1..(n + 1) : SubSeq(t, 1, n + 1)[j] = t[j]
  BY PartOf, SMTT(30)
<1>3. ASSUME NEW p \in Seq(S), NEW q \in Seq(S), Len(p) = n, Len(q) = n + 1,
             \A j \in 1..n : p[j] = t[j], \A j \in 1..(n + 1) : q[j] = t[j]
      PROVE  (s \o p) \o <<t[n + 1]>> = s \o q
  <2>1. q = p \o <<t[n + 1]>>
    BY <1>3, SMTT(30)
  <2>2. QED
    BY <2>1, SMTT(30)
<1>4. QED
  BY <1>1, <1>2, <1>3

-----------------------------------------------------------------------------
(* Logs and files.                                                         *)

\* The indexes of a part of a log, and of two logs in a row, are consecutive.
LEMMA ValidPart ==
    ASSUME NEW s \in Seq(Entry), NEW e \in Int, validSequence(s, e),
           NEW a \in 1..(Len(s) + 1), NEW b \in (a - 1)..Len(s)
    PROVE  validSequence(SubSeq(s, a, b), e + a - 1)
<1>0. /\ SubSeq(s, a, b) \in Seq(Entry) /\ Len(SubSeq(s, a, b)) = b - a + 1
      /\ \A n \in 1..(b - a + 1) : SubSeq(s, a, b)[n] = s[a + n - 1]
  BY PartOf
<1>1. PICK t \in Seq(Entry) :
         t = SubSeq(s, a, b) /\ Len(t) = b - a + 1 /\ \A n \in 1..Len(t) : t[n] = s[a + n - 1]
  BY <1>0
<1>2. ASSUME NEW k \in DOMAIN t PROVE t[k][1] = (e + a - 1) + k - 1
  <2>1. k \in 1..Len(t) /\ a + k - 1 \in DOMAIN s
    BY <1>1, SMTT(30)
  <2>2. t[k] = s[a + k - 1] /\ s[a + k - 1][1] = e + (a + k - 1) - 1
    BY <1>1, <2>1 DEF validSequence
  <2>3. QED
    BY <2>1, <2>2, SMTT(30)
<1>3. QED
  BY <1>1, <1>2 DEF validSequence

LEMMA ValidJoin ==
    ASSUME NEW s \in Seq(Entry), NEW t \in Seq(Entry), NEW e \in Int,
           validSequence(s, e), validSequence(t, e + Len(s))
    PROVE  validSequence(s \o t, e)
<1>0. /\ s \o t \in Seq(Entry) /\ Len(s \o t) = Len(s) + Len(t)
      /\ \A n \in 1..Len(s) : (s \o t)[n] = s[n]
      /\ \A n \in 1..Len(t) : (s \o t)[Len(s) + n] = t[n]
  BY Joined, SMTT(30)
<1>1. PICK u \in Seq(Entry) :
         /\ u = s \o t /\ Len(u) = Len(s) + Len(t)
         /\ \A n \in 1..Len(s) : u[n] = s[n]
         /\ \A n \in 1..Len(t) : u[Len(s) + n] = t[n]
  BY <1>0
<1>2. ASSUME NEW k \in DOMAIN u PROVE u[k][1] = e + k - 1
  <2>1. CASE k <= Len(s)
    <3>1. k \in DOMAIN s /\ k \in 1..Len(s)
      BY <2>1, SMTT(30)
    <3>2. QED
      BY <1>1, <3>1 DEF validSequence
  <2>2. CASE k > Len(s)
    <3>1. k - Len(s) \in DOMAIN t /\ k - Len(s) \in 1..Len(t) /\ Len(s) + (k - Len(s)) = k
      BY <1>1, <2>2, SMTT(30)
    <3>2. u[k] = t[k - Len(s)] /\ t[k - Len(s)][1] = (e + Len(s)) + (k - Len(s)) - 1
      BY <1>1, <3>1 DEF validSequence
    <3>3. QED
      BY <3>2, SMTT(30)
  <2>3. QED
    BY <2>1, <2>2, SMTT(30)
<1>3. QED
  BY <1>1, <1>2 DEF validSequence

\* A log with other entries.
LEMMA OtherEntries ==
    ASSUME NEW l \in Log, NEW e \in Seq(Entry)
    PROVE  /\ [l EXCEPT !.entries = e] \in Log
           /\ [l EXCEPT !.entries = e].base = l.base
           /\ [l EXCEPT !.entries = e].baseTerm = l.baseTerm
           /\ [l EXCEPT !.entries = e].known = l.known
           /\ [l EXCEPT !.entries = e].entries = e
BY DEF Log

\* Other entries, with consecutive indexes, after the same boundary.
LEMMA SoundEntries ==
    ASSUME NEW l, NEW s, Sound(l, s), NEW e \in Seq(Entry), validSequence(e, l.base + 1)
    PROVE  Sound([l EXCEPT !.entries = e], s)
<1>1. PICK k \in Log : k = [l EXCEPT !.entries = e] /\ k.base = l.base /\ k.known = l.known
                       /\ k.baseTerm = l.baseTerm /\ k.entries = e
  BY OtherEntries DEF Sound
<1>2. QED
  BY <1>1 DEF Sound

\* RestoreSnapshotBoundary accepts a sound log, and leaves a sound one.
LEMMA SoundRestored ==
    ASSUME NEW l, NEW s \in Boundary, Sound(l, s), s.index > 0
    PROVE  canRestore(l, s) /\ Sound(restored(l, s), s) /\ restored(l, s).known
<1>1. l \in Log /\ l.base \in Nat /\ l.base <= s.index /\ l.entries \in Seq(Entry) /\ s.index \in Nat
      /\ s.term \in Nat /\ validSequence(l.entries, l.base + 1)
  BY DEF Sound, Log, Boundary
<1>2. canRestore(l, s)
  BY <1>1 DEF Sound, canRestore
<1>3. PICK e : e = restored(l, s).entries
  OBVIOUS
<1>4. e \in Seq(Entry) /\ validSequence(e, s.index + 1)
  <2>1. CASE s.index = l.base
    BY <1>1, <1>3, <2>1 DEF restored
  <2>2. CASE s.index # l.base /\ s.index <= LastIndex(l) /\ termAt(l, s.index) = s.term
    <3>1. e = SubSeq(l.entries, s.index - l.base + 1, Len(l.entries))
      BY <1>3, <2>2 DEF restored
    <3>2. PICK a \in 1..(Len(l.entries) + 1) :
             a = s.index - l.base + 1 /\ Len(l.entries) \in (a - 1)..Len(l.entries)
             /\ (l.base + 1) + a - 1 = s.index + 1 /\ l.base + 1 \in Int
      <4>1. s.index \in Nat /\ l.base \in Nat /\ Len(l.entries) \in Nat /\ l.base <= s.index
            /\ s.index <= l.base + Len(l.entries)
        BY <1>1, <2>2, SMTT(30) DEF LastIndex
      <4>2. QED
        BY <4>1, SMTT(30)
    <3>3. e \in Seq(Entry)
      BY <1>1, <3>1, <3>2, PartOf
    <3>4. validSequence(e, (l.base + 1) + a - 1)
      BY <1>1, <3>1, <3>2, ValidPart
    <3>5. QED
      BY <3>2, <3>3, <3>4
  <2>3. CASE s.index # l.base /\ ~(s.index <= LastIndex(l) /\ termAt(l, s.index) = s.term)
    <3>1. e = <<>>
      BY <1>3, <2>3 DEF restored
    <3>2. QED
      BY <3>1, SMTT(30) DEF validSequence
  <2>4. QED
    BY <2>1, <2>2, <2>3
<1>5. /\ restored(l, s).base = s.index /\ restored(l, s).baseTerm = s.term /\ restored(l, s).known
      /\ restored(l, s) = [base |-> s.index, baseTerm |-> s.term, known |-> TRUE, entries |-> e]
  BY <1>3 DEF restored
<1>6. restored(l, s) \in Log
  BY <1>1, <1>4, <1>5, SMTT(30) DEF Log
<1>7. QED
  BY <1>1, <1>2, <1>3, <1>4, <1>5, <1>6, SMTT(30) DEF Sound

\* What loadFromDisk finds in a file with a header.
LEMMA LoadedV1 ==
    ASSUME NEW f \in DiskFile, f.kind = "v1"
    PROVE  loaded(f) = [base |-> f.base, baseTerm |-> f.baseTerm, known |-> TRUE,
                        entries |-> f.records]
BY DEF loaded, header

\* loadFromDisk looks at the kind, the header and the records.
LEMMA LoadedSame ==
    ASSUME NEW f, NEW g, f.kind = g.kind, f.base = g.base, f.baseTerm = g.baseTerm,
           f.records = g.records
    PROVE  loaded(f) = loaded(g)
BY DEF loaded, header

LEMMA LoadedFields ==
    ASSUME NEW f, NEW b,
           b = IF f.kind = "legacy" /\ f.records # <<>> THEN f.records[1][1] - 1 ELSE f.base
    PROVE  /\ loaded(f).base = b
           /\ loaded(f).baseTerm = f.baseTerm
           /\ loaded(f).known <=> (f.kind # "legacy" \/ b = 0)
           /\ loaded(f).entries = f.records
           /\ b \in Nat /\ f \in DiskFile => loaded(f) \in Log
<1>1. PICK k \in BOOLEAN :
         /\ k <=> (f.kind # "legacy" \/ b = 0)
         /\ loaded(f) = [base |-> b, baseTerm |-> f.baseTerm, known |-> k, entries |-> f.records]
  BY DEF loaded, header
<1>2. /\ loaded(f).base = b /\ loaded(f).baseTerm = f.baseTerm /\ loaded(f).entries = f.records
      /\ loaded(f).known = k
  BY <1>1, SMTT(30)
<1>3. ASSUME b \in Nat, f \in DiskFile PROVE loaded(f) \in Log
  <2>1. f.baseTerm \in Nat /\ f.records \in Seq(Entry)
    BY <1>3 DEF DiskFile
  <2>2. QED
    BY <1>1, <1>3, <2>1, SMTT(30) DEF Log
<1>4. QED
  BY <1>1, <1>2, <1>3

LEMMA LogRecord ==
    ASSUME NEW l \in Log
    PROVE  l = [base |-> l.base, baseTerm |-> l.baseTerm, known |-> l.known,
                entries |-> l.entries]
BY DEF Log

\* The file of a rewriting holds the log.
LEMMA RewrittenStores ==
    ASSUME NEW l \in Log, l.known
    PROVE  /\ Stores(Rewritten(l), l) /\ Rewritten(l) \in DiskFile /\ Rewritten(l).kind = "v1"
           /\ Rewritten(l).records = l.entries
<1>1. /\ Rewritten(l) = [kind |-> "v1", base |-> l.base, baseTerm |-> l.baseTerm,
                         records |-> l.entries, torn |-> FALSE, synced |-> Len(l.entries),
                         cut |-> <<>>]
  BY DEF Rewritten, File
<1>2. /\ l.base \in Nat /\ l.baseTerm \in Nat /\ l.known = TRUE /\ l.entries \in Seq(Entry)
      /\ Len(l.entries) \in Nat
  BY SMTT(30) DEF Log
<1>3. Rewritten(l) \in DiskFile
  BY <1>1, <1>2, SMTT(30) DEF DiskFile
<1>4. Whole(Rewritten(l)) /\ Rewritten(l).kind = "v1" /\ ~Rewritten(l).torn
  BY <1>1, <1>3, SMTT(30) DEF Whole
<1>5. loaded(Rewritten(l)) = l
  <2>1. Rewritten(l).base = l.base /\ Rewritten(l).baseTerm = l.baseTerm
        /\ Rewritten(l).records = l.entries
    BY <1>1, SMTT(30)
  <2>2. loaded(Rewritten(l)) = [base |-> l.base, baseTerm |-> l.baseTerm, known |-> TRUE,
                                entries |-> l.entries]
    BY <1>3, <1>4, <2>1, LoadedV1
  <2>3. QED
    BY <1>2, <2>2, LogRecord
<1>6. QED
  BY <1>1, <1>3, <1>4, <1>5, SMTT(30) DEF Stores

\* A file with a header that holds a log is what a rewriting leaves.
LEMMA StoredV1 ==
    ASSUME NEW f, NEW l \in Log, Stores(f, l), f.kind = "v1"
    PROVE  f = Rewritten(l) /\ l.known
<1>1. f \in DiskFile /\ f.synced = Len(f.records) /\ f.cut = <<>> /\ ~f.torn /\ loaded(f) = l
  BY DEF Stores, Whole
<1>2. l = [base |-> f.base, baseTerm |-> f.baseTerm, known |-> TRUE, entries |-> f.records]
  BY <1>1, LoadedV1
<1>3. l.base = f.base /\ l.baseTerm = f.baseTerm /\ l.known = TRUE /\ l.entries = f.records
  BY <1>2
<1>4. f = [kind |-> f.kind, base |-> f.base, baseTerm |-> f.baseTerm, records |-> f.records,
           torn |-> f.torn, synced |-> f.synced, cut |-> f.cut] /\ f.torn \in BOOLEAN
  BY <1>1 DEF DiskFile
<1>5. f.torn = FALSE
  BY <1>1, <1>4
<1>6. QED
  BY <1>1, <1>3, <1>4, <1>5 DEF Rewritten, File

\* What a loss of power may leave of a file with records s on the disk and p not yet.
LEMMA Survivors ==
    ASSUME NEW f \in DiskFile, NEW s \in Seq(Entry), NEW p \in Seq(Entry), f.records = s \o p,
           f.synced = Len(s), NEW g \in AfterPowerLoss(f)
    PROVE  /\ Whole(g) /\ g.kind = f.kind /\ g.base = f.base /\ g.baseTerm = f.baseTerm
           /\ \E r \in {p, f.cut} : \E k \in 0..Len(r) : g.records = s \o SubSeq(r, 1, k)
<1>. DEFINE rest == SubSeq(f.records, f.synced + 1, Len(f.records))
            A(r, q) == UNION {{survivor(f, r, n, t) : n \in 0..Len(r)} : t \in q}
            T == {b \in BOOLEAN : b => (rest # <<>> \/ f.torn \/ op.pc = "write")}
            U == {b \in BOOLEAN : b => f.cut # <<>>}
<1>1. SubSeq(f.records, 1, f.synced) = s /\ rest = p
  BY TakenApart
<1>2. \/ \E k \in 0..Len(p) : \E torn \in BOOLEAN : g = survivor(f, p, k, torn)
      \/ \E k \in 0..Len(f.cut) : \E torn \in BOOLEAN : g = survivor(f, f.cut, k, torn)
  <2>1. AfterPowerLoss(f) = A(rest, T) \cup A(f.cut, U)
    BY DEF AfterPowerLoss
  <2>2. T \subseteq BOOLEAN /\ U \subseteq BOOLEAN
    OBVIOUS
  <2>3. ASSUME NEW r, NEW q \in SUBSET BOOLEAN, g \in A(r, q)
        PROVE  \E k \in 0..Len(r) : \E torn \in BOOLEAN : g = survivor(f, r, k, torn)
    <3>1. PICK b \in q : g \in {survivor(f, r, n, b) : n \in 0..Len(r)}
      BY <2>3
    <3>2. QED
      BY <3>1
  <2>. HIDE DEF A, T, U
  <2>4. QED
    BY <1>1, <2>1, <2>2, <2>3
<1>3. PICK r \in {p, f.cut} : \E k \in 0..Len(r) : \E torn \in BOOLEAN : g = survivor(f, r, k, torn)
  BY <1>2
<1>4. PICK k \in 0..Len(r), torn \in BOOLEAN : g = survivor(f, r, k, torn)
  BY <1>3
<1>5. r \in Seq(Entry) /\ Len(s) \in Nat /\ k \in Nat
  BY SMTT(30) DEF DiskFile
<1>6. SubSeq(r, 1, k) \in Seq(Entry) /\ Len(SubSeq(r, 1, k)) = k
  BY <1>5, PrefixOfPrefix, SMTT(30)
<1>7. PICK q \in Seq(Entry) : q = SubSeq(r, 1, k) /\ Len(q) = k
  BY <1>6
<1>8. s \o q \in Seq(Entry) /\ Len(s \o q) = Len(s) + k /\ Len(s) + k \in Nat
  <2>1. s \o q \in Seq(Entry) /\ Len(s \o q) = Len(s) + Len(q)
    BY Joined
  <2>2. Len(s) + k \in Nat
    BY <1>5, SMTT(30)
  <2>3. QED
    BY <1>7, <2>1, <2>2
<1>9. PICK u \in Seq(Entry) : u = s \o q /\ Len(u) = Len(s) + k
  BY <1>8
<1>10. g = [f EXCEPT !.records = u, !.synced = Len(u), !.cut = <<>>, !.torn = torn]
  BY <1>1, <1>4, <1>7, <1>9 DEF survivor
<1>11. <<>> \in Seq(Entry) /\ Len(u) \in Nat
  BY SMTT(30)
<1>12. g \in DiskFile
  BY <1>10, <1>11 DEF DiskFile
<1>13. g.kind = f.kind /\ g.base = f.base /\ g.baseTerm = f.baseTerm
  BY <1>10 DEF DiskFile
<1>14. g.records = u /\ g.synced = Len(u) /\ g.cut = <<>>
  BY <1>10 DEF DiskFile
<1>15. QED
  BY <1>7, <1>9, <1>12, <1>13, <1>14 DEF Whole

LEMMA SurvivingRecords ==
    ASSUME NEW f \in DiskFile, NEW s \in Seq(Entry), NEW p \in Seq(Entry), f.records = s \o p,
           f.synced = Len(s), NEW g \in AfterPowerLoss(f)
    PROVE  \E r \in {p, f.cut} : \E k \in 0..Len(r) : g.records = s \o SubSeq(r, 1, k)
BY Survivors

\* A file that is on the disk survives a loss of power.
LEMMA WholeSurvives ==
    ASSUME NEW f, Whole(f), NEW g \in AfterPowerLoss(f)
    PROVE  Whole(g) /\ loaded(g) = loaded(f)
<1>1. PICK s \in Seq(Entry) : f.records = s
  BY DEF Whole, DiskFile
<1>2. PICK e \in Seq(Entry) : e = <<>>
  <2>1. <<>> \in Seq(Entry)
    BY SMTT(30)
  <2>2. QED
    BY <2>1
<1>3. f \in DiskFile /\ f.records = s \o e /\ f.synced = Len(s) /\ f.cut = e
  BY <1>1, <1>2, Ends DEF Whole
<1>4. /\ Whole(g) /\ g.kind = f.kind /\ g.base = f.base /\ g.baseTerm = f.baseTerm
      /\ \E r \in {e, f.cut} : \E k \in 0..Len(r) : g.records = s \o SubSeq(r, 1, k)
  <2>1. Whole(g)
    BY <1>3, Survivors
  <2>2. g.kind = f.kind
    BY <1>3, Survivors
  <2>3. g.base = f.base
    BY <1>3, Survivors
  <2>4. g.baseTerm = f.baseTerm
    BY <1>3, Survivors
  <2>5. \E r \in {e, f.cut} : \E k \in 0..Len(r) : g.records = s \o SubSeq(r, 1, k)
    BY <1>3, SurvivingRecords
  <2>6. QED
    BY <2>1, <2>2, <2>3, <2>4, <2>5
<1>5. PICK k \in 0..Len(e) : g.records = s \o SubSeq(e, 1, k)
  BY <1>3, <1>4
<1>6. k = 0
  BY <1>2, SMTT(30)
<1>7. g.records = f.records
  BY <1>1, <1>2, <1>5, <1>6, Ends
<1>8. QED
  BY <1>4, <1>7, LoadedSame

\* Log l and the first k entries of the batch.
WithPart(l, batch, k) == [l EXCEPT !.entries = l.entries \o SubSeq(batch, 1, k)]

\* A loss of power during an Append leaves the log and some of the batch.
LEMMA HalfAppendedSurvives ==
    ASSUME NEW l, NEW s, Sound(l, s), l.known, NEW batch \in Seq(Entry),
           validSequence(batch, LastIndex(l) + 1),
           NEW f, HalfAppended(f, l, batch), NEW g \in AfterPowerLoss(f)
    PROVE  /\ Whole(g) /\ Sound(loaded(g), s)
           /\ \E k \in 0..Len(batch) : loaded(g) = WithPart(l, batch, k)
<1>1. PICK n \in 0..Len(batch), m \in 0..Len(batch) :
         f.records = l.entries \o SubSeq(batch, 1, n) /\ f.cut = SubSeq(batch, 1, m)
  BY DEF HalfAppended, Following
<1>2. /\ l \in Log /\ l.base \in Nat /\ l.entries \in Seq(Entry) /\ l.known = TRUE
      /\ validSequence(l.entries, l.base + 1) /\ Len(l.entries) \in Nat
  BY SMTT(30) DEF Sound, Log
<1>3. ASSUME NEW i \in 0..Len(batch), NEW j \in 0..i
      PROVE  /\ SubSeq(batch, 1, i) \in Seq(Entry) /\ Len(SubSeq(batch, 1, i)) = i
             /\ SubSeq(SubSeq(batch, 1, i), 1, j) = SubSeq(batch, 1, j)
             /\ j \in 0..Len(batch)
  <2>1. 0 \in 0..i /\ i \in 0..i /\ j \in 0..Len(batch)
    BY SMTT(30)
  <2>2. SubSeq(SubSeq(batch, 1, i), 1, j) = SubSeq(batch, 1, j)
    BY PrefixOfPrefix
  <2>3. SubSeq(batch, 1, i) \in Seq(Entry) /\ Len(SubSeq(batch, 1, i)) = i
    BY <2>1, PrefixOfPrefix
  <2>4. QED
    BY <2>1, <2>2, <2>3
<1>4. PICK p \in Seq(Entry) : p = SubSeq(batch, 1, n)
  <2>1. n \in 0..n
    BY SMTT(30)
  <2>2. QED
    BY <1>3, <2>1
<1>5. f \in DiskFile /\ f.records = l.entries \o p /\ f.synced = Len(l.entries)
      /\ f.kind = "v1" /\ f.base = l.base /\ f.baseTerm = l.baseTerm
  BY <1>1, <1>4 DEF HalfAppended, Following
<1>6. /\ Whole(g) /\ g.kind = f.kind /\ g.base = f.base /\ g.baseTerm = f.baseTerm
      /\ \E r \in {p, f.cut} : \E k \in 0..Len(r) : g.records = l.entries \o SubSeq(r, 1, k)
  BY <1>2, <1>5, Survivors
<1>7. PICK i \in {n, m} : \E k \in 0..Len(SubSeq(batch, 1, i)) :
         g.records = l.entries \o SubSeq(SubSeq(batch, 1, i), 1, k)
  BY <1>1, <1>4, <1>6
<1>8. i \in 0..Len(batch) /\ i \in 0..i
  BY SMTT(30)
<1>9. PICK k \in 0..i : g.records = l.entries \o SubSeq(SubSeq(batch, 1, i), 1, k)
  BY <1>3, <1>7, <1>8
<1>10. k \in 0..k /\ k \in 0..Len(batch)
  BY <1>8, SMTT(30)
<1>11. PICK q \in Seq(Entry) : q = SubSeq(batch, 1, k) /\ g.records = l.entries \o q
  BY <1>3, <1>8, <1>9, <1>10
<1>12. validSequence(l.entries \o q, l.base + 1) /\ l.entries \o q \in Seq(Entry)
  <2>0. 1 \in 1..(Len(batch) + 1) /\ k \in (1 - 1)..Len(batch)
    BY <1>10, SMTT(30)
  <2>1. LastIndex(l) + 1 \in Int /\ l.base + 1 \in Int
        /\ (LastIndex(l) + 1) + 1 - 1 = l.base + 1 + Len(l.entries)
    BY <1>2, SMTT(30) DEF LastIndex
  <2>2. validSequence(q, (LastIndex(l) + 1) + 1 - 1)
    BY <1>11, <2>0, <2>1, ValidPart
  <2>3. validSequence(q, l.base + 1 + Len(l.entries))
    BY <2>1, <2>2
  <2>4. validSequence(l.entries \o q, l.base + 1)
    BY <1>2, <2>1, <2>3, ValidJoin
  <2>5. QED
    BY <1>2, <2>4, Joined
<1>13. loaded(g) = [l EXCEPT !.entries = l.entries \o q]
  <2>1. loaded(g) = [base |-> l.base, baseTerm |-> l.baseTerm, known |-> TRUE,
                     entries |-> l.entries \o q]
    <3>1. g \in DiskFile /\ g.kind = "v1"
      BY <1>5, <1>6 DEF Whole
    <3>2. QED
      BY <1>5, <1>6, <1>11, <3>1, LoadedV1
  <2>2. PICK h \in Log : h = [l EXCEPT !.entries = l.entries \o q] /\ h.base = l.base
                         /\ h.known = l.known /\ h.baseTerm = l.baseTerm /\ h.entries = l.entries \o q
    BY <1>2, <1>12, OtherEntries
  <2>3. QED
    BY <1>2, <2>1, <2>2, LogRecord
<1>14. Sound(loaded(g), s)
  BY <1>12, <1>13, SoundEntries
<1>15. loaded(g) = WithPart(l, batch, k)
  BY <1>11, <1>13 DEF WithPart
<1>16. QED
  BY <1>6, <1>10, <1>14, <1>15

\* Whatever is running when the power fails, the file that is found then is on the
\* disk, holds the log from before or after it, or with a part of the batch, and can
\* be started from.
LEMMA PowerLoss ==
    ASSUME WALInv, phase \in Running, NEW g \in {wal} \cup old, NEW f \in AfterPowerLoss(g)
    PROVE  /\ Whole(f) /\ Sound(loaded(f), snap)
           /\ op.pc = "idle" => loaded(f) = mem
           /\ op.pc # "idle" => loaded(f) \in Outcomes
<1>1. Types /\ Sound(mem, snap) /\ AtStep
  BY DEF WALInv
<1>2. mem \in Log /\ op.target \in Log /\ op.batch \in Seq(Entry)
      /\ op.pc \in {"idle", "write", "sync", "failed"} \cup Rewriting
  BY <1>1 DEF Types, Operation
<1>3. op.pc # "idle" => Sound(op.target, snap) /\ op.target.known
  BY DEF WALInv
<1>4. CASE \E l \in {mem, op.target} : Stores(g, l) /\ (op.pc = "idle" => l = mem)
  <2>1. PICK l \in {mem, op.target} : Stores(g, l) /\ (op.pc = "idle" => l = mem)
    BY <1>4
  <2>2. Whole(f) /\ loaded(f) = l
    BY <2>1, WholeSurvives DEF Stores
  <2>3. Sound(l, snap)
    BY <1>1, <1>3, <2>1
  <2>4. QED
    BY <2>1, <2>2, <2>3 DEF Outcomes
<1>5. CASE op.pc \in {"write", "sync", "failed"} /\ Appending /\ HalfAppended(g, mem, op.batch)
  <2>1. validSequence(op.batch, LastIndex(mem) + 1) /\ mem.known
    BY <1>5 DEF Appending, WALInv
  <2>2. /\ Whole(f) /\ Sound(loaded(f), snap)
        /\ \E k \in 0..Len(op.batch) : loaded(f) = WithPart(mem, op.batch, k)
    <3>1. Sound(mem, snap) /\ mem.known /\ op.batch \in Seq(Entry)
          /\ validSequence(op.batch, LastIndex(mem) + 1) /\ HalfAppended(g, mem, op.batch)
      BY <1>1, <1>2, <1>5, <2>1
    <3>2. QED
      BY <3>1, HalfAppendedSurvives, SMTT(30)
  <2>3. loaded(f) \in Outcomes
    BY <2>2 DEF Outcomes, WithPart
  <2>4. op.pc # "idle"
    BY <1>5
  <2>5. QED
    BY <2>2, <2>3, <2>4
<1>6. CASE op.pc \in {"idle", "temp", "syncTemp", "rename"}
  <2>1. Stores(wal, mem) /\ old = {}
    BY <1>1, <1>6 DEF AtStep
  <2>2. QED
    BY <1>4, <2>1
<1>7. CASE op.pc \in {"syncDir", "reopen"}
  <2>1. wal = Rewritten(op.target) /\ op.pc # "idle" /\ \A h \in old : Stores(h, mem)
    BY <1>1, <1>7 DEF AtStep
  <2>2. Stores(wal, op.target)
    BY <1>2, <1>3, <2>1, RewrittenStores
  <2>3. QED
    BY <1>4, <2>1, <2>2
<1>8. CASE op.pc \in {"write", "sync"}
  <2>1. PICK n \in 0..Len(op.batch) : Following(wal, mem, op.batch, n)
    BY <1>1, <1>8 DEF AtStep
  <2>2. wal.cut = <<>> /\ Appending
    BY <1>1, <1>8 DEF AtStep
  <2>3. wal.cut = SubSeq(op.batch, 1, 0)
    BY <1>2, <2>2, Ends
  <2>4. 0 \in 0..Len(op.batch) /\ g = wal
    BY <1>2, <2>2, SMTT(30) DEF Appending
  <2>5. HalfAppended(wal, mem, op.batch)
    BY <2>1, <2>3, <2>4 DEF HalfAppended
  <2>6. QED
    BY <1>5, <1>8, <2>2, <2>4, <2>5
<1>9. CASE op.pc = "failed"
  <2>1. \/ \A h \in {wal} \cup old : Stores(h, mem) \/ Stores(h, op.target)
        \/ Appending /\ HalfAppended(wal, mem, op.batch)
    BY <1>1, <1>9 DEF AtStep
  <2>2. CASE Appending /\ HalfAppended(wal, mem, op.batch)
    <3>1. g = wal
      BY <2>2 DEF Appending
    <3>2. QED
      BY <1>5, <1>9, <2>2, <3>1
  <2>3. CASE \A h \in {wal} \cup old : Stores(h, mem) \/ Stores(h, op.target)
    <3>1. op.pc # "idle"
      BY <1>9
    <3>2. QED
      BY <1>4, <2>3, <3>1
  <2>4. QED
    BY <2>1, <2>2, <2>3
<1>10. QED
  BY <1>2, <1>6, <1>7, <1>8, <1>9, SMTT(30) DEF Rewriting

-----------------------------------------------------------------------------
(* The invariant, where several actions end in the same kind of state.      *)

LEMMA OperationTypes ==
    /\ emptyLog \in Log /\ Idle \in Operation /\ Idle.pc = "idle" /\ Idle.batch = <<>>
    /\ NoFile \in DiskFile
<1>1. emptyLog \in Log /\ <<>> \in Seq(Entry)
  BY SMTT(30) DEF emptyLog, Log
<1>2. QED
  BY <1>1 DEF Idle, Operation, Rewriting, NoFile, File, emptyLog, DiskFile

\* persistStateToDiskLocked is about to be called with log l.
LEMMA BeforeRewriting ==
    ASSUME NEW l, op' = [Idle EXCEPT !.pc = "temp", !.target = l], Sound(l, snap'), l.known,
           snap' \in Boundary, phase' \in Running, phase' = "up" => mem'.known,
           Sound(mem', snap'), Stores(wal', mem'), old' = {}
    PROVE  WALInv'
<1>1. l \in Log /\ mem' \in Log /\ wal' \in DiskFile
  BY DEF Sound, Stores, Whole
<1>2. op' \in Operation
  BY <1>1, OperationTypes DEF Operation, Rewriting
<1>3. op'.pc = "temp"
  BY OperationTypes DEF Operation
<1>4. op'.target = l
  BY OperationTypes DEF Operation
<1>5. Types'
  BY <1>1, <1>2 DEF Types
<1>6. AtStep'
  BY <1>3 DEF AtStep
<1>7. phase' # "down" /\ op'.pc \in Rewriting
  BY <1>3 DEF Running, Rewriting
<1>8. QED
  BY <1>4, <1>5, <1>6, <1>7 DEF WALInv

\* No operation holds the lock.
LEMMA BetweenOperations ==
    ASSUME op' \in Operation, op'.pc = "idle", snap' \in Boundary,
           phase' \in {"snapshot", "up"}, phase' = "up" => mem'.known,
           Sound(mem', snap'), Stores(wal', mem'), old' = {}, mem'.known => wal'.kind = "v1"
    PROVE  WALInv'
<1>1. mem' \in Log /\ wal' \in DiskFile
  BY DEF Sound, Stores, Whole
<1>2. Types'
  BY <1>1 DEF Types, Running
<1>3. AtStep'
  BY DEF AtStep
<1>4. phase' # "down" /\ phase' # "opening"
  OBVIOUS
<1>5. QED
  BY <1>2, <1>3, <1>4 DEF WALInv

\* The node is down.
LEMMA Down ==
    ASSUME op' = Idle, snap' \in Boundary, phase' = "down", mem' \in Log, old' = {},
           Whole(wal'), Sound(loaded(wal'), snap')
    PROVE  WALInv'
<1>1. Types'
  BY OperationTypes DEF Types, Whole
<1>2. phase' \notin Running /\ phase' # "opening" /\ phase' # "snapshot" /\ phase' # "up"
  BY DEF Running
<1>3. QED
  BY <1>1, <1>2 DEF WALInv

-----------------------------------------------------------------------------
(* Init.                                                                   *)

LEMMA InitWAL ==
    ASSUME Init
    PROVE  WALInv
<1>1. PICK t \in Terms, torn \in BOOLEAN :
         \/ wal = NoFile /\ snap = [index |-> 0, term |-> 0]
         \/ /\ wal = [NoFile EXCEPT !.kind = "legacy", !.records = <<<<1, t>>>>,
                                    !.synced = 1, !.torn = torn]
            /\ snap = [index |-> 0, term |-> 0]
         \/ /\ wal = [NoFile EXCEPT !.kind = "legacy", !.records = <<<<2, t>>>>,
                                    !.synced = 1, !.torn = torn]
            /\ snap = [index |-> 1, term |-> t]
  BY DEF Init
<1>2. t \in Nat
  BY WALAssumption
<1>3. snap \in Boundary
  BY <1>1, <1>2, SMTT(30) DEF Boundary
<1>4. mem = emptyLog /\ old = {} /\ op = Idle /\ phase = "down"
  BY DEF Init
<1>5. Whole(wal) /\ Sound(loaded(wal), snap)
  <2>1. CASE wal = NoFile /\ snap = [index |-> 0, term |-> 0]
    <3>1. wal = [kind |-> "none", base |-> 0, baseTerm |-> 0, records |-> <<>>, torn |-> FALSE,
                 synced |-> 0, cut |-> <<>>] /\ <<>> \in Seq(Entry)
      BY <2>1, SMTT(30) DEF NoFile, File, emptyLog
    <3>2. Whole(wal)
      BY <3>1 DEF Whole, DiskFile
    <3>2a. wal.kind = "none" /\ wal.base = 0 /\ wal.records = <<>> /\ wal \in DiskFile
           /\ "none" # "legacy" /\ 0 \in Nat
      BY <3>1, <3>2 DEF Whole
    <3>3. /\ loaded(wal).base = 0 /\ loaded(wal).entries = <<>> /\ loaded(wal).known
          /\ loaded(wal) \in Log
      BY <3>2a, LoadedFields
    <3>4. Sound(loaded(wal), snap)
      <4>1. snap.index = 0 /\ 0 <= 0 /\ ~(0 > 0) /\ validSequence(<<>>, 0 + 1)
        BY <2>1, SMTT(30) DEF validSequence
      <4>2. QED
        BY <3>3, <4>1 DEF Sound
    <3>5. QED
      BY <3>2, <3>4
  <2>2. ASSUME NEW n \in {1, 2},
               wal = [NoFile EXCEPT !.kind = "legacy", !.records = <<<<n, t>>>>,
                                    !.synced = 1, !.torn = torn],
               snap.index = n - 1
        PROVE  Whole(wal) /\ Sound(loaded(wal), snap)
    <3>1. PICK r \in Seq(Entry) : r = <<<<n, t>>>> /\ Len(r) = 1 /\ r[1] = <<n, t>>
      <4>1. <<n, t>> \in Entry
        BY <1>2, SMTT(30) DEF Entry
      <4>2. <<<<n, t>>>> \in Seq(Entry) /\ Len(<<<<n, t>>>>) = 1 /\ <<<<n, t>>>>[1] = <<n, t>>
        BY <4>1, SMTT(30)
      <4>3. QED
        BY <4>2
    <3>2. wal = [NoFile EXCEPT !.kind = "legacy", !.records = r, !.synced = 1, !.torn = torn]
      BY <2>2, <3>1
    <3>3. NoFile \in DiskFile /\ 1 \in Nat
      BY OperationTypes
    <3>4. wal \in DiskFile
      BY <3>2, <3>3 DEF DiskFile
    <3>5. wal.kind = "legacy" /\ wal.records = r /\ wal.synced = 1
      BY <3>2, <3>3 DEF DiskFile
    <3>6. wal.cut = NoFile.cut /\ wal.baseTerm = NoFile.baseTerm
      BY <3>2, <3>3 DEF DiskFile
    <3>7. wal.cut = <<>> /\ wal.baseTerm = 0
      BY <3>6 DEF NoFile, File, emptyLog
    <3>8. Whole(wal)
      BY <3>1, <3>4, <3>5, <3>7 DEF Whole
    <3>9. r # <<>> /\ r[1][1] - 1 = n - 1
      BY <3>1
    <3>10. n - 1 = IF wal.kind = "legacy" /\ wal.records # <<>> THEN wal.records[1][1] - 1
                   ELSE wal.base
      BY <3>5, <3>9
    <3>11. n - 1 \in Nat /\ (n - 1) + 1 = n
      BY SMTT(30)
    <3>12. /\ loaded(wal).base = n - 1 /\ loaded(wal).entries = r
           /\ loaded(wal).known <=> (wal.kind # "legacy" \/ n - 1 = 0)
           /\ loaded(wal) \in Log
      BY <3>4, <3>5, <3>10, <3>11, LoadedFields
    <3>13. validSequence(r, n)
      BY <3>1, SMTT(30) DEF validSequence
    <3>14. Sound(loaded(wal), snap)
      <4>1. snap.index \in Nat /\ n - 1 <= snap.index /\ (snap.index = 0 => n - 1 = 0)
            /\ ~(n - 1 > 0 /\ n - 1 = 0)
        BY <2>2, SMTT(30)
      <4>2. QED
        BY <2>2, <3>5, <3>11, <3>12, <3>13, <4>1 DEF Sound
    <3>15. QED
      BY <3>8, <3>14
  <2>3. [index |-> 0, term |-> 0].index = 1 - 1 /\ [index |-> 1, term |-> t].index = 2 - 1
    BY SMTT(30)
  <2>4. QED
    BY <1>1, <2>1, <2>2, <2>3
<1>6. Types
  BY <1>3, <1>4, <1>5, OperationTypes DEF Types, Whole
<1>7. phase \notin Running /\ phase # "opening" /\ phase # "snapshot" /\ phase # "up"
  BY <1>4 DEF Running
<1>8. QED
  BY <1>4, <1>5, <1>6, <1>7 DEF WALInv

-----------------------------------------------------------------------------
(* The steps of NewRaftNode.                                               *)

\* Nothing but an incomplete record is cut off at a start.
LEMMA TailCut ==
    ASSUME NEW f, Whole(f)
    PROVE  Stores(withoutTail(f), loaded(f)) /\ withoutTail(f).kind = f.kind
           /\ withoutTail(f).records = f.records
<1>1. PICK g : g = withoutTail(f)
  OBVIOUS
<1>2. f \in DiskFile /\ f.synced = Len(f.records) /\ f.cut = <<>> /\ Len(f.records) \in Nat
      /\ <<>> \in Seq(Entry)
  BY DEF Whole, DiskFile
<1>3. CASE f.torn
  <2>1. g = [f EXCEPT !.torn = FALSE, !.synced = Len(f.records), !.cut = <<>>]
    BY <1>1, <1>3 DEF withoutTail
  <2>2. g \in DiskFile
    BY <1>2, <2>1 DEF DiskFile
  <2>3. g.kind = f.kind /\ g.base = f.base /\ g.baseTerm = f.baseTerm
    BY <1>2, <2>1 DEF DiskFile
  <2>4. g.records = f.records /\ g.synced = Len(f.records)
    BY <1>2, <2>1 DEF DiskFile
  <2>5. g.cut = <<>> /\ g.torn = FALSE
    BY <1>2, <2>1 DEF DiskFile
  <2>6. loaded(g) = loaded(f)
    BY <2>3, <2>4, LoadedSame
  <2>7. QED
    BY <1>1, <2>2, <2>3, <2>4, <2>5, <2>6 DEF Stores, Whole
<1>4. CASE ~f.torn
  <2>1. g = f
    BY <1>1, <1>4 DEF withoutTail
  <2>2. QED
    BY <1>1, <1>4, <2>1 DEF Stores
<1>5. QED
  BY <1>3, <1>4

LEMMA OpenStep ==
    ASSUME WALInv, open
    PROVE  WALInv'
<1>1. Types /\ phase = "down" /\ old = {} /\ Whole(wal) /\ Sound(loaded(wal), snap)
  BY DEF WALInv, open
<1>2. PICK f, l : f = withoutTail(wal) /\ l = loaded(f) /\ wal' = f
  BY DEF open
<1>3. Stores(f, l) /\ Sound(l, snap) /\ f.records = wal.records /\ f \in DiskFile
  BY <1>1, <1>2, TailCut DEF Stores, Whole
<1>4. PICK b : b = IF f.kind = "legacy" /\ f.records # <<>> THEN f.records[1][1] - 1 ELSE f.base
  OBVIOUS
<1>5. l.base = b /\ l.entries = f.records /\ (l.known <=> (f.kind # "legacy" \/ b = 0))
  BY <1>2, <1>4, LoadedFields
<1>6. f.kind # "corrupt" /\ validSequence(f.records, l.base + 1)
      /\ f.kind \in {"none", "legacy", "v1"}
  <2>1. f.kind \in {"none", "legacy", "v1"}
    BY <1>3 DEF DiskFile
  <2>2. validSequence(f.records, l.base + 1)
    BY <1>3, <1>5 DEF Sound
  <2>3. QED
    BY <2>1, <2>2
<1>7. /\ mem' = l
      /\ IF f.kind = "none" \/ (f.kind = "legacy" /\ l.base = 0)
         THEN phase' = "opening" /\ op' = [Idle EXCEPT !.pc = "temp", !.target = l]
         ELSE phase' = "snapshot" /\ op' = Idle
  BY <1>2, <1>6 DEF open
<1>8. old' = {} /\ snap' = snap /\ snap \in Boundary
  BY <1>1 DEF open, Types
<1>9. CASE f.kind = "none" \/ (f.kind = "legacy" /\ l.base = 0)
  <2>1. phase' = "opening" /\ op' = [Idle EXCEPT !.pc = "temp", !.target = l]
    BY <1>7, <1>9
  <2>2. l.known
    BY <1>5, <1>9
  <2>3. phase' \in Running /\ phase' # "up"
    BY <2>1 DEF Running
  <2>4. QED
    BY <1>2, <1>3, <1>7, <1>8, <2>1, <2>2, <2>3, BeforeRewriting
<1>10. CASE ~(f.kind = "none" \/ (f.kind = "legacy" /\ l.base = 0))
  <2>1. phase' = "snapshot" /\ op' = Idle
    BY <1>7, <1>10
  <2>2. l.known => f.kind = "v1"
    BY <1>5, <1>6, <1>10
  <2>3. phase' \in {"snapshot", "up"} /\ phase' # "up"
    BY <2>1
  <2>4. op' \in Operation /\ op'.pc = "idle"
    BY <2>1, OperationTypes
  <2>5. QED
    BY <1>2, <1>3, <1>7, <1>8, <2>2, <2>3, <2>4, BetweenOperations
<1>11. QED
  BY <1>9, <1>10

LEMMA LoadSnapshotStep ==
    ASSUME WALInv, loadSnapshot
    PROVE  WALInv'
<1>1. phase = "snapshot" /\ op.pc = "idle" /\ mem' = mem /\ wal' = wal /\ old' = old /\ snap' = snap
  BY DEF loadSnapshot
<1>2. phase \in Running
  BY <1>1 DEF Running
<1>3. Types /\ Sound(mem, snap) /\ AtStep
  BY <1>2 DEF WALInv
<1>4. Stores(wal, mem) /\ old = {} /\ (mem.known => wal.kind = "v1")
      /\ snap \in Boundary /\ op \in Operation
  BY <1>1, <1>3 DEF AtStep, Types
<1>5. CASE snap.index = 0
  <2>1. mem.known
    BY <1>3, <1>5 DEF Sound
  <2>2. phase' = "up" /\ op' = op
    BY <1>5, <2>1 DEF loadSnapshot
  <2>3. phase' \in {"snapshot", "up"}
    BY <2>2
  <2>4. QED
    BY <1>1, <1>3, <1>4, <2>1, <2>2, <2>3, BetweenOperations
<1>6. CASE snap.index # 0
  <2>1. snap.index > 0
    BY <1>4, <1>6, SMTT(30) DEF Boundary
  <2>2. canRestore(mem, snap) /\ Sound(restored(mem, snap), snap) /\ restored(mem, snap).known
    BY <1>3, <1>4, <2>1, SoundRestored
  <2>3. op' = [Idle EXCEPT !.pc = "temp", !.target = restored(mem, snap)] /\ phase' = phase
    BY <1>6, <2>2 DEF loadSnapshot
  <2>4. phase' \in Running /\ phase' # "up"
    BY <1>1, <1>2, <2>3
  <2>5. QED
    BY <1>1, <1>3, <1>4, <2>2, <2>3, <2>4, BeforeRewriting
<1>7. QED
  BY <1>5, <1>6

-----------------------------------------------------------------------------
(* The steps of Append.                                                    *)

\* What holds between operations of a running node.
LEMMA AtRest ==
    ASSUME WALInv, phase = "up", op.pc = "idle"
    PROVE  /\ mem \in Log /\ mem.known /\ Sound(mem, snap) /\ Stores(wal, mem) /\ old = {}
           /\ wal.kind = "v1" /\ wal = Rewritten(mem) /\ snap \in Boundary /\ op \in Operation
           /\ phase \in Running
<1>1. phase \in Running
  BY DEF Running
<1>2. Types /\ Sound(mem, snap) /\ AtStep /\ mem.known
  BY <1>1 DEF WALInv
<1>3. Stores(wal, mem) /\ old = {} /\ wal.kind = "v1" /\ mem \in Log
  BY <1>2 DEF AtStep, Types
<1>4. wal = Rewritten(mem)
  BY <1>3, StoredV1
<1>5. QED
  BY <1>1, <1>2, <1>3, <1>4 DEF Types

\* The log with the whole batch is sound again.
LEMMA SoundAppended ==
    ASSUME NEW l, NEW s, Sound(l, s), NEW batch \in Seq(Entry),
           validSequence(batch, LastIndex(l) + 1)
    PROVE  Sound([l EXCEPT !.entries = l.entries \o batch], s)
<1>1. l.base \in Nat /\ l.entries \in Seq(Entry) /\ validSequence(l.entries, l.base + 1)
  BY DEF Sound, Log
<1>2. l.base + 1 \in Int /\ LastIndex(l) + 1 = (l.base + 1) + Len(l.entries)
  BY <1>1, SMTT(30) DEF LastIndex
<1>3. validSequence(l.entries \o batch, l.base + 1)
  BY <1>1, <1>2, ValidJoin
<1>4. l.entries \o batch \in Seq(Entry)
  BY <1>1, Joined
<1>5. QED
  BY <1>3, <1>4, SoundEntries

\* A batch is a sequence of entries, and not empty.
LEMMA BatchType ==
    ASSUME mem \in Log, NEW batch \in Batches
    PROVE  batch \in Seq(Entry) /\ batch # <<>> /\ Len(batch) \in Nat \ {0}
<1>1. PICK n \in 1..MaxBatch : batch \in [1..n -> {LastIndex(mem) + 1, LastIndex(mem) + 2} \X Terms]
  BY DEF Batches
<1>2. LastIndex(mem) \in Nat
  BY SMTT(30) DEF LastIndex, Log
<1>3. {LastIndex(mem) + 1, LastIndex(mem) + 2} \X Terms \subseteq Entry
  <2>1. {LastIndex(mem) + 1, LastIndex(mem) + 2} \subseteq Nat
    BY <1>2, SMTT(30)
  <2>2. Terms \subseteq Nat
    BY WALAssumption
  <2>3. QED
    BY <2>1, <2>2 DEF Entry
<1>4. batch \in [1..n -> Entry]
  BY <1>1, <1>3
<1>5. n \in Nat \ {0}
  BY WALAssumption, SMTT(30)
<1>6. QED
  BY <1>4, <1>5, SMTT(30)

LEMMA AppendStep ==
    ASSUME WALInv, NEW batch \in Batches, logAppend(batch)
    PROVE  WALInv'
<1>1. phase = "up" /\ op.pc = "idle" /\ validSequence(batch, LastIndex(mem) + 1)
      /\ op' = [pc |-> "write", target |-> [mem EXCEPT !.entries = mem.entries \o batch],
                batch |-> batch, start |-> Len(wal.records)]
      /\ mem' = mem /\ wal' = wal /\ old' = old /\ snap' = snap /\ phase' = phase
  BY DEF logAppend
<1>2. /\ mem \in Log /\ mem.known /\ Sound(mem, snap) /\ Stores(wal, mem) /\ old = {}
      /\ wal.kind = "v1" /\ wal = Rewritten(mem) /\ snap \in Boundary
      /\ phase \in Running
  BY <1>1, AtRest
<1>3. batch \in Seq(Entry) /\ batch # <<>> /\ Len(batch) \in Nat \ {0}
  BY <1>2, BatchType
<1>4. PICK t \in Log : t = [mem EXCEPT !.entries = mem.entries \o batch] /\ t.known = mem.known
                       /\ Sound(t, snap)
  <2>1. mem.entries \in Seq(Entry)
    BY <1>2 DEF Log
  <2>2. mem.entries \o batch \in Seq(Entry)
    BY <1>3, <2>1, Joined
  <2>3. Sound([mem EXCEPT !.entries = mem.entries \o batch], snap)
    BY <1>1, <1>2, <1>3, SoundAppended
  <2>4. [mem EXCEPT !.entries = mem.entries \o batch].known = mem.known
    BY <1>2, <2>2, OtherEntries
  <2>5. QED
    BY <2>3, <2>4 DEF Sound
<1>5. wal.records = mem.entries /\ wal.synced = Len(mem.entries) /\ wal.cut = <<>> /\ ~wal.torn
      /\ wal.base = mem.base /\ wal.baseTerm = mem.baseTerm /\ wal \in DiskFile
  <2>1. wal \in DiskFile /\ wal.cut = <<>> /\ ~wal.torn
    BY <1>2 DEF Stores, Whole
  <2>2. wal.records = mem.entries /\ wal.synced = Len(mem.entries)
        /\ wal.base = mem.base /\ wal.baseTerm = mem.baseTerm
    BY <1>2 DEF Rewritten, File
  <2>3. QED
    BY <2>1, <2>2
<1>6. op' = [pc |-> "write", target |-> t, batch |-> batch, start |-> Len(mem.entries)]
  BY <1>1, <1>4, <1>5
<1>7. op'.pc = "write" /\ op'.target = t /\ op'.batch = batch /\ op'.start = Len(mem.entries)
  BY <1>6
<1>8. op' \in Operation
  <2>1. Len(mem.entries) \in Nat
    BY <1>2, SMTT(30) DEF Log
  <2>2. QED
    BY <1>3, <1>6, <2>1 DEF Operation
<1>9. Types'
  BY <1>1, <1>2, <1>5, <1>8 DEF Types
<1>10. Appending'
  BY <1>1, <1>2, <1>3, <1>4, <1>7 DEF Appending, LastIndex
<1>11. Following(wal, mem, batch, 0)
  <2>1. mem.entries \o SubSeq(batch, 1, 0) = mem.entries
    BY <1>2, <1>3, Ends DEF Log
  <2>2. QED
    BY <1>2, <1>5, <2>1 DEF Following
<1>12. AtStep'
  <2>1. 0 \in 0..Len(batch) /\ (op'.pc = "sync" <=> 0 = Len(batch))
    BY <1>3, <1>7, SMTT(30)
  <2>2. \E n \in 0..Len(op'.batch) :
           Following(wal', mem', op'.batch, n) /\ (op'.pc = "sync" <=> n = Len(op'.batch))
    BY <1>1, <1>7, <1>11, <2>1
  <2>3. op'.pc \notin {"idle", "temp", "syncTemp", "rename"} /\ op'.pc # "idle"
        /\ op'.pc # "syncTemp" /\ op'.pc # "rename" /\ op'.pc \notin {"syncDir", "reopen"}
        /\ op'.pc # "failed"
    BY <1>7
  <2>4. QED
    BY <1>1, <1>5, <1>10, <2>2, <2>3 DEF AtStep
<1>13. phase' # "down" /\ phase' # "opening" /\ phase' # "snapshot"
  BY <1>1
<1>14. QED
  BY <1>1, <1>2, <1>4, <1>7, <1>9, <1>12, <1>13 DEF WALInv

\* What holds while Append writes and syncs.
LEMMA AtAppend ==
    ASSUME WALInv, op.pc \in {"write", "sync"}
    PROVE  /\ Types /\ phase = "up" /\ phase \in Running /\ mem \in Log /\ mem.known
           /\ Sound(mem, snap) /\ Sound(op.target, snap) /\ op.target.known
           /\ Appending /\ old = {} /\ op.batch \in Seq(Entry) /\ mem.entries \in Seq(Entry)
           /\ ~wal.torn /\ wal.cut = <<>>
           /\ \E n \in 0..Len(op.batch) :
                 Following(wal, mem, op.batch, n) /\ (op.pc = "sync" <=> n = Len(op.batch))
<1>1. Types /\ phase \in Running \cup {"down"} /\ op.pc # "idle"
  BY DEF WALInv, Types
<1>2. phase # "down"
  BY <1>1, OperationTypes DEF WALInv
<1>3. phase \in Running
  BY <1>1, <1>2
<1>4. Sound(mem, snap) /\ AtStep /\ Sound(op.target, snap) /\ op.target.known
  BY <1>1, <1>3 DEF WALInv
<1>5. /\ Appending /\ ~wal.torn /\ wal.cut = <<>>
      /\ \E n \in 0..Len(op.batch) :
            Following(wal, mem, op.batch, n) /\ (op.pc = "sync" <=> n = Len(op.batch))
  BY <1>4 DEF AtStep
<1>6. phase = "up" /\ old = {}
  BY <1>5 DEF Appending
<1>7. mem.known
  BY <1>6 DEF WALInv
<1>8. mem \in Log /\ op \in Operation
  BY <1>1 DEF Types
<1>9. op.batch \in Seq(Entry) /\ mem.entries \in Seq(Entry)
  BY <1>8 DEF Operation, Log
<1>10. QED
  BY <1>1, <1>3, <1>4, <1>5, <1>6, <1>7, <1>8, <1>9

\* Another step of the same operation: only op.pc changes.
LEMMA OtherPc ==
    ASSUME op \in Operation, NEW p \in {"idle", "write", "sync", "failed"} \cup Rewriting,
           op' = [op EXCEPT !.pc = p]
    PROVE  op' \in Operation /\ op'.pc = p /\ op'.target = op.target /\ op'.batch = op.batch
           /\ op'.start = op.start
<1>1. op' \in Operation
  BY DEF Operation
<1>2. op'.pc = p
  BY DEF Operation
<1>3. op'.target = op.target /\ op'.batch = op.batch /\ op'.start = op.start
  BY DEF Operation
<1>4. QED
  BY <1>1, <1>2, <1>3

LEMMA WriteRecordStep ==
    ASSUME WALInv, writeRecord
    PROVE  WALInv'
<1>1. op.pc = "write"
  BY DEF writeRecord
<1>2. op.pc \in {"write", "sync"} /\ op.pc # "sync"
  BY <1>1
<1>3. /\ Types /\ phase = "up" /\ phase \in Running /\ mem \in Log /\ mem.known
      /\ Sound(mem, snap) /\ Sound(op.target, snap) /\ op.target.known
      /\ Appending /\ old = {} /\ op.batch \in Seq(Entry) /\ mem.entries \in Seq(Entry)
      /\ ~wal.torn /\ wal.cut = <<>>
      /\ \E n \in 0..Len(op.batch) :
            Following(wal, mem, op.batch, n) /\ (op.pc = "sync" <=> n = Len(op.batch))
  BY <1>2, AtAppend
<1>4. PICK n \in 0..Len(op.batch) : Following(wal, mem, op.batch, n) /\ n # Len(op.batch)
  BY <1>2, <1>3
<1>5. n \in 0..(Len(op.batch) - 1) /\ n + 1 \in 0..Len(op.batch)
  BY <1>3, <1>4, SMTT(30)
<1>6. Len(wal.records) = Len(mem.entries) + n
  <2>1. SubSeq(op.batch, 1, n) \in Seq(Entry) /\ Len(SubSeq(op.batch, 1, n)) = n
    <3>1. n \in 0..n
      BY <1>5, SMTT(30)
    <3>2. QED
      BY <1>3, <3>1, PrefixOfPrefix, SMTT(30)
  <2>2. Len(mem.entries \o SubSeq(op.batch, 1, n)) = Len(mem.entries) + Len(SubSeq(op.batch, 1, n))
    BY <1>3, <2>1, Joined
  <2>3. QED
    BY <1>4, <2>1, <2>2 DEF Following
<1>7. Len(wal.records) - op.start + 1 = n + 1
  <2>1. op.start = Len(mem.entries) /\ Len(mem.entries) \in Nat
    BY <1>3, SMTT(30) DEF Appending
  <2>2. QED
    BY <1>5, <1>6, <2>1, SMTT(30)
<1>8. /\ wal' = [wal EXCEPT !.records = wal.records \o <<op.batch[n + 1]>>]
      /\ op' = [op EXCEPT !.pc = IF n + 1 = Len(op.batch) THEN "sync" ELSE "write"]
      /\ mem' = mem /\ old' = old /\ snap' = snap /\ phase' = phase
  BY <1>7 DEF writeRecord
<1>9. wal.records \o <<op.batch[n + 1]>> = mem.entries \o SubSeq(op.batch, 1, n + 1)
  <2>1. wal.records = mem.entries \o SubSeq(op.batch, 1, n)
    BY <1>4 DEF Following
  <2>2. (mem.entries \o SubSeq(op.batch, 1, n)) \o <<op.batch[n + 1]>>
           = mem.entries \o SubSeq(op.batch, 1, n + 1)
    <3>1. mem.entries \in Seq(Entry) /\ op.batch \in Seq(Entry)
      BY <1>3
    <3>2. QED
      BY <1>5, <3>1, OneMore
  <2>3. QED
    BY <2>1, <2>2
<1>10. mem.entries \o SubSeq(op.batch, 1, n + 1) \in Seq(Entry)
  <2>1. n + 1 \in 0..(n + 1)
    BY <1>5, SMTT(30)
  <2>2. SubSeq(op.batch, 1, n + 1) \in Seq(Entry)
    BY <1>3, <1>5, <2>1, PrefixOfPrefix
  <2>3. QED
    BY <1>3, <2>2, Joined
<1>11. PICK u \in Seq(Entry) : u = mem.entries \o SubSeq(op.batch, 1, n + 1)
                               /\ wal' = [wal EXCEPT !.records = u]
  BY <1>8, <1>9, <1>10
<1>12. Following(wal', mem, op.batch, n + 1) /\ ~wal'.torn /\ wal'.cut = <<>>
  <2>1. wal \in DiskFile /\ wal.kind = "v1" /\ wal.base = mem.base /\ wal.baseTerm = mem.baseTerm
        /\ wal.synced = Len(mem.entries)
    BY <1>4 DEF Following
  <2>2. wal' \in DiskFile
    BY <1>11, <2>1 DEF DiskFile
  <2>3. wal'.kind = wal.kind /\ wal'.base = wal.base /\ wal'.baseTerm = wal.baseTerm
    BY <1>11, <2>1 DEF DiskFile
  <2>4. wal'.synced = wal.synced /\ wal'.torn = wal.torn /\ wal'.cut = wal.cut
    BY <1>11, <2>1 DEF DiskFile
  <2>5. wal'.records = u
    BY <1>11, <2>1 DEF DiskFile
  <2>6. QED
    BY <1>3, <1>11, <2>1, <2>2, <2>3, <2>4, <2>5 DEF Following
<1>13. PICK p \in {"write", "sync"} : op' = [op EXCEPT !.pc = p]
                                      /\ (p = "sync" <=> n + 1 = Len(op.batch))
  <2>1. "write" # "sync"
    OBVIOUS
  <2>2. QED
    BY <1>8, <2>1
<1>14. op' \in Operation /\ op'.pc = p /\ op'.target = op.target /\ op'.batch = op.batch
       /\ op'.start = op.start
  BY <1>3, <1>13, OtherPc DEF Types
<1>15. Types'
  BY <1>3, <1>8, <1>12, <1>14 DEF Types, Following
<1>16. Appending'
  BY <1>3, <1>8, <1>14 DEF Appending, LastIndex
<1>17. AtStep'
  <2>1. \E k \in 0..Len(op'.batch) :
           Following(wal', mem', op'.batch, k) /\ (op'.pc = "sync" <=> k = Len(op'.batch))
    BY <1>5, <1>8, <1>12, <1>13, <1>14
  <2>2. op'.pc \notin {"idle", "temp", "syncTemp", "rename"} /\ op'.pc # "idle"
        /\ op'.pc # "syncTemp" /\ op'.pc # "rename" /\ op'.pc \notin {"syncDir", "reopen"}
        /\ op'.pc # "failed"
    BY <1>13, <1>14
  <2>3. QED
    BY <1>12, <1>16, <2>1, <2>2 DEF AtStep
<1>18. phase' # "down" /\ phase' # "opening" /\ phase' # "snapshot"
  BY <1>3, <1>8
<1>19. QED
  BY <1>3, <1>8, <1>14, <1>15, <1>17, <1>18 DEF WALInv

\* A sync puts every record of the file on the disk.
LEMMA Synced ==
    ASSUME NEW f \in DiskFile
    PROVE  /\ Whole(fileSync(f)) /\ fileSync(f).kind = f.kind /\ fileSync(f).base = f.base
           /\ fileSync(f).baseTerm = f.baseTerm /\ fileSync(f).records = f.records
           /\ fileSync(f).torn = f.torn
<1>1. PICK g : g = fileSync(f) /\ g = [f EXCEPT !.synced = Len(f.records), !.cut = <<>>]
  BY DEF fileSync
<1>2. Len(f.records) \in Nat /\ <<>> \in Seq(Entry)
  BY SMTT(30) DEF DiskFile
<1>3. g \in DiskFile
  BY <1>1, <1>2 DEF DiskFile
<1>4. g.kind = f.kind /\ g.base = f.base /\ g.baseTerm = f.baseTerm
  BY <1>1 DEF DiskFile
<1>5. g.records = f.records /\ g.torn = f.torn
  BY <1>1 DEF DiskFile
<1>6. g.synced = Len(f.records) /\ g.cut = <<>>
  BY <1>1 DEF DiskFile
<1>7. QED
  BY <1>1, <1>3, <1>4, <1>5, <1>6 DEF Whole

LEMMA SyncAppendStep ==
    ASSUME WALInv, syncAppend
    PROVE  WALInv'
<1>1. op.pc = "sync" /\ wal' = fileSync(wal) /\ mem' = op.target /\ op' = Idle /\ old' = old
      /\ snap' = snap /\ phase' = phase
  BY DEF syncAppend
<1>2. op.pc \in {"write", "sync"}
  BY <1>1
<1>3. /\ Types /\ phase = "up" /\ phase \in Running /\ mem \in Log /\ mem.known
      /\ Sound(mem, snap) /\ Sound(op.target, snap) /\ op.target.known
      /\ Appending /\ old = {} /\ op.batch \in Seq(Entry) /\ mem.entries \in Seq(Entry)
      /\ ~wal.torn /\ wal.cut = <<>>
      /\ \E n \in 0..Len(op.batch) :
            Following(wal, mem, op.batch, n) /\ (op.pc = "sync" <=> n = Len(op.batch))
  BY <1>2, AtAppend
<1>4. Following(wal, mem, op.batch, Len(op.batch))
  BY <1>1, <1>3
<1>5. wal.records = mem.entries \o op.batch /\ wal \in DiskFile /\ wal.kind = "v1"
      /\ wal.base = mem.base /\ wal.baseTerm = mem.baseTerm
  BY <1>3, <1>4, Ends DEF Following
<1>6. /\ Whole(wal') /\ wal'.kind = "v1" /\ wal'.base = mem.base /\ wal'.baseTerm = mem.baseTerm
      /\ wal'.records = mem.entries \o op.batch /\ wal'.torn = wal.torn /\ wal' \in DiskFile
  BY <1>1, <1>5, Synced DEF Whole
<1>7. op.target = [base |-> mem.base, baseTerm |-> mem.baseTerm, known |-> TRUE,
                   entries |-> mem.entries \o op.batch]
  <2>1. op.target = [mem EXCEPT !.entries = mem.entries \o op.batch]
    BY <1>3 DEF Appending
  <2>2. mem.entries \o op.batch \in Seq(Entry)
    BY <1>3, Joined
  <2>3. op.target \in Log /\ op.target.base = mem.base /\ op.target.baseTerm = mem.baseTerm
    <3>1. op.target \in Log
      BY <1>3 DEF Sound
    <3>2. mem \in Log
      BY <1>3
    <3>3. op.target.base = mem.base /\ op.target.baseTerm = mem.baseTerm
      BY <2>1, <3>2 DEF Log
    <3>4. QED
      BY <3>1, <3>2, <3>3
  <2>4. op.target.entries = mem.entries \o op.batch
    BY <1>3, <2>1, <2>2, OtherEntries
  <2>5. op.target.known = TRUE
    BY <1>3, <2>3 DEF Log
  <2>6. QED
    BY <2>3, <2>4, <2>5, LogRecord
<1>8. loaded(wal') = op.target
  <2>1. loaded(wal') = [base |-> wal'.base, baseTerm |-> wal'.baseTerm, known |-> TRUE,
                        entries |-> wal'.records]
    BY <1>6, LoadedV1
  <2>2. QED
    BY <1>6, <1>7, <2>1
<1>9. Stores(wal', mem')
  BY <1>1, <1>3, <1>6, <1>8 DEF Stores
<1>10. op' \in Operation /\ op'.pc = "idle" /\ snap' \in Boundary
  BY <1>1, <1>3, OperationTypes DEF Types
<1>11. phase' \in {"snapshot", "up"}
  BY <1>1, <1>3
<1>12. QED
  BY <1>1, <1>3, <1>6, <1>9, <1>10, <1>11, BetweenOperations

LEMMA FailAppendStep ==
    ASSUME WALInv, failAppend
    PROVE  WALInv'
<1>1. op.pc \in {"write", "sync"} /\ op' = [op EXCEPT !.pc = "failed"] /\ mem' = mem /\ old' = old
      /\ snap' = snap /\ phase' = phase
  BY DEF failAppend, failStorage
<1>2. /\ Types /\ phase = "up" /\ phase \in Running /\ mem \in Log /\ mem.known
      /\ Sound(mem, snap) /\ Sound(op.target, snap) /\ op.target.known
      /\ Appending /\ old = {} /\ op.batch \in Seq(Entry) /\ mem.entries \in Seq(Entry)
      /\ ~wal.torn /\ wal.cut = <<>>
      /\ \E n \in 0..Len(op.batch) :
            Following(wal, mem, op.batch, n) /\ (op.pc = "sync" <=> n = Len(op.batch))
  BY <1>1, AtAppend
<1>3. PICK n \in 0..Len(op.batch) : Following(wal, mem, op.batch, n)
  BY <1>2
<1>4. /\ wal \in DiskFile /\ wal.kind = "v1" /\ wal.base = mem.base /\ wal.baseTerm = mem.baseTerm
      /\ wal.synced = Len(mem.entries) /\ wal.records = mem.entries \o SubSeq(op.batch, 1, n)
  BY <1>3 DEF Following
<1>5. SubSeq(op.batch, 1, n) \in Seq(Entry) /\ SubSeq(op.batch, 1, 0) = <<>> /\ 0 \in 0..Len(op.batch)
      /\ mem.entries \o <<>> = mem.entries
  <2>1. n \in 0..n /\ 0 \in 0..Len(op.batch)
    BY <1>2, SMTT(30)
  <2>2. SubSeq(op.batch, 1, n) \in Seq(Entry)
    BY <1>2, <2>1, PrefixOfPrefix
  <2>3. QED
    BY <1>2, <2>1, <2>2, Ends
<1>6. HalfAppended(wal', mem, op.batch)
  <2>1. CASE wal' = [wal EXCEPT !.records = SubSeq(wal.records, 1, op.start), !.torn = FALSE,
                                !.cut = SubSeq(wal.records, wal.synced + 1, Len(wal.records))]
    <3>0. PICK r \in Seq(Entry) : r = SubSeq(op.batch, 1, n) /\ wal.records = mem.entries \o r
      BY <1>4, <1>5
    <3>0a. SubSeq(mem.entries \o r, 1, Len(mem.entries)) = mem.entries
           /\ SubSeq(mem.entries \o r, Len(mem.entries) + 1, Len(mem.entries \o r)) = r
      BY <1>2, TakenApart
    <3>1. SubSeq(wal.records, 1, op.start) = mem.entries
      BY <1>2, <3>0, <3>0a DEF Appending
    <3>2. SubSeq(wal.records, wal.synced + 1, Len(wal.records)) = SubSeq(op.batch, 1, n)
      BY <1>4, <3>0, <3>0a
    <3>3. PICK q \in Seq(Entry) : q = SubSeq(op.batch, 1, n)
             /\ wal' = [wal EXCEPT !.records = mem.entries, !.torn = FALSE, !.cut = q]
      BY <1>5, <2>1, <3>1, <3>2
    <3>4. wal' \in DiskFile
      BY <1>2, <1>4, <3>3 DEF DiskFile
    <3>5. wal'.kind = wal.kind /\ wal'.base = wal.base /\ wal'.baseTerm = wal.baseTerm
      BY <1>4, <3>3 DEF DiskFile
    <3>6. wal'.synced = wal.synced /\ wal'.records = mem.entries /\ wal'.cut = q
      BY <1>4, <3>3 DEF DiskFile
    <3>7. Following(wal', mem, op.batch, 0)
      BY <1>4, <1>5, <3>4, <3>5, <3>6 DEF Following
    <3>8. QED
      BY <1>5, <3>3, <3>6, <3>7 DEF HalfAppended
  <2>2. CASE \E torn \in (IF op.pc = "write" THEN BOOLEAN ELSE {FALSE}) :
                wal' = [wal EXCEPT !.torn = torn]
    <3>1. PICK torn \in BOOLEAN : wal' = [wal EXCEPT !.torn = torn]
      BY <2>2
    <3>2. wal' \in DiskFile
      BY <1>4, <3>1 DEF DiskFile
    <3>3. wal'.kind = wal.kind /\ wal'.base = wal.base /\ wal'.baseTerm = wal.baseTerm
      BY <1>4, <3>1 DEF DiskFile
    <3>4. wal'.synced = wal.synced /\ wal'.records = wal.records /\ wal'.cut = wal.cut
      BY <1>4, <3>1 DEF DiskFile
    <3>5. Following(wal', mem, op.batch, n)
      BY <1>4, <3>2, <3>3, <3>4 DEF Following
    <3>6. wal'.cut = SubSeq(op.batch, 1, 0)
      BY <1>2, <1>5, <3>4
    <3>7. QED
      BY <1>5, <3>5, <3>6 DEF HalfAppended
  <2>3. QED
    BY <2>1, <2>2 DEF failAppend
<1>7. "failed" \in {"idle", "write", "sync", "failed"} \cup Rewriting
  OBVIOUS
<1>8. op' \in Operation /\ op'.pc = "failed" /\ op'.target = op.target /\ op'.batch = op.batch
      /\ op'.start = op.start
  BY <1>1, <1>2, <1>7, OtherPc DEF Types
<1>9. Types'
  BY <1>1, <1>2, <1>6, <1>8 DEF Types, HalfAppended, Following
<1>10. Appending'
  BY <1>1, <1>2, <1>8 DEF Appending, LastIndex
<1>11. AtStep'
  <2>1. op'.pc \notin {"idle", "temp", "syncTemp", "rename"} /\ op'.pc # "idle"
        /\ op'.pc # "syncTemp" /\ op'.pc # "rename" /\ op'.pc \notin {"syncDir", "reopen"}
        /\ op'.pc \notin {"write", "sync"}
    BY <1>8
  <2>2. HalfAppended(wal', mem', op'.batch) /\ phase' = "up"
    BY <1>1, <1>2, <1>6, <1>8
  <2>3. QED
    BY <1>10, <2>1, <2>2 DEF AtStep
<1>12. phase' # "down" /\ phase' # "opening" /\ phase' # "snapshot"
  BY <1>1, <1>2
<1>13. QED
  BY <1>1, <1>2, <1>8, <1>9, <1>11, <1>12 DEF WALInv

-----------------------------------------------------------------------------
(* The steps of a rewriting, and the operations that begin one.             *)

LEMMA RewriteStep ==
    ASSUME WALInv, NEW l, rewrite(l), Sound(l, snap), l.known
    PROVE  WALInv'
<1>1. phase = "up" /\ op.pc = "idle" /\ op' = [Idle EXCEPT !.pc = "temp", !.target = l]
      /\ mem' = mem /\ wal' = wal /\ old' = old /\ snap' = snap /\ phase' = phase
  BY DEF rewrite
<1>2. /\ mem.known /\ Sound(mem, snap) /\ Stores(wal, mem) /\ old = {} /\ snap \in Boundary
      /\ phase \in Running
  BY <1>1, AtRest
<1>3. QED
  BY <1>1, <1>2, BeforeRewriting

LEMMA TruncateStep ==
    ASSUME WALInv, NEW index \in Nat, TruncateAfter(index)
    PROVE  WALInv'
<1>. DEFINE l == [mem EXCEPT !.entries = SubSeq(mem.entries, 1, index - mem.base)]
<1>1. index >= mem.base /\ index < LastIndex(mem) /\ rewrite(l) /\ phase = "up" /\ op.pc = "idle"
  BY DEF TruncateAfter, rewrite
<1>2. mem \in Log /\ mem.known /\ Sound(mem, snap)
  BY <1>1, AtRest
<1>3. mem.base \in Nat /\ mem.entries \in Seq(Entry) /\ validSequence(mem.entries, mem.base + 1)
  BY <1>2 DEF Log, Sound
<1>4. PICK k : k = index - mem.base /\ k \in (1 - 1)..Len(mem.entries)
               /\ 1 \in 1..(Len(mem.entries) + 1) /\ mem.base + 1 \in Int
               /\ (mem.base + 1) + 1 - 1 = mem.base + 1
  BY <1>1, <1>3, SMTT(30) DEF LastIndex
<1>5. PICK e \in Seq(Entry) : e = SubSeq(mem.entries, 1, index - mem.base)
                              /\ validSequence(e, mem.base + 1)
  <2>1. SubSeq(mem.entries, 1, k) \in Seq(Entry)
    BY <1>3, <1>4, PartOf
  <2>2. validSequence(SubSeq(mem.entries, 1, k), (mem.base + 1) + 1 - 1)
    BY <1>3, <1>4, ValidPart
  <2>3. QED
    BY <1>4, <2>1, <2>2
<1>6. Sound(l, snap)
  BY <1>2, <1>5, SoundEntries
<1>7. l.known
  BY <1>2, <1>5 DEF Log
<1>. HIDE DEF l
<1>8. QED
  BY <1>1, <1>6, <1>7, RewriteStep

LEMMA CompactStep ==
    ASSUME WALInv, CompactUpTo
    PROVE  WALInv'
<1>. DEFINE l == [base |-> snap.index, baseTerm |-> snap.term, known |-> TRUE,
                  entries |-> SubSeq(mem.entries, snap.index - mem.base + 1, Len(mem.entries))]
<1>1. snap.index > mem.base /\ snap.index <= LastIndex(mem) /\ termAt(mem, snap.index) = snap.term
      /\ rewrite(l) /\ phase = "up" /\ op.pc = "idle"
  BY DEF CompactUpTo, rewrite
<1>2. mem \in Log /\ Sound(mem, snap) /\ snap \in Boundary
  BY <1>1, AtRest
<1>3. snap.index > 0 /\ snap.index # mem.base
  BY <1>1, <1>2, SMTT(30) DEF Log, Boundary
<1>4. l = restored(mem, snap)
  BY <1>1, <1>3 DEF restored
<1>5. Sound(l, snap) /\ l.known
  BY <1>2, <1>3, <1>4, SoundRestored
<1>. HIDE DEF l
<1>6. QED
  BY <1>1, <1>5, RewriteStep

LEMMA RestoreStep ==
    ASSUME WALInv, RestoreSnapshotBoundary
    PROVE  WALInv'
<1>1. snap.index > 0 /\ rewrite(restored(mem, snap)) /\ phase = "up" /\ op.pc = "idle"
  BY DEF RestoreSnapshotBoundary, rewrite
<1>2. Sound(mem, snap) /\ snap \in Boundary
  BY <1>1, AtRest
<1>3. Sound(restored(mem, snap), snap) /\ restored(mem, snap).known
  BY <1>1, <1>2, SoundRestored
<1>4. QED
  BY <1>1, <1>3, RewriteStep

LEMMA SaveSnapshotStep ==
    ASSUME WALInv, NEW index \in Nat, NEW term \in Nat, saveSnapshot(index, term)
    PROVE  WALInv'
<1>1. phase = "up" /\ op.pc = "idle" /\ index > mem.base /\ snap' = [index |-> index, term |-> term]
      /\ mem' = mem /\ wal' = wal /\ old' = old /\ op' = op /\ phase' = phase
  BY DEF saveSnapshot
<1>2. /\ mem \in Log /\ mem.known /\ Sound(mem, snap) /\ Stores(wal, mem) /\ old = {}
      /\ wal.kind = "v1" /\ op \in Operation
  BY <1>1, AtRest
<1>3. snap' \in Boundary /\ snap'.index = index
  BY <1>1 DEF Boundary
<1>4. mem.base <= index /\ index # mem.base
  BY <1>1, <1>2, SMTT(30) DEF Log
<1>5. Sound(mem', snap')
  BY <1>1, <1>2, <1>3, <1>4 DEF Sound
<1>6. phase' \in {"snapshot", "up"}
  BY <1>1
<1>7. QED
  BY <1>1, <1>2, <1>3, <1>5, <1>6, BetweenOperations

\* What holds while persistStateToDiskLocked runs.
LEMMA AtRewriting ==
    ASSUME WALInv, op.pc \in Rewriting
    PROVE  /\ Types /\ phase \in Running /\ AtStep /\ mem \in Log /\ op.target \in Log
           /\ Sound(mem, snap) /\ Sound(op.target, snap) /\ op.target.known
           /\ wal \in DiskFile /\ op \in Operation /\ snap \in Boundary
           /\ Rewritten(op.target) \in DiskFile /\ Stores(Rewritten(op.target), op.target)
           /\ Rewritten(op.target).kind = "v1"
<1>1. Types /\ phase \in Running \cup {"down"} /\ op.pc # "idle"
  BY DEF WALInv, Types, Rewriting
<1>2. phase # "down"
  BY <1>1, OperationTypes DEF WALInv
<1>3. phase \in Running
  BY <1>1, <1>2
<1>4. Sound(mem, snap) /\ AtStep /\ Sound(op.target, snap) /\ op.target.known
  BY <1>1, <1>3 DEF WALInv
<1>5. mem \in Log /\ op.target \in Log
  BY <1>4 DEF Sound
<1>6. Rewritten(op.target) \in DiskFile /\ Stores(Rewritten(op.target), op.target)
      /\ Rewritten(op.target).kind = "v1"
  BY <1>4, <1>5, RewrittenStores
<1>7. QED
  BY <1>1, <1>3, <1>4, <1>5, <1>6 DEF Types

\* The next step of a rewriting.
LEMMA RewritingGoesOn ==
    ASSUME WALInv, op.pc \in Rewriting, NEW p \in Rewriting, op' = [op EXCEPT !.pc = p],
           mem' = mem, snap' = snap, phase' = phase, wal' \in DiskFile,
           op'.pc = p /\ op'.target = op.target => AtStep'
    PROVE  WALInv'
<1>1. /\ Types /\ phase \in Running /\ mem \in Log /\ Sound(mem, snap)
      /\ Sound(op.target, snap) /\ op.target.known /\ op \in Operation /\ snap \in Boundary
  BY AtRewriting
<1>2. op' \in Operation /\ op'.pc = p /\ op'.target = op.target
  BY <1>1, OtherPc
<1>3. Types'
  BY <1>1, <1>2 DEF Types
<1>4. phase' # "down"
  BY <1>1 DEF Running
<1>5. QED
  BY <1>1, <1>2, <1>3, <1>4 DEF WALInv

LEMMA WriteTempStep ==
    ASSUME WALInv, writeTemp
    PROVE  WALInv'
<1>1. op.pc = "temp" /\ tmp' = File("v1", op.target, 0) /\ op' = [op EXCEPT !.pc = "syncTemp"]
      /\ mem' = mem /\ wal' = wal /\ old' = old /\ snap' = snap /\ phase' = phase
  BY DEF writeTemp
<1>2. op.pc \in Rewriting /\ "syncTemp" \in Rewriting /\ op.pc \in {"idle", "temp", "syncTemp", "rename"}
  BY <1>1 DEF Rewriting
<1>3. AtStep /\ wal' \in DiskFile
  BY <1>1, <1>2, AtRewriting
<1>4. Stores(wal, mem) /\ old = {}
  BY <1>2, <1>3 DEF AtStep
<1>5. ASSUME op'.pc = "syncTemp", op'.target = op.target
      PROVE  AtStep'
  <2>1. op'.pc # "idle" /\ op'.pc \notin {"write", "sync"} /\ op'.pc # "rename"
        /\ op'.pc \notin {"syncDir", "reopen"} /\ op'.pc # "failed"
    BY <1>5
  <2>2. QED
    BY <1>1, <1>4, <1>5, <2>1 DEF AtStep
<1>6. QED
  BY <1>1, <1>2, <1>3, <1>5, RewritingGoesOn

LEMMA SyncTempStep ==
    ASSUME WALInv, syncTemp
    PROVE  WALInv'
<1>1. op.pc = "syncTemp" /\ tmp' = fileSync(tmp) /\ op' = [op EXCEPT !.pc = "rename"]
      /\ mem' = mem /\ wal' = wal /\ old' = old /\ snap' = snap /\ phase' = phase
  BY DEF syncTemp
<1>2. op.pc \in Rewriting /\ "rename" \in Rewriting /\ op.pc \in {"idle", "temp", "syncTemp", "rename"}
  BY <1>1 DEF Rewriting
<1>3. AtStep /\ wal' \in DiskFile
  BY <1>1, <1>2, AtRewriting
<1>4. Stores(wal, mem) /\ old = {} /\ tmp = File("v1", op.target, 0)
  BY <1>1, <1>2, <1>3 DEF AtStep
<1>5. tmp' = Rewritten(op.target)
  <2>1. tmp = [kind |-> "v1", base |-> op.target.base, baseTerm |-> op.target.baseTerm,
               records |-> op.target.entries, torn |-> FALSE, synced |-> 0, cut |-> <<>>]
    BY <1>4 DEF File
  <2>2. tmp' = [tmp EXCEPT !.synced = Len(tmp.records), !.cut = <<>>]
    BY <1>1 DEF fileSync
  <2>3. QED
    BY <2>1, <2>2 DEF Rewritten, File
<1>6. ASSUME op'.pc = "rename", op'.target = op.target
      PROVE  AtStep'
  <2>1. op'.pc # "idle" /\ op'.pc \notin {"write", "sync"} /\ op'.pc # "syncTemp"
        /\ op'.pc \notin {"syncDir", "reopen"} /\ op'.pc # "failed"
    BY <1>6
  <2>2. QED
    BY <1>1, <1>4, <1>5, <1>6, <2>1 DEF AtStep
<1>7. QED
  BY <1>1, <1>2, <1>3, <1>6, RewritingGoesOn

LEMMA RenameTempStep ==
    ASSUME WALInv, renameTemp
    PROVE  WALInv'
<1>1. op.pc = "rename" /\ wal' = tmp /\ old' = {wal} /\ op' = [op EXCEPT !.pc = "syncDir"]
      /\ mem' = mem /\ snap' = snap /\ phase' = phase
  BY DEF renameTemp
<1>2. op.pc \in Rewriting /\ "syncDir" \in Rewriting /\ op.pc \in {"idle", "temp", "syncTemp", "rename"}
  BY <1>1 DEF Rewriting
<1>3. AtStep /\ Rewritten(op.target) \in DiskFile
  BY <1>2, AtRewriting
<1>4. Stores(wal, mem) /\ tmp = Rewritten(op.target)
  BY <1>1, <1>2, <1>3 DEF AtStep
<1>5. ASSUME op'.pc = "syncDir", op'.target = op.target
      PROVE  AtStep'
  <2>1. op'.pc \notin {"idle", "temp", "syncTemp", "rename"} /\ op'.pc # "idle"
        /\ op'.pc \notin {"write", "sync"} /\ op'.pc # "syncTemp" /\ op'.pc # "rename"
        /\ op'.pc # "failed"
    BY <1>5
  <2>2. QED
    BY <1>1, <1>4, <1>5, <2>1 DEF AtStep
<1>6. QED
  BY <1>1, <1>2, <1>3, <1>4, <1>5, RewritingGoesOn

LEMMA SyncDirectoryStep ==
    ASSUME WALInv, syncDirectory
    PROVE  WALInv'
<1>1. op.pc = "syncDir" /\ old' = {} /\ op' = [op EXCEPT !.pc = "reopen"]
      /\ mem' = mem /\ wal' = wal /\ snap' = snap /\ phase' = phase
  BY DEF syncDirectory
<1>2. op.pc \in Rewriting /\ "reopen" \in Rewriting /\ op.pc \in {"syncDir", "reopen"}
  BY <1>1 DEF Rewriting
<1>3. AtStep /\ wal' \in DiskFile
  BY <1>1, <1>2, AtRewriting
<1>4. wal = Rewritten(op.target)
  BY <1>2, <1>3 DEF AtStep
<1>5. ASSUME op'.pc = "reopen", op'.target = op.target
      PROVE  AtStep'
  <2>1. op'.pc \notin {"idle", "temp", "syncTemp", "rename"} /\ op'.pc # "idle"
        /\ op'.pc \notin {"write", "sync"} /\ op'.pc # "syncTemp" /\ op'.pc # "rename"
        /\ op'.pc # "failed"
    BY <1>5
  <2>2. QED
    BY <1>1, <1>4, <1>5, <2>1 DEF AtStep
<1>6. QED
  BY <1>1, <1>2, <1>3, <1>5, RewritingGoesOn

LEMMA ReopenStep ==
    ASSUME WALInv, reopen
    PROVE  WALInv'
<1>1. op.pc = "reopen" /\ mem' = op.target /\ op' = Idle /\ phase' = nextPhase(phase)
      /\ wal' = wal /\ old' = old /\ snap' = snap
  BY DEF reopen
<1>2. op.pc \in Rewriting /\ op.pc \in {"syncDir", "reopen"} /\ op.pc # "syncDir"
  BY <1>1 DEF Rewriting
<1>3. /\ AtStep /\ phase \in Running /\ Sound(op.target, snap) /\ op.target.known
      /\ Stores(Rewritten(op.target), op.target) /\ Rewritten(op.target).kind = "v1"
      /\ snap \in Boundary
  BY <1>2, AtRewriting
<1>4. wal = Rewritten(op.target) /\ old = {}
  BY <1>2, <1>3 DEF AtStep
<1>5. phase' \in {"snapshot", "up"}
  <2>1. nextPhase("opening") = "snapshot" /\ nextPhase("snapshot") = "up" /\ nextPhase("up") = "up"
    BY DEF nextPhase
  <2>2. phase \in {"opening", "snapshot", "up"}
    BY <1>3 DEF Running
  <2>3. QED
    BY <1>1, <2>1, <2>2
<1>6. op' \in Operation /\ op'.pc = "idle"
  BY <1>1, OperationTypes
<1>7. QED
  BY <1>1, <1>3, <1>4, <1>5, <1>6, BetweenOperations

\* While a rewriting runs every file is on the disk, with the old or the new log.
LEMMA OldOrNew ==
    ASSUME WALInv, op.pc \in Rewriting
    PROVE  \A f \in {wal} \cup old : Stores(f, mem) \/ Stores(f, op.target)
<1>1. AtStep /\ Stores(Rewritten(op.target), op.target)
  BY AtRewriting
<1>2. CASE op.pc \in {"idle", "temp", "syncTemp", "rename"}
  BY <1>1, <1>2 DEF AtStep
<1>3. CASE op.pc \in {"syncDir", "reopen"}
  BY <1>1, <1>3 DEF AtStep
<1>4. QED
  BY <1>2, <1>3, SMTT(30) DEF Rewriting

LEMMA FailRewriteStep ==
    ASSUME WALInv, failRewrite
    PROVE  WALInv'
<1>1. op.pc \in Rewriting /\ mem' = mem /\ wal' = wal /\ snap' = snap
  BY DEF failRewrite, Rewriting
<1>2. /\ Types /\ phase \in Running /\ mem \in Log /\ Sound(mem, snap) /\ op \in Operation
      /\ Sound(op.target, snap) /\ op.target.known /\ snap \in Boundary /\ wal \in DiskFile
  BY <1>1, AtRewriting
<1>3. \A f \in {wal} \cup old : Stores(f, mem) \/ Stores(f, op.target)
  BY <1>1, OldOrNew
<1>4. CASE phase = "up"
  <2>1. op' = [op EXCEPT !.pc = "failed"] /\ old' = old /\ phase' = phase
    BY <1>4 DEF failRewrite, failStorage
  <2>2. "failed" \in {"idle", "write", "sync", "failed"} \cup Rewriting
    OBVIOUS
  <2>3. op' \in Operation /\ op'.pc = "failed" /\ op'.target = op.target
    BY <1>2, <2>1, <2>2, OtherPc
  <2>4. Types'
    BY <1>1, <1>2, <2>1, <2>3 DEF Types
  <2>5. AtStep'
    <3>1. op'.pc \notin {"idle", "temp", "syncTemp", "rename"} /\ op'.pc # "idle"
          /\ op'.pc \notin {"write", "sync"} /\ op'.pc # "syncTemp" /\ op'.pc # "rename"
          /\ op'.pc \notin {"syncDir", "reopen"}
      BY <2>3
    <3>2. \A f \in {wal'} \cup old' : Stores(f, mem') \/ Stores(f, op'.target)
      BY <1>1, <1>3, <2>1, <2>3
    <3>3. QED
      BY <1>4, <2>1, <3>1, <3>2 DEF AtStep
  <2>6. phase' # "down" /\ phase' # "opening" /\ phase' # "snapshot" /\ mem.known
    BY <1>4, <2>1 DEF WALInv
  <2>7. QED
    BY <1>1, <1>2, <2>1, <2>3, <2>4, <2>5, <2>6 DEF WALInv
<1>5. CASE phase # "up"
  <2>1. op' = Idle /\ old' = {} /\ phase' = "down"
    BY <1>5 DEF failRewrite
  <2>2. Whole(wal) /\ Sound(loaded(wal), snap)
    BY <1>2, <1>3 DEF Stores
  <2>3. QED
    BY <1>1, <1>2, <2>1, <2>2, Down
<1>6. QED
  BY <1>4, <1>5

-----------------------------------------------------------------------------
(* The loss of power.                                                      *)

LEMMA CrashStep ==
    ASSUME WALInv, crash
    PROVE  WALInv'
<1>1. mem' = emptyLog /\ old' = {} /\ op' = Idle /\ phase' = "down" /\ snap' = snap
  BY DEF crash
<1>2. PICK g \in {wal} \cup old : wal' \in AfterPowerLoss(g)
  BY DEF crash
<1>3. Types
  BY DEF WALInv
<1>4. snap \in Boundary /\ phase \in Running \cup {"down"}
  BY <1>3 DEF Types
<1>5. Whole(wal') /\ Sound(loaded(wal'), snap)
  <2>1. PICK f : f = wal' /\ f \in AfterPowerLoss(g)
    BY <1>2
  <2>2. CASE phase \in Running
    <3>1. Whole(f) /\ Sound(loaded(f), snap)
      BY <1>2, <2>1, <2>2, PowerLoss
    <3>2. QED
      BY <2>1, <3>1
  <2>3. CASE phase = "down"
    <3>1. old = {} /\ Whole(wal) /\ Sound(loaded(wal), snap)
      BY <2>3 DEF WALInv
    <3>2. g = wal
      BY <3>1
    <3>3. Whole(f) /\ loaded(f) = loaded(wal)
      BY <2>1, <3>1, <3>2, WholeSurvives
    <3>4. QED
      BY <2>1, <3>1, <3>3
  <2>4. QED
    BY <1>4, <2>2, <2>3
<1>6. QED
  BY <1>1, <1>4, <1>5, OperationTypes, Down

-----------------------------------------------------------------------------
(* The theorems.                                                           *)

LEMMA NextWAL ==
    ASSUME WALInv, [Next]_vars
    PROVE  WALInv'
<1>1. MaxIndex \in Nat /\ Terms \subseteq Nat
  BY WALAssumption
<1>2. CASE recover
  BY <1>2, OpenStep, LoadSnapshotStep DEF recover
<1>3. CASE \E b \in Batches : logAppend(b)
  BY <1>3, AppendStep
<1>4. CASE \E n \in 0..MaxIndex : TruncateAfter(n)
  <2>1. PICK n \in 0..MaxIndex : TruncateAfter(n)
    BY <1>4
  <2>2. n \in Nat
    BY <1>1, <2>1, SMTT(30)
  <2>3. QED
    BY <2>1, <2>2, TruncateStep
<1>5. CASE \E n \in 1..MaxIndex, t \in Terms : saveSnapshot(n, t)
  <2>1. PICK n \in 1..MaxIndex, t \in Terms : saveSnapshot(n, t)
    BY <1>5
  <2>2. n \in Nat /\ t \in Nat
    BY <1>1, <2>1, SMTT(30)
  <2>3. QED
    BY <2>1, <2>2, SaveSnapshotStep
<1>6. CASE CompactUpTo \/ RestoreSnapshotBoundary
  BY <1>6, CompactStep, RestoreStep
<1>7. CASE progress
  BY <1>7, WriteRecordStep, SyncAppendStep, WriteTempStep, SyncTempStep, RenameTempStep,
     SyncDirectoryStep, ReopenStep DEF progress
<1>8. CASE failAppend \/ failRewrite
  BY <1>8, FailAppendStep, FailRewriteStep
<1>9. CASE crash
  BY <1>9, CrashStep
<1>10. CASE UNCHANGED vars
  <2>1. mem' = mem /\ wal' = wal /\ old' = old /\ tmp' = tmp /\ snap' = snap /\ op' = op
        /\ phase' = phase
    BY <1>10 DEF vars
  <2>2. QED
    BY <2>1 DEF WALInv, Types, AtStep, Appending, LastIndex
<1>11. QED
  BY <1>2, <1>3, <1>4, <1>5, <1>6, <1>7, <1>8, <1>9, <1>10 DEF Next

\* In every state of the write-ahead log the files are where the running operation
\* of log.go has left them, and every file that a start may find is one that it
\* accepts (newRaftLogWithWAL, loadSnapshotFromDisk).
THEOREM WALInvariant == Spec => []WALInv
<1>1. Init => WALInv
  BY InitWAL
<1>2. WALInv /\ [Next]_vars => WALInv'
  BY NextWAL
<1>3. QED
  BY <1>1, <1>2, PTL DEF Spec

\* Whenever the power fails, the file that is found then can be read, and holds the
\* log from before or from after the operation that was running, or a part of the
\* batch that was being appended (loadFromDisk, Append, persistStateToDiskLocked).
THEOREM PowerLossNeverLosesLog == Spec => []PowerLossKeepsLog
<1>1. ASSUME WALInv PROVE PowerLossKeepsLog
  <2>1. ASSUME phase \in Running, NEW g \in {wal} \cup old, NEW f \in AfterPowerLoss(g)
        PROVE  /\ validSequence(f.records, loaded(f).base + 1)
               /\ IF op.pc = "idle" THEN loaded(f) = mem ELSE loaded(f) \in Outcomes
    <3>1. /\ Sound(loaded(f), snap) /\ (op.pc = "idle" => loaded(f) = mem)
          /\ op.pc # "idle" => loaded(f) \in Outcomes
      BY <1>1, <2>1, PowerLoss
    <3>2. loaded(f).entries = f.records
      BY LoadedFields
    <3>3. QED
      BY <3>1, <3>2 DEF Sound
  <2>2. QED
    BY <2>1 DEF PowerLossKeepsLog, Running
<1>2. QED
  BY <1>1, WALInvariant, PTL

\* Between operations the file of a running node is the log that it has in memory,
\* with a header and complete records (persistStateToDiskLocked, failAppendLocked,
\* loadSnapshotFromDisk).
THEOREM FileIsTheLog == Spec => []FileIsMemory
<1>1. ASSUME WALInv PROVE FileIsMemory
  <2>1. SUFFICES ASSUME phase = "up", op.pc = "idle"
                 PROVE  /\ wal.kind = "v1" /\ mem.known /\ ~wal.torn
                        /\ wal.base = mem.base /\ wal.baseTerm = mem.baseTerm
                        /\ wal.records = mem.entries
    BY DEF FileIsMemory
  <2>2. wal.kind = "v1" /\ mem.known /\ Stores(wal, mem) /\ wal = Rewritten(mem)
    BY <1>1, <2>1, AtRest
  <2>3. wal.base = mem.base /\ wal.baseTerm = mem.baseTerm /\ wal.records = mem.entries
    BY <2>2 DEF Rewritten, File
  <2>4. QED
    BY <2>2, <2>3 DEF Stores
<1>2. QED
  BY <1>1, WALInvariant, PTL

\* No start of the node is refused: neither a file that readWALRecords or
\* validateEntrySequence cannot read, nor a log whose boundary is not known and that
\* no snapshot gives one, nor a snapshot that RestoreSnapshotBoundary does not accept,
\* is ever found.
NeverRefused == phase # "refused"

\* The node can be started from every file that failing calls and losses of power leave
\* (newRaftLogWithWAL, loadSnapshotFromDisk): the safety part of ComesBack.
THEOREM StartsFromEveryFile == Spec => []NeverRefused
<1>1. WALInv => NeverRefused
  BY DEF WALInv, Types, NeverRefused, Running
<1>2. QED
  BY <1>1, WALInvariant, PTL
=============================================================================
