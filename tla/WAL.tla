-------------------------------- MODULE WAL --------------------------------
(***************************************************************************)
(* The write-ahead log of one node: RaftLog of log.go down to the writes,  *)
(* syncs and renames of its file, with failures of each of them and losses *)
(* of power between them, and the opening of the log by NewRaftNode        *)
(* (newRaftLogWithWAL, then loadSnapshotFromDisk of snapshot.go).          *)
(*                                                                         *)
(* A record is <<index, term>>; bytes, checksums and commands are left     *)
(* out.  A file is a header, records, perhaps an incomplete last record    *)
(* (torn), the number of records that are on the disk (synced), and the    *)
(* records of a truncation that is not on the disk yet (cut).  A loss of   *)
(* power keeps what is synced and a prefix of the rest, and a rename only  *)
(* if the directory was synced, or by luck.  What a process wrote before   *)
(* it ended is taken to be on the disk before the power fails again.       *)
(* syncWrites is TRUE, as cmd/server/main.go sets it.  The snapshot file   *)
(* is written in one step.                                                 *)
(***************************************************************************)
EXTENDS Integers, Sequences

CONSTANTS Terms,        \* the terms of entries
          MaxIndex,     \* bound on the index of an entry
          MaxBatch,     \* bound on the entries of one Append
          MaxFailures,  \* bound on failing system calls
          MaxCrashes    \* bound on losses of power

ASSUME WALAssumption ==
    /\ Terms \subseteq Nat \ {0} /\ MaxIndex \in Nat /\ MaxBatch \in Nat \ {0}
    /\ MaxFailures \in Nat /\ MaxCrashes \in Nat

VARIABLES mem,       \* the fields baseIndex, baseTerm, boundaryKnown and entries
          wal,       \* the file at walPath
          old,       \* the file that walPath names on the disk, while a rename is not synced
          tmp,       \* the file at walPath + ".tmp"
          snap,      \* the boundary of the snapshot file, index 0 without one
          op,        \* the operation that holds l.mu; "failed" is storageErr
          phase,     \* how far NewRaftNode is
          failures, crashes

bounds == <<failures, crashes>>
vars == <<mem, wal, old, tmp, snap, op, phase, bounds>>

-----------------------------------------------------------------------------
emptyLog == [base |-> 0, baseTerm |-> 0, known |-> TRUE, entries |-> <<>>]
LastIndex(l) == l.base + Len(l.entries)

\* termAtLocked, for an index from a known boundary to the end.
termAt(l, n) == IF n = l.base THEN l.baseTerm ELSE l.entries[n - l.base][2]

\* A file whose records are on the disk up to number n.
File(kind, l, n) ==
    [kind |-> kind, base |-> l.base, baseTerm |-> l.baseTerm, records |-> l.entries,
     torn |-> FALSE, synced |-> n, cut |-> <<>>]
NoFile == File("none", emptyLog, 0)
Idle == [pc |-> "idle", target |-> emptyLog, batch |-> <<>>, start |-> 0]

\* validateEntrySequence
validSequence(entries, expected) ==
    \A k \in DOMAIN entries : entries[k][1] = expected + k - 1

\* readWALHeader
header(f) == [base |-> f.base, baseTerm |-> f.baseTerm]

\* loadFromDisk: the boundary of a legacy file is what its first record says.
loaded(f) ==
    LET first == IF f.kind = "legacy" /\ f.records # <<>> THEN f.records[1][1] - 1
                 ELSE header(f).base
    IN  [base |-> first, baseTerm |-> header(f).baseTerm,
         known |-> f.kind # "legacy" \/ first = 0, entries |-> f.records]

\* A wrong end of readWALRecords: an incomplete record is an error.
withoutTornTail(f) == IF f.torn THEN [f EXCEPT !.kind = "corrupt"] ELSE f

\* readWALRecords and truncateWALTail: an incomplete last record is cut off, and
\* the file is synced.
withoutTail(f) ==
    IF f.torn THEN [f EXCEPT !.torn = FALSE, !.synced = Len(f.records), !.cut = <<>>] ELSE f

\* File f with the records that are on the disk, and the first n of s.
survivor(f, s, n, torn) ==
    [f EXCEPT !.records = SubSeq(f.records, 1, f.synced) \o SubSeq(s, 1, n),
              !.synced = f.synced + n, !.cut = <<>>, !.torn = torn]

\* What a loss of power may leave of file f: some of the records that were written,
\* or of those whose truncation is lost, and perhaps a part of the next one.
AfterPowerLoss(f) ==
    LET rest == SubSeq(f.records, f.synced + 1, Len(f.records))
        left(s, more) == UNION {{survivor(f, s, n, t) : n \in 0..Len(s)} :
                                   t \in {b \in BOOLEAN : b => more}}
    IN  left(rest, rest # <<>> \/ f.torn \/ op.pc = "write") \cup left(f.cut, f.cut # <<>>)

Init ==
    /\ \E t \in Terms, torn \in BOOLEAN :
         \/ wal = NoFile /\ snap = [index |-> 0, term |-> 0]
         \/ /\ wal = [NoFile EXCEPT !.kind = "legacy", !.records = <<<<1, t>>>>,
                                    !.synced = 1, !.torn = torn]
            /\ snap = [index |-> 0, term |-> 0]
         \/ /\ wal = [NoFile EXCEPT !.kind = "legacy", !.records = <<<<2, t>>>>,
                                    !.synced = 1, !.torn = torn]
            /\ snap = [index |-> 1, term |-> t]
    /\ mem = emptyLog /\ old = {} /\ tmp = NoFile /\ op = Idle /\ phase = "down"
    /\ failures = 0 /\ crashes = 0

-----------------------------------------------------------------------------
\* newRaftLogWithWAL: the file is read; one without a header is written anew,
\* unless it is a legacy file whose boundary is not known.
open ==
    LET f == withoutTail(wal)
        l == loaded(f)
    IN  /\ phase = "down"
        /\ wal' = f
        /\ IF f.kind = "corrupt" \/ ~validSequence(f.records, l.base + 1)
           THEN phase' = "refused" /\ UNCHANGED <<mem, op>>
           ELSE /\ mem' = l
                /\ IF f.kind = "none" \/ (f.kind = "legacy" /\ l.base = 0)
                   THEN phase' = "opening" /\ op' = [Idle EXCEPT !.pc = "temp", !.target = l]
                   ELSE phase' = "snapshot" /\ op' = Idle
        /\ UNCHANGED <<old, tmp, snap, bounds>>

\* RestoreSnapshotBoundary accepts the boundary s.
canRestore(l, s) == s.index >= l.base /\ (s.index = l.base /\ l.known => l.baseTerm = s.term)

\* RestoreSnapshotBoundary: only a suffix that continues the snapshot is kept.
restored(l, s) ==
    [base |-> s.index, baseTerm |-> s.term, known |-> TRUE,
     entries |-> IF s.index = l.base THEN l.entries
                 ELSE IF s.index <= LastIndex(l) /\ termAt(l, s.index) = s.term
                      THEN SubSeq(l.entries, s.index - l.base + 1, Len(l.entries))
                      ELSE <<>>]

\* loadSnapshotFromDisk: the boundary of the snapshot, when there is one.
loadSnapshot ==
    /\ phase = "snapshot" /\ op.pc = "idle"
    /\ IF snap.index = 0
       THEN phase' = (IF mem.known THEN "up" ELSE "refused") /\ UNCHANGED op
       ELSE IF canRestore(mem, snap)
            THEN op' = [Idle EXCEPT !.pc = "temp", !.target = restored(mem, snap)] /\ UNCHANGED phase
            ELSE phase' = "refused" /\ UNCHANGED op
    /\ UNCHANGED <<mem, wal, old, tmp, snap, bounds>>

-----------------------------------------------------------------------------
\* Append: the checks and the start of appendWALToDiskLocked.
logAppend(batch) ==
    /\ phase = "up" /\ op.pc = "idle"
    /\ validSequence(batch, LastIndex(mem) + 1)
    /\ op' = [pc |-> "write", target |-> [mem EXCEPT !.entries = @ \o batch],
              batch |-> batch, start |-> Len(wal.records)]
    /\ UNCHANGED <<mem, wal, old, tmp, snap, phase, bounds>>

\* writeWALRecord: the next record of the batch.
writeRecord ==
    LET n == Len(wal.records) - op.start + 1
    IN  /\ op.pc = "write"
        /\ wal' = [wal EXCEPT !.records = @ \o <<op.batch[n]>>]
        /\ op' = [op EXCEPT !.pc = IF n = Len(op.batch) THEN "sync" ELSE "write"]
        /\ UNCHANGED <<mem, old, tmp, snap, phase, bounds>>

\* A wrong end of appendWALToDiskLocked: the records are not synced.
notSynced(f) == f

\* file.Sync
fileSync(f) == [f EXCEPT !.synced = Len(f.records), !.cut = <<>>]

\* The sync of appendWALToDiskLocked, and the end of Append.
syncAppend ==
    /\ op.pc = "sync"
    /\ wal' = fileSync(wal) /\ mem' = op.target /\ op' = Idle
    /\ UNCHANGED <<old, tmp, snap, phase, bounds>>

\* A wrong failStorageLocked: the next operation is not refused.
forgetFailure(o) == Idle

\* failStorageLocked: storageErr stays, every later operation returns it.
failStorage(o) == [o EXCEPT !.pc = "failed"]

\* failAppendLocked: a write, perhaps of a part of a record, or the sync failed.
\* The file is cut back, unless that fails too; the cut is not synced.
failAppend ==
    /\ op.pc \in {"write", "sync"} /\ failures < MaxFailures
    /\ \/ wal' = [wal EXCEPT !.records = SubSeq(@, 1, op.start), !.torn = FALSE,
                             !.cut = SubSeq(wal.records, wal.synced + 1, Len(wal.records))]
       \/ \E torn \in (IF op.pc = "write" THEN BOOLEAN ELSE {FALSE}) :
             wal' = [wal EXCEPT !.torn = torn]
    /\ op' = failStorage(op)
    /\ failures' = failures + 1
    /\ UNCHANGED <<mem, old, tmp, snap, phase, crashes>>

-----------------------------------------------------------------------------
\* persistStateToDiskLocked is called with log l.
rewrite(l) ==
    /\ phase = "up" /\ op.pc = "idle"
    /\ op' = [Idle EXCEPT !.pc = "temp", !.target = l]
    /\ UNCHANGED <<mem, wal, old, tmp, snap, phase, bounds>>

\* TruncateAfter, for entries that are not in the snapshot.
TruncateAfter(index) ==
    /\ index >= mem.base /\ index < LastIndex(mem)
    /\ snap.index <= LastIndex(mem) /\ termAt(mem, snap.index) = snap.term => index >= snap.index
    /\ rewrite([mem EXCEPT !.entries = SubSeq(@, 1, index - mem.base)])

\* takeSnapshot, or the end of an installation: atomicWrite replaces the snapshot file.
\* It syncs the file before the rename and the directory after it, so that a loss of
\* power leaves the old file or the new one: one step.
saveSnapshot(index, term) ==
    /\ phase = "up" /\ op.pc = "idle"
    /\ index > mem.base /\ index >= snap.index /\ (index = snap.index => term = snap.term)
    /\ snap' = [index |-> index, term |-> term]
    /\ UNCHANGED <<mem, wal, old, tmp, op, phase, bounds>>

\* CompactUpTo, which takeSnapshot calls when the snapshot is saved.
CompactUpTo ==
    /\ snap.index > mem.base /\ snap.index <= LastIndex(mem)
    /\ termAt(mem, snap.index) = snap.term
    /\ rewrite([base |-> snap.index, baseTerm |-> snap.term, known |-> TRUE,
                entries |-> SubSeq(mem.entries, snap.index - mem.base + 1, Len(mem.entries))])

\* RestoreSnapshotBoundary, which handleInstallSnapshot calls.
RestoreSnapshotBoundary ==
    /\ snap.index > 0 /\ canRestore(mem, snap)
    /\ rewrite(restored(mem, snap))

\* persistStateToDiskLocked: the temporary file is written ...
writeTemp ==
    /\ op.pc = "temp"
    /\ tmp' = File("v1", op.target, 0)
    /\ op' = [op EXCEPT !.pc = "syncTemp"]
    /\ UNCHANGED <<mem, wal, old, snap, phase, bounds>>

\* ... and synced,
syncTemp ==
    /\ op.pc = "syncTemp"
    /\ tmp' = fileSync(tmp)
    /\ op' = [op EXCEPT !.pc = "rename"]
    /\ UNCHANGED <<mem, wal, old, snap, phase, bounds>>

\* it replaces the log,
renameTemp ==
    /\ op.pc = "rename"
    /\ wal' = tmp /\ old' = {wal} /\ tmp' = NoFile
    /\ op' = [op EXCEPT !.pc = "syncDir"]
    /\ UNCHANGED <<mem, snap, phase, bounds>>

\* the directory is synced,
syncDirectory ==
    /\ op.pc = "syncDir"
    /\ old' = {}
    /\ op' = [op EXCEPT !.pc = "reopen"]
    /\ UNCHANGED <<mem, wal, tmp, snap, phase, bounds>>

\* NewRaftNode after a rewriting of the log.
nextPhase(p) == CASE p = "opening" -> "snapshot" [] p = "snapshot" -> "up" [] OTHER -> p

\* and the new file is opened for the next records; the caller then assigns the fields.
reopen ==
    /\ op.pc = "reopen"
    /\ mem' = op.target /\ op' = Idle /\ phase' = nextPhase(phase)
    /\ UNCHANGED <<wal, old, tmp, snap, bounds>>

\* A call of persistStateToDiskLocked fails; NewRaftNode gives up, and is started again.
failRewrite ==
    /\ op.pc \in {"temp", "syncTemp", "rename", "syncDir", "reopen"} /\ failures < MaxFailures
    /\ tmp' = NoFile
    /\ failures' = failures + 1
    /\ IF phase = "up" THEN op' = failStorage(op) /\ UNCHANGED <<old, phase>>
       ELSE op' = Idle /\ old' = {} /\ phase' = "down"
    /\ UNCHANGED <<mem, wal, snap, crashes>>

-----------------------------------------------------------------------------
\* The power fails; or the process ends, and the system writes what it wrote.
crash ==
    /\ crashes < MaxCrashes /\ phase # "refused"
    /\ \E f \in {wal} \cup old : wal' \in AfterPowerLoss(f)
    /\ mem' = emptyLog /\ old' = {} /\ tmp' = NoFile /\ op' = Idle /\ phase' = "down"
    /\ crashes' = crashes + 1
    /\ UNCHANGED <<snap, failures>>

Batches ==
    {b \in UNION {[1..n -> {LastIndex(mem) + 1, LastIndex(mem) + 2} \X Terms] : n \in 1..MaxBatch} :
        LastIndex(mem) + Len(b) <= MaxIndex}

recover == open \/ loadSnapshot
progress == \/ writeRecord \/ syncAppend
            \/ writeTemp \/ syncTemp \/ renameTemp \/ syncDirectory \/ reopen

Next ==
    \/ recover
    \/ \E b \in Batches : logAppend(b)
    \/ \E n \in 0..MaxIndex : TruncateAfter(n)
    \/ \E n \in 1..MaxIndex, t \in Terms : saveSnapshot(n, t)
    \/ CompactUpTo \/ RestoreSnapshotBoundary
    \/ progress
    \/ failAppend \/ failRewrite
    \/ crash

Spec == Init /\ [][Next]_vars

\* An operation that has begun goes on, and a node that is down is started again.
FairSpec == Spec /\ WF_vars(recover) /\ WF_vars(progress)

-----------------------------------------------------------------------------
\* The logs that are before and after the running, or failed, operation; an Append
\* may leave some of its records.
Outcomes ==
    {mem, op.target} \cup {[mem EXCEPT !.entries = @ \o SubSeq(op.batch, 1, n)] :
                              n \in 0..Len(op.batch)}

\* Whenever the power fails, the file that is found then can be read, and holds the
\* log from before or from after the operation that was running, or a part of the
\* batch that was being appended: no record that Append has returned for is lost,
\* none that TruncateAfter has removed comes back.  (loadFromDisk, Append,
\* persistStateToDiskLocked)
PowerLossKeepsLog ==
    phase \in {"opening", "snapshot", "up"} =>
       \A g \in {wal} \cup old : \A f \in AfterPowerLoss(g) :
          LET l == loaded(f)
          IN  /\ validSequence(f.records, l.base + 1)
              /\ IF op.pc = "idle" THEN l = mem ELSE l \in Outcomes

\* Between operations a running node's file is the log that the node has in
\* memory, with a header and a known boundary, and its last records are complete,
\* so that the next Append continues it.  (persistStateToDiskLocked,
\* failAppendLocked, loadSnapshotFromDisk)
FileIsMemory ==
    phase = "up" /\ op.pc = "idle" =>
       /\ wal.kind = "v1" /\ mem.known /\ ~wal.torn
       /\ wal.base = mem.base /\ wal.baseTerm = mem.baseTerm /\ wal.records = mem.entries

\* A node that is down starts: no crash and no failing call leaves a file that
\* NewRaftNode refuses.  (newRaftLogWithWAL, loadSnapshotFromDisk)
ComesBack == (phase = "down") ~> (phase = "up")
=============================================================================
