------------------------------ MODULE Snapshot ------------------------------
(***************************************************************************)
(* One node's state machine, log and snapshots: applyEntriesLoop of        *)
(* raft.go, takeSnapshot, handleInstallSnapshot, loadSnapshotFromDisk and, *)
(* on the leader's side, sendSnapshot of snapshot.go, with CompactUpTo and *)
(* RestoreSnapshotBoundary of log.go.                                      *)
(*                                                                         *)
(* What the cluster has committed is the constant History, a sequence of   *)
(* terms; index and term name an entry.  Leaders hold History, so their    *)
(* AppendEntries requests and snapshots agree with it, but may be late.    *)
(* The node may start with entries of an earlier leader (Stale).           *)
(*                                                                         *)
(* Three mutexes matter.  r.mu guards the fields and is held for one step. *)
(* snapshotMu is held by takeSnapshot and by the installation of a chunk   *)
(* from begin to end: `taking' and `installing' exclude each other.        *)
(* stateMachineMu is held by Apply, which is one step, and by the end of   *)
(* an installation, from installBoundary to installRestore.  The apply     *)
(* loop holds none of them between reading an entry and applying it.       *)
(*                                                                         *)
(* Terms of requests are left out: a request that is refused for its term  *)
(* is one that fails (chunkFails).  Cluster configurations are left out.   *)
(***************************************************************************)
EXTENDS Integers, Sequences, FiniteSets, FiniteSetsExt

CONSTANTS History,            \* the terms of the committed entries
          Stale,              \* the terms of the log of an earlier leader
          SnapshotThreshold,  \* applied entries between two snapshots
          Chunks,             \* chunks of a snapshot that is sent
          MaxCalls,           \* bound on the calls of sendSnapshot
          MaxLogEntriesPerRPC,\* entries in one AppendEntries request
          MaxRestarts,        \* bound on restarts
          StorageMayFail      \* whether writing a file may fail

ASSUME SnapshotAssumption ==
    /\ History \in Seq(Nat \ {0}) /\ Stale \in Seq(Nat \ {0})
    /\ SnapshotThreshold \in Nat \ {0} /\ Chunks \in Nat \ {0}
    /\ MaxCalls \in Nat /\ MaxLogEntriesPerRPC \in Nat \ {0}
    /\ MaxRestarts \in Nat /\ StorageMayFail \in BOOLEAN

\* The log matching property of Raft, which module Replication checks: logs with the
\* same term at an index are the same up to it.
ASSUME StaleMatchesHistory ==
    \A n \in DOMAIN Stale \cap DOMAIN History :
        Stale[n] = History[n] => \A k \in 1..n : Stale[k] = History[k]

VARIABLES log,          \* RaftLog: boundary and live entries, in memory and in the WAL
          commitIndex, lastApplied, commitCh, fatal,
          machine,      \* the entries that the state machine has applied
          meta,         \* snapshotMeta and snapshotData
          artifact,     \* the snapshot file
          partial,      \* installSnapshot: the snapshot being received
          applying,     \* applyEntriesLoop
          triggered,    \* goroutines of takeSnapshot that wait for snapshotMu
          taking,       \* the takeSnapshot that holds snapshotMu
          waiting,      \* chunks whose handlers wait for snapshotMu
          installing,   \* the handleInstallSnapshot that holds snapshotMu
          chunks,       \* InstallSnapshot requests in flight
          acks,         \* their positive responses in flight
          matchIndex,   \* the leader's matchIndex for this node
          up,           \* the process runs
          calls, restarts

logVars == <<log, commitIndex, commitCh, fatal>>
machineVars == <<lastApplied, machine, applying>>
snapVars == <<meta, artifact, partial, triggered, taking, waiting, installing>>
netVars == <<chunks, acks, matchIndex>>
bounds == <<calls, restarts>>
vars == <<logVars, machineVars, snapVars, netVars, up, bounds>>

Indexes == 0..Len(History)
Chunk == [snap: Indexes \ {0}, chunk: 1..Chunks]
Log == [base: Indexes, baseTerm: Nat, entries: Seq(Nat)]
Artifact == [index: Indexes, term: Nat, data: Seq(Indexes \X Nat)]
\* The term of entry n of History, 0 before the first.
HistoryTerm(n) == IF n = 0 THEN 0 ELSE History[n]
\* The entries 1..n of History, as the state machine sees them.
Upto(n) == [k \in 1..n |-> <<k, History[k]>>]

\* A snapshot: its boundary and what the state machine held.
SnapshotAt(n) == [index |-> n, term |-> HistoryTerm(n), data |-> Upto(n)]
NoSnapshot == SnapshotAt(0)
Idle == [pc |-> "idle", snap |-> NoSnapshot]

-----------------------------------------------------------------------------
LastIndex(l) == l.base + Len(l.entries)

\* RaftLog.TermAt, for an index from the boundary to the end.
TermAt(l, n) == IF n = l.base THEN l.baseTerm ELSE l.entries[n - l.base]

\* RaftLog.GetEntry finds a live entry.
HasEntry(l, n) == n > l.base /\ n <= LastIndex(l)

\* RaftLog.CompactUpTo behind its checks.
compacted(l, n) ==
    [base |-> n, baseTerm |-> TermAt(l, n),
     entries |-> SubSeq(l.entries, n - l.base + 1, Len(l.entries))]

\* RestoreSnapshotBoundary accepts the boundary of snapshot s.
canRestore(l, s) == s.index >= l.base /\ (s.index = l.base => l.baseTerm = s.term)

\* RestoreSnapshotBoundary: only a suffix that continues the snapshot is kept.
restored(l, s) ==
    [base |-> s.index, baseTerm |-> s.term,
     entries |-> IF s.index <= LastIndex(l) /\ TermAt(l, s.index) = s.term
                 THEN SubSeq(l.entries, s.index - l.base + 1, Len(l.entries))
                 ELSE <<>>]

Init ==
    /\ \E n \in 0..Len(Stale) :
          log = [base |-> 0, baseTerm |-> 0, entries |-> SubSeq(Stale, 1, n)]
    /\ commitIndex = 0 /\ lastApplied = 0 /\ commitCh = FALSE /\ fatal = FALSE
    /\ machine = <<>>
    /\ meta = NoSnapshot /\ artifact = NoSnapshot
    /\ partial = [snap |-> 0, next |-> 1]
    /\ applying = [pc |-> "idle", index |-> 0, term |-> 0]
    /\ triggered = 0 /\ taking = Idle /\ waiting = {} /\ installing = Idle
    /\ chunks = {} /\ acks = {} /\ matchIndex = 0
    /\ up = TRUE /\ calls = 0 /\ restarts = 0

-----------------------------------------------------------------------------
\* The entries of a request, after prev up to last, that log l lacks.
missing(l, prev, last) ==
    {n \in (prev + 1)..last : n > LastIndex(l) \/ TermAt(l, n) # History[n]}

\* RaftLog.TruncateAfter.
truncated(l, n) == [l EXCEPT !.entries = SubSeq(@, 1, n - l.base)]

\* The log up to the first entry that it lacks, and the rest of the request.
merged(l, prev, last) ==
    IF missing(l, prev, last) = {} THEN l
    ELSE LET cut == Min(missing(l, prev, last)) - 1
         IN  [l EXCEPT !.entries = truncated(l, cut).entries \o SubSeq(History, cut + 1, last)]

\* processAppendEntries on a request that is not refused: the entries after prev
\* up to last, of a leader that has committed up to commit.  A write that fails is
\* fatal; the log may have been cut by then.
processAppendEntries(prev, last, commit) ==
    /\ up /\ ~fatal
    /\ IF prev = 0 THEN log.base = 0
       ELSE prev >= log.base /\ prev <= LastIndex(log) /\ TermAt(log, prev) = History[prev]
    /\ \/ /\ log' = merged(log, prev, last)
          /\ IF commit > commitIndex
             THEN commitIndex' = Min({commit, LastIndex(log')}) /\ commitCh' = TRUE
             ELSE UNCHANGED <<commitIndex, commitCh>>
          /\ UNCHANGED fatal
       \/ /\ StorageMayFail /\ missing(log, prev, last) # {}
          /\ log' \in {log, truncated(log, Min(missing(log, prev, last)) - 1)}
          /\ fatal' = TRUE
          /\ UNCHANGED <<commitIndex, commitCh>>
    /\ UNCHANGED <<machineVars, snapVars, netVars, up, bounds>>

-----------------------------------------------------------------------------
\* applyEntriesLoop: the signal of commitCh.
applyWake ==
    /\ up /\ applying.pc = "idle" /\ commitCh
    /\ commitCh' = FALSE
    /\ applying' = [applying EXCEPT !.pc = IF fatal THEN "idle" ELSE "loop"]
    /\ UNCHANGED <<log, commitIndex, fatal, lastApplied, machine, snapVars, netVars, up, bounds>>

\* A wrong loop condition: the last entry waits for the next one.
caughtUpEarly(commit, applied) == commit <= applied + 1

\* The inner loop of applyEntriesLoop ends.
caughtUp(commit, applied) == commit <= applied

\* The head of the inner loop.  When the entry is not in the log the mutex is
\* released twice, which ends the process.
applyNext ==
    LET next == lastApplied + 1
    IN  /\ up /\ applying.pc = "loop"
        /\ \/ /\ caughtUp(commitIndex, lastApplied)
              /\ applying' = [applying EXCEPT !.pc = "idle"]
              /\ UNCHANGED up
           \/ /\ ~caughtUp(commitIndex, lastApplied) /\ HasEntry(log, next)
              /\ applying' = [pc |-> "apply", index |-> next, term |-> TermAt(log, next)]
              /\ UNCHANGED up
           \/ /\ ~caughtUp(commitIndex, lastApplied) /\ ~HasEntry(log, next)
              /\ up' = FALSE
              /\ UNCHANGED applying
        /\ UNCHANGED <<logVars, lastApplied, machine, snapVars, netVars, bounds>>

\* Its body: Apply under stateMachineMu, lastApplied, and the snapshot trigger.
applyEntry ==
    /\ up /\ applying.pc = "apply" /\ installing.pc # "restore"
    /\ machine' = Append(machine, <<applying.index, applying.term>>)
    /\ lastApplied' = applying.index
    /\ applying' = [applying EXCEPT !.pc = "loop"]
    /\ triggered' = IF applying.index % SnapshotThreshold = 0 THEN triggered + 1 ELSE triggered
    /\ UNCHANGED <<logVars, meta, artifact, partial, taking, waiting, installing, netVars,
                   up, bounds>>

-----------------------------------------------------------------------------
\* Nobody holds snapshotMu.
snapshotMuIsFree == taking.pc = "idle" /\ installing.pc = "idle"

\* takeSnapshot up to the capture of the state machine, under stateMachineMu.
takeSnapshot ==
    LET n == lastApplied
        wanted == ~fatal /\ n > meta.index /\ n >= log.base /\ n <= LastIndex(log)
    IN  /\ up /\ triggered > 0 /\ snapshotMuIsFree
        /\ triggered' = triggered - 1
        /\ \/ ~wanted /\ UNCHANGED taking
           \/ /\ wanted
              /\ taking' = [pc |-> "persist", snap |-> [index |-> n, term |-> TermAt(log, n),
                                                       data |-> machine]]
        /\ UNCHANGED <<logVars, machineVars, meta, artifact, partial, waiting, installing,
                       netVars, up, bounds>>

\* A wrong takeSnapshot: it goes on when the snapshot was not written.
takePersistUnchecked ==
    /\ up /\ taking.pc = "persist"
    /\ taking' = [taking EXCEPT !.pc = "publish"]
    /\ \/ artifact' = taking.snap
       \/ StorageMayFail /\ UNCHANGED artifact
    /\ UNCHANGED <<logVars, machineVars, meta, partial, triggered, waiting, installing,
                   netVars, up, bounds>>

\* persistSnapshot; an error ends the call.  The sync of the directory may be what
\* fails, after the new file has taken the old one's name.
takePersist ==
    /\ up /\ taking.pc = "persist"
    /\ \/ artifact' = taking.snap /\ taking' = [taking EXCEPT !.pc = "publish"]
       \/ StorageMayFail /\ taking' = Idle /\ artifact' \in {artifact, taking.snap}
    /\ UNCHANGED <<logVars, machineVars, meta, partial, triggered, waiting, installing,
                   netVars, up, bounds>>

\* The snapshot becomes the one that is sent to peers.
takePublish ==
    /\ up /\ taking.pc = "publish"
    /\ meta' = taking.snap
    /\ taking' = [taking EXCEPT !.pc = "compact"]
    /\ UNCHANGED <<logVars, machineVars, artifact, partial, triggered, waiting, installing,
                   netVars, up, bounds>>

\* CompactUpTo.  Any error is fatal.
takeCompact ==
    LET n == taking.snap.index
    IN  /\ up /\ taking.pc = "compact"
        /\ taking' = Idle
        /\ \/ /\ n <= log.base
              /\ UNCHANGED <<log, fatal>>
           \/ /\ n > log.base /\ n <= LastIndex(log)
              /\ log' = compacted(log, n)
              /\ UNCHANGED fatal
           \/ /\ n > log.base /\ (n > LastIndex(log) \/ StorageMayFail)
              /\ fatal' = TRUE
              /\ UNCHANGED log
        /\ UNCHANGED <<commitIndex, commitCh, machineVars, meta, artifact, partial, triggered,
                       waiting, installing, netVars, up, bounds>>

-----------------------------------------------------------------------------
\* A wrong test: entries that are in the log need not be committed.
neededBeyondLog(c) == c.snap > meta.index /\ c.snap > LastIndex(log)

\* handleInstallSnapshot takes up a snapshot that is newer than the node's own and
\* reaches past its commit index.
needed(c) == c.snap > meta.index /\ c.snap > commitIndex

\* handleInstallSnapshot on chunk c, as far as r.mu is held.  A snapshot that the
\* node does not need is acknowledged.
handleInstallSnapshot(c) ==
    /\ up
    /\ chunks' = chunks \ {c}
    /\ \/ fatal /\ UNCHANGED <<acks, waiting>>
       \/ ~fatal /\ ~needed(c) /\ acks' = acks \cup {c} /\ UNCHANGED waiting
       \/ ~fatal /\ needed(c) /\ waiting' = waiting \cup {c} /\ UNCHANGED acks
    /\ UNCHANGED <<logVars, machineVars, meta, artifact, partial, triggered, taking,
                   installing, matchIndex, up, bounds>>

\* A wrong handler: it does not look again.
stillNeededUnchecked(c) == TRUE

\* handleInstallSnapshot looks at the commit index again, with snapshotMu.
stillNeeded(c) == c.snap > commitIndex

\* A wrong appendChunk: a chunk that is sent again moves the offset.
afterChunkAgain(next, c) == next + 1

\* appendChunk accepts chunk c in order, or one it has already; the next chunk.
inOrder(next, c) == c.chunk <= next
afterChunk(next, c) == Max({next, c.chunk + 1})

\* handleInstallSnapshot with snapshotMu: it adds the chunk to the partial snapshot
\* and, after the last chunk, installs it.
installChunk(c) ==
    LET next == IF partial.snap = c.snap THEN partial.next ELSE 1
        accepted == (partial.snap = c.snap \/ c.chunk = 1) /\ inOrder(next, c)
    IN  /\ up /\ snapshotMuIsFree
        /\ waiting' = waiting \ {c}
        /\ \/ /\ ~stillNeeded(c)
              /\ acks' = acks \cup {c}
              /\ UNCHANGED <<partial, installing>>
           \/ /\ stillNeeded(c) /\ ~accepted
              /\ UNCHANGED <<acks, partial, installing>>
           \/ /\ stillNeeded(c) /\ accepted
              /\ partial' = [snap |-> c.snap, next |-> afterChunk(next, c)]
              /\ IF c.chunk < Chunks THEN acks' = acks \cup {c} /\ UNCHANGED installing
                 ELSE /\ installing' = [pc |-> "persist", snap |-> SnapshotAt(c.snap)]
                      /\ UNCHANGED acks
        /\ UNCHANGED <<logVars, machineVars, meta, artifact, triggered, taking, chunks,
                       matchIndex, up, bounds>>

\* finalizeInstalledSnapshot: persistSnapshot; an error ends the call, as above.
installPersist ==
    /\ up /\ installing.pc = "persist"
    /\ \/ artifact' = installing.snap /\ installing' = [installing EXCEPT !.pc = "boundary"]
       \/ StorageMayFail /\ installing' = Idle /\ artifact' \in {artifact, installing.snap}
    /\ UNCHANGED <<logVars, machineVars, meta, partial, triggered, taking, waiting, netVars,
                   up, bounds>>

\* RestoreSnapshotBoundary, under stateMachineMu.  Any error is fatal.
installBoundary ==
    LET s == installing.snap
    IN  /\ up /\ installing.pc = "boundary"
        /\ \/ /\ canRestore(log, s)
              /\ log' = restored(log, s)
              /\ installing' = [installing EXCEPT !.pc = "restore"]
              /\ UNCHANGED fatal
           \/ /\ ~canRestore(log, s) \/ StorageMayFail
              /\ fatal' = TRUE
              /\ installing' = Idle
              /\ UNCHANGED log
        /\ UNCHANGED <<commitIndex, commitCh, machineVars, meta, artifact, partial, triggered,
                       taking, waiting, netVars, up, bounds>>

\* A wrong end of the installation: lastApplied stays behind the state machine.
appliedAfterKept(s) == lastApplied

\* lastApplied once snapshot s is installed.
appliedAfter(s) == Max({lastApplied, s.index})

\* Restore of the state machine, then the fields under r.mu, and the answer.  An
\* error of Restore is fatal; it leaves the state machine as it was, behind the
\* boundary of the log.
installRestore ==
    LET s == installing.snap
        commit == Max({commitIndex, s.index})
        applied == appliedAfter(s)
    IN  /\ up /\ installing.pc = "restore"
        /\ installing' = Idle
        /\ \/ /\ machine' = s.data
              /\ meta' = s
              /\ commitIndex' = commit /\ lastApplied' = applied
              /\ commitCh' = (commitCh \/ commit > applied)
              /\ partial' = [snap |-> 0, next |-> 1]
              /\ acks' = acks \cup {[snap |-> s.index, chunk |-> Chunks]}
              /\ UNCHANGED fatal
           \/ /\ fatal' = TRUE
              /\ UNCHANGED <<machine, meta, commitIndex, lastApplied, commitCh, partial, acks>>
        /\ UNCHANGED <<log, applying, artifact, triggered, taking, waiting, chunks,
                       matchIndex, up, bounds>>

-----------------------------------------------------------------------------
\* sendSnapshot starts on a leader whose snapshot ends at n.
sendSnapshot(n) ==
    /\ calls < MaxCalls
    /\ calls' = calls + 1
    /\ chunks' = chunks \cup {[snap |-> n, chunk |-> 1]}
    /\ UNCHANGED <<logVars, machineVars, snapVars, acks, matchIndex, up, restarts>>

\* sendSnapshot after the RPC: the next chunk, or the end.
handleAck(c) ==
    /\ acks' = acks \ {c}
    /\ \/ /\ c.chunk < Chunks
          /\ chunks' = chunks \cup {[c EXCEPT !.chunk = @ + 1]}
          /\ UNCHANGED matchIndex
       \/ /\ c.chunk = Chunks
          /\ matchIndex' = Max({matchIndex, c.snap})
          /\ UNCHANGED chunks
    /\ UNCHANGED <<logVars, machineVars, snapVars, up, bounds>>

\* The RPC of chunk c fails: the request or its response is lost, the context
\* expires, or the handler refuses the sender's term.
chunkFails(c) ==
    /\ chunks' = chunks \ {c} /\ waiting' = waiting \ {c} /\ acks' = acks \ {c}
    /\ UNCHANGED <<logVars, machineVars, meta, artifact, partial, triggered, taking,
                   installing, matchIndex, up, bounds>>

\* The process starts again, after a crash or after a panic: NewRaftNode loads the
\* log and, in loadSnapshotFromDisk, the snapshot.  It does not start when the
\* snapshot does not fit the log.  A start that ends because a read, a write or
\* Restore fails leaves the same files and is no step.
restart ==
    /\ restarts < MaxRestarts
    /\ restarts' = restarts + 1
    /\ up' = (artifact.index > 0 => canRestore(log, artifact))
    /\ log' = IF up' /\ artifact.index > 0 THEN restored(log, artifact) ELSE log
    /\ machine' = artifact.data /\ meta' = artifact
    /\ commitIndex' = artifact.index /\ lastApplied' = artifact.index
    /\ commitCh' = FALSE /\ fatal' = FALSE
    /\ applying' = [pc |-> "idle", index |-> 0, term |-> 0]
    /\ partial' = [snap |-> 0, next |-> 1]
    /\ triggered' = 0 /\ taking' = Idle /\ waiting' = {} /\ installing' = Idle
    /\ UNCHANGED <<artifact, netVars, calls>>

-----------------------------------------------------------------------------
\* A request of replicateTo: the entries after prev up to last.  It reaches what the
\* leader has committed unless it is cut at MaxLogEntriesPerRPC.
IsRequest(prev, last, commit) ==
    /\ prev <= last /\ last - prev <= MaxLogEntriesPerRPC
    /\ commit <= last \/ last - prev = MaxLogEntriesPerRPC

Next ==
    \/ \E prev, last, commit \in Indexes :
          IsRequest(prev, last, commit) /\ processAppendEntries(prev, last, commit)
    \/ applyWake
    \/ applyNext
    \/ applyEntry
    \/ takeSnapshot
    \/ takePersist
    \/ takePublish
    \/ takeCompact
    \/ \E c \in chunks : handleInstallSnapshot(c)
    \/ \E c \in waiting : installChunk(c)
    \/ installPersist
    \/ installBoundary
    \/ installRestore
    \/ \E n \in Indexes \ {0} : sendSnapshot(n)
    \/ \E c \in acks : handleAck(c)
    \/ \E c \in chunks \cup waiting \cup acks : chunkFails(c)
    \/ restart

Spec == Init /\ [][Next]_vars

\* Log l holds what the cluster committed at n, or has compacted it.
Agrees(l, n) == n <= LastIndex(l) /\ (n >= l.base => TermAt(l, n) = HistoryTerm(n))

\* The behaviours in which processAppendEntries marks only what the cluster has
\* committed.  With a cut request it may mark a stale suffix: that is the subject of
\* CommitIndexIsCommitted in module Replication, and assumed here.
CommitsAreCommitted == commitIndex' > commitIndex => Agrees(log', commitIndex')

\* The behaviours in which Restore succeeds: the store's Restore fails only on data
\* that it cannot decode, and these data have passed the checksum.
RestoresSucceed ==
    installing.pc = "restore" /\ installing'.pc = "idle" /\ restarts' = restarts
        => meta' = installing.snap

SoundSpec == Init /\ [][Next /\ CommitsAreCommitted /\ RestoresSucceed]_vars

\* Of these, the behaviours in which the apply loop sleeps from the moving of the
\* boundary to the end of Restore, and nothing is committed past a snapshot that is
\* being installed.  Nothing in the code sees to it: entries applied behind the
\* snapshot are taken back by Restore, an entry that the loop holds is applied on top
\* of it, and an entry that the loop looks for is no longer in the log.
InstallsAreAlone ==
    /\ installing'.pc = "restore" => applying'.pc = "idle"
    /\ installing.pc # "idle" /\ commitIndex' > commitIndex => commitIndex' <= installing.snap.index
AloneNext == Next /\ CommitsAreCommitted /\ RestoresSucceed /\ InstallsAreAlone
AloneSpec == Init /\ [][AloneNext]_vars

\* The goroutines of the node run on, as Go's scheduler lets them.
Fairness ==
    /\ WF_vars(applyWake \/ applyNext \/ applyEntry)
    /\ WF_vars(installPersist \/ installBoundary \/ installRestore)
FairSpec == AloneSpec /\ Fairness

-----------------------------------------------------------------------------
\* Every variable has its type.
TypeOK ==
    /\ log \in Log
    /\ commitIndex \in Indexes /\ lastApplied \in Indexes
    /\ commitCh \in BOOLEAN /\ fatal \in BOOLEAN /\ triggered \in Nat /\ up \in BOOLEAN
    /\ machine \in Seq(Indexes \X Nat)
    /\ meta \in Artifact /\ artifact \in Artifact
    /\ partial \in [snap: Indexes, next: 1..(Chunks + 1)]
    /\ applying \in [pc: {"idle", "loop", "apply"}, index: Indexes, term: Nat]
    /\ taking \in [pc: {"idle", "persist", "publish", "compact"}, snap: Artifact]
    /\ installing \in [pc: {"idle", "persist", "boundary", "restore"}, snap: Artifact]
    /\ chunks \subseteq Chunk /\ waiting \subseteq Chunk /\ acks \subseteq Chunk
    /\ matchIndex \in Indexes /\ calls \in 0..MaxCalls /\ restarts \in 0..MaxRestarts

\* The state machine holds the committed entries up to lastApplied, each once and
\* in order (the comment on RaftNode.lastApplied), whether they came from the log
\* or with a snapshot, and after every restart, as long as applyEntriesLoop and
\* finalizeInstalledSnapshot do not meet (InstallsAreAlone).
MachineIsPrefix == up => machine = Upto(lastApplied)

\* Whenever the process dies it can start again with nothing missing: the snapshot
\* on disk is what the cluster committed, it covers everything that was compacted,
\* and its boundary fits the log.
RestartLosesNothing ==
    /\ artifact = SnapshotAt(artifact.index)
    /\ log.base <= artifact.index /\ canRestore(log, artifact)

\* The process does not end by itself: applyEntriesLoop goes on applying committed
\* entries.  An installation that moves the boundary of the log before it moves
\* lastApplied breaks it: the loop does not find the entry and releases r.mu twice.
StaysUp == up

\* What the leader has booked as matched after a snapshot is in the node's log or
\* snapshot, although chunks are lost, sent by two calls at a time or skipped.
AckedIsStored ==
    /\ matchIndex <= LastIndex(log)
    /\ \A n \in log.base..matchIndex : n > 0 => TermAt(log, n) = History[n]

\* While the process runs, an applied entry stays applied: stale chunks, and chunks
\* that have waited for snapshotMu, do not bring an older snapshot back.  What is
\* applied past a snapshot between the second check of handleInstallSnapshot and its
\* Restore is taken back; InstallsAreAlone leaves this out.
AppliedStays ==
    [][restarts' = restarts => /\ Len(machine') >= Len(machine)
                               /\ SubSeq(machine', 1, Len(machine)) = machine]_vars

\* What is committed is applied, as far as History goes: no signal of commitCh is
\* lost, and neither snapshots nor installations stop the loop.
CommittedIsApplied ==
    [](restarts = 0 /\ ~fatal) => []<>(lastApplied = commitIndex)

-----------------------------------------------------------------------------
\* Log l matches History: where they agree, they agree up to there.
LogMatches(l) ==
    /\ l.baseTerm = HistoryTerm(l.base)
    /\ \A n, k \in Indexes : k <= n /\ Agrees(l, n) => Agrees(l, k)

\* The log holds what is committed, what the leader has booked, and what a positive
\* answer to a last chunk is about to make it book.
LogInv ==
    /\ LogMatches(log)
    /\ Agrees(log, commitIndex) /\ Agrees(log, matchIndex)
    /\ \A c \in acks : c.chunk = Chunks => Agrees(log, c.snap)

\* The state machine, and the entry that the apply loop has in its hands.
ApplyInv ==
    /\ machine = Upto(lastApplied)
    /\ lastApplied <= commitIndex /\ meta.index <= commitIndex
    /\ applying.pc = "apply" => /\ applying.index = lastApplied + 1
                                /\ applying.index <= commitIndex
                                /\ applying.term = HistoryTerm(applying.index)

\* Where takeSnapshot and the installation stand, with the file and the boundary.
InstallInv ==
    /\ artifact = SnapshotAt(artifact.index) /\ log.base <= artifact.index
    /\ taking.pc # "idle" => /\ installing.pc = "idle"
                             /\ taking.snap = SnapshotAt(taking.snap.index)
                             /\ log.base <= taking.snap.index
                             /\ taking.snap.index <= lastApplied
    /\ taking.pc \in {"publish", "compact"} => artifact = taking.snap
    /\ installing.pc # "idle" => /\ installing.snap = SnapshotAt(installing.snap.index)
                                 /\ installing.snap.index >= commitIndex
                                 /\ installing.snap.index > meta.index
    /\ installing.pc \in {"boundary", "restore"} => artifact = installing.snap
    /\ IF installing.pc = "restore"
       THEN applying.pc = "idle" /\ log.base = installing.snap.index
       ELSE log.base <= lastApplied

\* The inductive invariant of takeSnapshot, handleInstallSnapshot and the apply loop
\* while installations are alone.
SnapshotInv == LogInv /\ ApplyInv /\ InstallInv
=============================================================================
