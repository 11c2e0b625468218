# KVer in TLA+

KVer is a replicated key-value store: a Raft engine of its own (`internal/raft`)
under a state machine with strings, hashes, lists and sorted sets
(`internal/kvstore`), served over gRPC and HTTP (`internal/server`) and used
through a client library (`pkg/sdk`). This directory holds TLA+ models of these
parts, the TLC configurations that check them on small instances, and proofs that
TLAPS checks.

## The system and its models

| Part | Code | Modules |
|---|---|---|
| Leader election, heartbeats, term and vote on disk | `raft/election.go`, `raft.go`, `replication.go`, `persistent_state.go` | `Election`; proofs in `ElectionProofs` |
| Pre-vote | `raft/election.go` | `PreVote`, implements `Election`; proofs in `ElectionProofs` |
| Log replication, flush of batches, commit index | `raft/replication.go`, `raft.go`, `log.go` | `Replication`; proofs in `ReplicationProofs` and the modules it extends |
| Apply loop; snapshots taken, sent, installed, loaded | `raft/raft.go`, `snapshot.go`, `log.go` | `Snapshot`; proofs in `SnapshotProofs` |
| Write-ahead log: records, syncs, renames, recovery | `raft/log.go` | `WAL`; proofs in `WALProofs` |
| Membership changes | `raft/membership.go`, `election.go`, `replication.go` | `Membership` |
| Handlers, `Propose` and its waiters, `ReadIndex` | `server/kv_handler.go`, `raft/raft.go`, `replication.go` | `Requests` |
| Client library, methods of the gateway | `pkg/sdk/client.go`, `server/gateway.go` | `Client`, extends `Requests` |
| Commands, types, reads and expiry of a key | `kvstore/*.go`, `server/kv_handler.go` | `KVStore`, implements `ExpiringKey`; proofs in `KVStoreProofs` |
| Skip list behind sorted sets | `kvstore/skiplist.go`, `sortedset.go` | `SkipList`, implements `SortedSet` |

`MC*.tla` hold symmetry sets, views and values for TLC. `PROJECT.json` maps each
definition to the lines it models and lists components and hazards. A definition
whose comment starts with "A wrong" is a plausible bug, used only to see that a
property notices it.

How the parts interact: a client calls a server, which forwards to the leader it
knows of; the handler calls `Propose`; `batchLoop` puts the command into the log
and registers the waiter; `replicateTo` sends it to the peers;
`advanceCommitIndex` marks it committed; `applyEntriesLoop` hands it to
`KVStore.Apply` and wakes the waiter. Reads ask `ReadIndex` and wait until the state
machine has come that far. Snapshots of the store replace the beginning of the log,
on disk and for peers that lag. Membership changes are entries of the log and take
effect when they are applied.

The models meet where one assumes what another shows. `Replication` takes an
election as one step that a majority of votes wins, which `Election` shows of the
interleaved code. `Snapshot` takes the committed history as given and the node's
first log as one that matches it (`StaleMatchesHistory`), which is `LogMatching` of
`Replication`. `Replication` and `Snapshot` take an append, a truncation and a
compaction as single steps that survive a crash; `WAL` shows this of the file.
`Requests` puts handlers, waiters and reads on a Raft of coarser steps, and `Client`
puts retries on top of it. `KVStore` takes a log that is already committed.

### Steps are cut at the locks

The code between two operations on `r.mu` is one step. What makes the code
delicate is where a function lets go of the lock half-way:

* `startElection`, `handleRequestVote` and `stepDown` release `r.mu` around
  `SaveTermAndVote`. In `Election` the rest of such a function is a record of
  `windows`, with the values it captured; any other step of the node may come
  between the release, the write and the relock.
* The flush of `batchLoop` appends to the log without `r.mu` (`flushing` in
  `Replication`, `flush` in `Requests`), and `processAppendEntries` inherits the
  window of `stepDown` (`handling`).
* `applyEntriesLoop` holds no lock between reading an entry and applying it
  (`applying` in `Snapshot`).
* `ReadIndex` notes the commit index and the term and asks the peers without the
  lock. It counts their answers and does not look at its own role and term again;
  `waitForApply` follows (`handler` in `Requests`).
* `stepDown` tells the waiters `ErrNotLeader` only after its save, without the lock
  in between (`telling` in `Requests`).
* `applyMembership` steps down with the lock released before it sets the new
  configuration (`removing` in `Membership`).
* `TTLManager.cleanup` and reads of expired keys delete data, expiry and type
  under different locks (`job` in `KVStore`).

### What is abstracted

* `Election`: timers are steps that may happen at any time; how a candidate's log
  compares, and whether the last heartbeat is recent, are inputs of the handlers.
  Lost messages are messages that are never taken.
* `Replication`: a log is the sequence of its terms (index and term name an
  entry); the WAL equals the memory. The handler's reads and writes of the log, each
  under the log's own mutex, are one step with what it does under `r.mu`, and so are
  those of `initLeaderState`.
* `Snapshot`: one node; the file and the boundary change in steps of their own, each
  of which may fail; what the cluster committed is the constant `History`, and
  requests agree with it but may be late. When the entry to apply is missing, the
  loop unlocks `r.mu` twice; the model stops the process, although the second
  unlock could also release a lock that another goroutine has just taken.
* `WAL`: a record is an index and a term; bytes and checksums are abstracted to
  complete and incomplete records. A loss of power keeps what is synced and a prefix
  of the rest. `syncWrites` is on, as `cmd/server/main.go` sets it; a deployment
  that switches it off may lose entries at a crash. What a process wrote before it
  ended is taken to be on the disk before the power fails again.
* `Membership`: an exchange of an RPC is one step; no pre-votes, heartbeats,
  restarts or commands of the store.
* `Requests`, `Client`: an election and an exchange of `replicateTo` are one step
  each; a follower on which no request waits applies at once; a read returns the set
  of commands its node has applied; the order of the addresses is open; back-off times
  are left out.
* `KVStore`: one key; a clock that the replicas share; a command is one step,
  although `Apply` takes the locks of types, data and expiry one after the other;
  hashes and sorted sets are maps of items.
* `SkipList`: members name the nodes; the random level of an insertion is any level;
  scores compare (no NaN).

## Runs

Bounds are constants of the modules. Three nodes are the smallest cluster with a
majority that is not everybody. Three terms are the fewest in which a follower
holds another term than the leader at the entry before a request.

| Run | Question | Bounds | Result |
|---|---|---|---|
| `election` | one leader per term, stable votes, true leader hints, votes that survive a crash, and the inductive invariants, with overlapping and failing saves | 3 nodes, 2 elections or timeouts in all (`MaxRounds`), 1 heartbeat round or crash (`MaxEvents`) | holds |
| `replication` | log matching, commits that stay, a true `matchIndex` | 3 nodes, 3 elections, or 2 and 1 batch (`MaxRounds`), 2 messages in flight | holds |
| `replication_failures` | leader completeness, agreement on commits, convergence | 3 nodes, 2 leaders, 1 restart, 1 failed RPC, failing writes, 1 entry per request | holds |
| `snapshot` | the state machine is the committed prefix; restarts lose nothing; commits are applied | 2 `sendSnapshot` calls of 2 chunks, 1 restart, failing writes | holds |
| `wal` | is what was acknowledged found again after a loss of power, nothing else, and does the node start | 4 indexes, 2 terms, batches of 2, 1 failing call, 2 losses of power | holds |
| `client` | is what a call acknowledges committed, and does the next call see it, but for what a node says after it has stepped down | 3 servers, one of them the endpoint, a `Set` and then a `Get`, `Incr` or `LPop`; 2 terms, 2 attempts, 1 slot in `proposeCh` | holds |
| `kvstore` | a key is a plain expiring key, reads show what is visible, and expired keys are reclaimed | 2 commands, 3 instants, 2 replicas, background work on one | holds |
| `sorted_set` | is the skip list the ranking of its members, and are the ranges slices of it | 4 members, 2 scores, 3 levels | holds |
| `save_window` | strong consistency (`README.md`) with the window of `stepDown` open | 3 nodes, 2 elections, 1 batch | violated |
| `cut_request` | is what a follower takes for committed committed (`raft.go`, the comment on `commitIndex`), with requests that are cut | 3 nodes, 3 elections, 1 batch, 1 entry per request | violated |
| `install_race` | does the apply loop go on (`raft.go`, the comment on `applyEntriesLoop`) while a snapshot is installed | 1 `sendSnapshot` call of 2 chunks | violated |
| `membership` | one leader per term (`README.md`, "Safe dynamic cluster scaling") with two configurations in use | 3 members and a new node, 2 terms, 2 changes | violated |

Two scores on four members give equal and different neighbours; three levels let a
node be linked above, at and below its neighbours. Two losses of power let one hit
the recovery from the other. A call with two attempts can time out on a deposed leader
and succeed on the next one.

Deadlock is not checked where bounded events run out and the system then rests.
It is checked in `sorted_set`, whose operations never end.

### What the violated runs show

* `save_window`: `processAppendEntries` does not look at the term again after its
  `stepDown`, so it may merge the request of a leader whose term the node has left.
  Entries that were acknowledged to the new leader are then replaced, and two nodes
  commit different entries at one index.
* `cut_request`: a follower sets its commit index to `min(LeaderCommit, lastIndex)`,
  where `lastIndex` is the end of its own log. When the request is cut at
  `MaxLogEntriesPerRPC` (100 in the configuration), a stale suffix behind what the
  request covers is marked, and then applied, although no leader has committed it.
* `install_race`: an installation moves the boundary of the log before it moves
  `lastApplied`. The apply loop then does not find the entry after `lastApplied`,
  unlocks `r.mu`, leaves its loop and unlocks it again. Go ends a process that unlocks
  an unlocked mutex.
* `membership`: a leader asks for a second change as soon as it has applied the first
  one itself (`pendingMembership` is its own flag), and a removed node goes on
  starting elections and counting its own vote. In the counterexample the leader
  removes another node and then itself; the two others, who still count with three
  members, elect one of them, and the removed leader elects itself in the same term.

### Restrictions of the passing runs

These runs leave behaviours out that the code allows. What they show holds only
where the restriction does.

* `election` uses `CrashSpec`: a node that has lost a save does not crash. A save is
  lost when it fails (its error is dropped) or when two saves captured in one order
  are written in the other; `lost` keeps track of it. The saves themselves overlap
  and fail freely. If such a node crashed, it would start from a term or a vote that
  it has left, although `persistent_state.go` says that the term only grows, and
  could vote twice in a term. `KnownLeaderWasElected` allows the leader of an earlier
  term: a deposed leader may send a heartbeat in a term it did not win, because
  `sendHeartbeats` checks the role before `sendHeartbeatOnce` reads the term.
* `replication` and `replication_failures` use `AtomicSpec`: nothing else changes
  a node in the window of `processAppendEntries`. `save_window` drops this.
* `replication` uses a request limit that is never reached, `replication_failures` has
  limit 1, but no batches. `cut_request` shows what a cut request does. The theorems on
  commits exclude just this case (`CoveredSpec`).
* With two elections and no batch, `replication_failures` reaches the conflict hint of a
  log that is too short, not that of a conflicting term; and the third leader that
  would replace an entry of an earlier term, after its successor has brought it to a
  majority, is beyond the bounds. The theorems cover both as far as safety goes.
* The flush of `batchLoop` appends without `r.mu`, and `RaftLog.Append` checks the
  index only. A node that was deposed, and has taken over entries of a later leader
  up to the index before that of its flush, still appends the entry of its old term
  behind them. Its last term is then lower than what it holds, so
  `handleRequestVote` grants its vote to candidates that lack committed entries, and
  `LeaderCompleteness` fails. This takes more leaders and batches than `replication`
  and `replication_failures` have; the theorems that rest on completeness exclude it
  (`TimelySpec`).
* `ReplicationConverges` is about behaviours without lost RPCs and restarts: a
  failed `replicateTo` is not tried again before the next batch, and heartbeats
  carry neither entries nor a commit index. A node that restarts while nobody
  writes stays behind.
* `snapshot` uses `AloneSpec`, which has three parts. `CommitsAreCommitted`: a request
  marks only what it agrees with; `cut_request` shows that the code does not ensure
  this, and with requests of one entry `MachineIsPrefix` fails without it.
  `RestoresSucceed`: the state machine reads every snapshot that was taken.
  `InstallsAreAlone`: from the moving of the boundary to the end of `Restore` the apply
  loop sleeps, and nothing past the snapshot is committed during an installation.
  Nothing in the code ensures this either: an entry read before an installation is
  applied after it (`MachineIsPrefix` fails), entries applied past the snapshot are
  taken back by `Restore` (`AppliedStays` fails), and the process may end
  (`install_race`, which drops only this part).
* `client` has the window in which `stepDown` saves and its waiters are still
  registered. The apply loop may then apply a new leader's entry at the index of a
  waiter and tell it that its own command was applied. `late` holds the requests that
  were told anything by a node that no longer led; `AcknowledgedIsCommitted` and
  `ReadsAreFresh` except them, and TLC finds both violated otherwise. The run has two
  terms, so a node that loses leadership and wins it again while its flush runs is not
  reached: the check of the role then passes, and a waiter may be told of another
  leader's entry. All calls go to one endpoint first; two are too many for TLC. That
  every handler ends is not claimed: an entry applied before its waiter is registered
  leaves `Propose` waiting, and only the client's deadline ends the call. That a retried
  command is applied once is not claimed either.
* `kvstore` uses `AloneSpec`: no command, snapshot or restore overtakes a deletion
  in the background. It also gives the key one type (`MixedTypes = FALSE`) and the
  store other keys (`OtherKeys = TRUE`). Each of the three is needed: with `Spec`
  or with `OtherKeys = FALSE` TLC finds `ImplementsExpiringKey` violated, and with
  `MixedTypes = TRUE` `TypeFollowsData`. The cleanup takes the expiry of a key before
  it deletes the data, so a read in between returns the expired value:
  `ReadsShowVisible` allows just this, and `ImplementsExpiringKey` speaks of the key as
  the commands see it, hidden while it is deleted. What LRANGE returns for a stop
  before the first element, which the code clamps to the first, is left out.
* `sorted_set` has scores that compare. `ZADD` accepts NaN, which is not equal to
  itself: `delete` does not find its node again, the member is linked twice, and the
  list and its dictionary part, so that `ImplementsSortedSet` and `StructureAgrees` fail.
  `RangesAreSlices` leaves out a stop before the first member, as for LRANGE.

`ExpiringKey` lets every replica apply a command at its own time. It does not claim
that replicas agree: `Apply` looks at the local clock, so an `INCR` applied before
the expiry on one replica and after it on another gives different values.

### Fairness

Go's scheduler runs every goroutine that can run, so the steps that continue work
already begun are weakly fair: flush, `replicateTo`, handlers and answers in
`Replication`; apply loop and installation in `Snapshot`; the opening of the log and
the writes of a call in `WAL`; the ticker's cleanup in `KVStore`. Nothing is assumed
of timeouts, elections, proposals, failures or restarts. `ReplicationConverges` and
`CommittedIsApplied` say in their formulas that nothing fails, and promise that the
peers, or the state machine, catch up again and again. `ComesBack` needs no such
condition: losses of power are bounded, and every start succeeds.

### Symmetry and views

Nodes are interchangeable in the safety runs (in `client` all but the endpoint, in
`membership` the first members); the runs with liveness use no symmetry.
A view leaves out what no later step reads: `FilesView` the files when no node can
crash any more and those of nodes that do not crash, `ClientView` the step-downs that
have nobody left to tell, `PendingView` commands that every replica has applied.

## Proofs

The theorems hold for every finite set of nodes and for all bounds. They assume
`NodeAssumption` (finite cluster, `Nil` is no node), `BoundAssumption`,
`SnapshotAssumption`, `WALAssumption` or `KVStoreAssumption` (types of the constants),
and what is named below.

### Elections (`ElectionProofs`)

They are about `CrashSpec` of `Election`: saves that overlap and fail, and any number of
crashes of nodes that have lost no save.

* `TypeCorrect`: the type invariant;
* `VoteIsStable`: while a process runs, its term does not fall, and its vote does not
  change within the term;
* `ElectionInvariant`: the inductive invariant, `ElectionInv` and `CrashInv`;
* `ElectionIsSafe`: at most one node is elected in a term;
* `VotesSurviveCrashes`: no node gives two votes in a term (`OneVotePerTerm`);
* `ElectedTermIsReached`: a majority has reached the term of an elected leader;
* `KnownLeaderIsElected`: the leader that a node names has won an election, of the
  node's term or an earlier one.

`ElectionSafety` speaks only of elections won and is not inductive. The
strengthening follows a vote on its way. A claim is a vote given away or still
being saved in a window. `ClaimsAreRemembered` says that a claim for the voter's
present term is the vote it remembers, so `ClaimsAgree`: no voter makes two claims
in a term. `WindowsSound` keeps what a window captured in step with its node,
`GrantsAreBallots` and `CountedVotesAreBallots` carry the claim through the reply
to the count, and `ElectedByMajority` rests each election on a majority of votes.
Two majorities share a node (`QuorumsIntersect`), whose claims agree.
`KnownLeaderIsElected` follows the leader's name from `becomeLeader` through the
heartbeats, which read the term after the role was checked, into the windows of the
handlers.

A vote in memory dies with the process, so `CrashInv` rests on the file: `BallotsOnDisk`
(a vote that a node without a lost save has given away is saved, or a later one is),
`DiskIsBehind` (the file never holds more than the memory has seen) and
`WindowsAreBehind` (nor does an open save, and once it is written the file has it or
more, or a save of the node is lost).

Each step of `PreVoteSpec` is a step of `Election` or a stutter
(`PreVoteRefinesElection`), and an election follows a majority of
pre-votes of its round (`ElectionsHavePreVotes`). That the term of the election is the one
the pre-votes were for is not claimed: another step of the node may raise it in
between. No run checks `PreVote`.

### Logs

`LogsMatch` proves `LogMatching` of `AtomicSpec`, with lost, late and reordered
messages, failing writes, restarts and requests of any size. `LogMatching` looks only
at logs and is not inductive: a late request may bring in what no log holds any more.
`MatchingInv` (theorem `MatchingInvariant`) therefore speaks of `Parts`: what each
log, and each request in flight or being handled, shows of a log.

* `PartsMatch`: two parts with the same term at an index agree below it.
* `TermsAreElected`: each term in a part, and each term in which a node may still
  make entries (its `Claims`: as leader, or in a flush that outlived its
  leadership), was won with a majority of votes, and no two nodes claim one term.
* `NewEntriesAreFresh`: the next entry of a leader, and the entry of a flush that has
  not reached the log, are nowhere else.

`ReplicationLemmas` proves what `merged`, `conflictIndex` and the other operators on
logs compute, and that sending, cutting and merging make only parts that fit.
`ReplicationMatching` shows that each action either makes no entry (`QuietStep`) or one
fresh entry (`EntryStep`), and that every step keeps the types.

### Committed entries

These theorems of `ReplicationProofs` have the generality of `LogsMatch`, but for the
two cases described under the restrictions above. `TimelySpec` is `AtomicSpec` without
flushes that outlive their leader's term, `CoveredSpec` is `TimelySpec` without
requests that are cut below the commit index they carry. Both exclusions are needed:
on a larger instance TLC finds `LeaderCompleteness` violated without the first, and
`CommitIndexIsCommitted` without the second (run `cut_request`).

| Theorem | Property | Of |
|---|---|---|
| `LeadersHaveCommitted` | `LeaderCompleteness` | `TimelySpec` |
| `MatchIndexesAreTrue` | `MatchIndexIsTrue` | `TimelySpec` |
| `CommittedNodesAgree` | `CommittedAgree` | `CoveredSpec` |
| `CommitIndexesAreCommitted` | `CommitIndexIsCommitted` | `CoveredSpec` |
| `CommitIndexesAreInLog` | `TypeOK` | `CoveredSpec` |
| `CommittedEntriesStay` | `CommittedStays` | `CoveredSpec` |

The invariant is in `ReplicationHistory`. It says that there is a history `H`, which
gives for each term the log that the leader of the term has, or had when it stopped
leading. `H` is no variable of the model: the proof carries it from one state to the
next as the witness of an existential quantifier.

* `LogsInv(H)`: each entry of a log is one that the leader of its term had, with all
  entries before it; a request shows a part of its leader's log; a node that handles
  a request is in the request's term.
* `AcksInv(H)`: what a follower has acknowledged, booked in `matchIndex` or on its way
  in a reply, is in its log while it stays in the term (`AcksAreTrue`). For each entry
  of a leader's own term, either a majority that has not acknowledged it has left the
  term, so that it can never be committed, or those who have acknowledged it keep it
  and every later leader has it (`EntriesAreSafe`). A committed entry is of the second
  kind for good (`ChosenAreSafe`).
* `CommitInv(H)`: what a node takes for committed, and what a request says is
  committed, some leader of that term or an earlier one has committed.

`EntriesAreSafe` is why a vote is safe: a majority of voters has a node in common with
those who have acknowledged an entry, and `upToDate` makes the new leader's log at
least as good as that node's (`BetterLog`).

The proof has two halves. The first, in `ReplicationLemmas`, shows of every action that it is one of
two things for the history: no entry is made (`Quiet`), or the leader of a term
appends one (`Enters`); and what it does to commit indexes (`CommitStep`).
The second, `ReplicationCompleteness`, shows that any such step keeps the invariant, whatever the
action was. The theorems join the two (`CompletenessInvariant`, `CoveredInvariant`).

### State machine and snapshots (`SnapshotProofs`)

`SnapshotProofs` is about `AloneSpec` of `Snapshot`, with the restrictions described above
that the code does not ensure, for every committed history,
threshold, number of chunks, calls and restarts, and with failing writes. It assumes
`StaleMatchesHistory`, the log matching property.

* `SnapshotInvariant`: types and the inductive invariant `SnapshotInv`;
* `MachineIsCommittedPrefix`, `RestartIsSafe`, `AcknowledgedIsStored`,
  `AppliedEntriesStay`: the properties of the run, but for the fair one.

`SnapshotInv` has three parts. `LogInv`: the log matches the history and holds what is
committed, what the leader has booked, and what an answer on its way will make it
book. `ApplyInv`: the machine is the prefix up to `lastApplied`, and the entry in the
hands of the apply loop is the next one. `InstallInv`: where `takeSnapshot` and the
installation stand relative to the file and the boundary; it is what makes a crash
between two of their steps harmless.

### Write-ahead log (`WALProofs`)

`WALProofs` is about `Spec` of `WAL`, for any terms, lengths of logs and batches, and any
number of failing calls and losses of power.

* `PowerLossNeverLosesLog`: `PowerLossKeepsLog` of the run;
* `FileIsTheLog`: `FileIsMemory` of the run;
* `StartsFromEveryFile`: a file that a stopped node is started from has consecutive
  indexes and agrees with the boundary of the snapshot, so `newRaftLogWithWAL` and
  `loadSnapshotFromDisk` refuse nothing. This is the safety half of `ComesBack`; that the
  start then happens is liveness.

What a loss of power leaves depends on how far the operation that holds the lock has
come. The inductive invariant `WALInv` (theorem `WALInvariant`) says it for each value of
`op.pc` (`AtStep`): up to the rename the file on disk is the log in memory; while a batch
is written it is that log followed by some records of the batch, none of them synced;
after the rename it is the new log, or the old one as long as the directory is not
synced; after a failing call it is one of these. `Sound` ties both logs to the snapshot: they
begin at or before its boundary and have its term where they meet, which is what the start
checks. The lemma `PowerLoss` draws the conclusion from any of these files: what survives
is one of the logs or the old log with a prefix of the batch, and it is `Sound`. There is
one lemma for each action.

### Key-value state machine (`KVStoreProofs`)

`KVStoreProofs` is about `KVStore`, for any replicas, finite set of items, number of
commands and times.

* `KVTypeCorrect`: the type invariant, under `Spec` without any restriction;
* `KVInvariant`: the inductive invariant `KVInv`;
* `TypesFollowData`: `TypeFollowsData` of the run;
* `ReadsAreVisible`: `ReadsShowVisible` of the run. The lemma `ListReads` has it for all
  integers as indices of LRANGE, but for a stop before the first element: they name an
  interval of the list, and the loop walks that interval (`RangeIsNamed`). `ReaderInv`
  says what a read may find of a key that is being deleted;
* `RefinesExpiringKey`: `KVStore` implements `ExpiringKey`.

All but the first are about `AloneSpec` with `MixedTypes = FALSE`, as the run is: clients
use the key with one type, and no command or snapshot overtakes a deletion in the
background. Nothing in the code ensures either. `RefinesExpiringKey` also assumes `OtherKeys`,
as the run does.

`TypeFollowsData` speaks only of keys at rest and says nothing of a deletion halfway, so
it is not inductive. `KVInv` says how far each deletion has come. `Single`, at every
moment: data of the key's own type only, and neither data nor expiry without a type.
`JobInv`: a worker deletes the key's own type, the data before the expiry and the type, and the
cleanup has taken the expiry away before it calls back. `Agreed`, at rest and in the snapshot:
a key without data has no type. The last worker that finishes leaves a key of which
nothing is left, whichever order the cleanup and a reader have taken.

For the refinement there is one lemma per action. `ApplyKey` compares what `Result` makes
of the stores with the effect of the command on a plain value, after the deletion that
an expired key gets first. `TickKey` lets any number of replicas' keys expire at once.
A key is hidden from the moment its deletion begins, since it is expired, until nothing is left
of it (`HiddenKey`), so no step of a deletion is seen (`BackgroundKey`).

### How the proofs are checked

Leaves about sets, functions and case distinctions go to Zenon, which is the default of
the proof modules; leaves that calculate with indexes and sequences cite `SMTT(30)`.

### Only model-checked

Liveness is out of the prover's reach: `ReplicationConverges`, `CommittedIsApplied`,
`ComesBack`, `ExpiredIsReclaimed` and the other fair properties stay with TLC. So do the following.

* `SkipList`: its walks are recursive definitions, and what they compute for every list
  needs induction over data. The refinement of `SortedSet` rests on them.
* `Requests` and `Client`: their properties follow a command through clients, handlers,
  waiters and logs at once, and would need the proof of `Replication` again on coarser
  steps.

## Not modelled

* The locks of `KVStore.Snapshot`: it is one step. It takes `kv.mu` before the locks
  of the stores, and a deletion of an expired string takes them in the other order.
* The temporary file and the rename of `persistent_state.go`: a save is one step.
* Restarts of nodes during membership changes, and configurations in snapshots.
* Back-off times, connections, conversions to protobuf and JSON, parsing of requests
  and commands.
* The start and the stop of the process, configuration, command line, load test,
  generated code: no protocol state.
