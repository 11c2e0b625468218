---------------------------- MODULE Replication -----------------------------
(***************************************************************************)
(* Log replication of internal/raft: replicateTo, processAppendEntries and *)
(* advanceCommitIndex of replication.go, the flush of batchLoop and        *)
(* initLeaderState of raft.go, on top of the in-memory log of log.go.      *)
(*                                                                         *)
(* A log is the sequence of its entries' terms: a leader makes at most one *)
(* entry per index, so index and term name an entry.  The log starts at    *)
(* index 1: no snapshot has been taken.  What is in the WAL is what is in  *)
(* memory.                                                                 *)
(*                                                                         *)
(* Steps are the code between two operations on r.mu.  Two functions let   *)
(* go of it half-way: the flush of batchLoop while it appends to the log   *)
(* (`flushing'), and processAppendEntries while its stepDown saves the     *)
(* term (`handling').  An election is one step here: startElection, the    *)
(* votes of a set of nodes and, with a majority, initLeaderState.  Module  *)
(* Election has its interleavings.                                         *)
(*                                                                         *)
(* The log has a mutex of its own, which a flush takes without r.mu.  In   *)
(* two places r.mu is held over two operations on the log and a flush of   *)
(* the same node could append between them: TruncateAfter and Append in    *)
(* processAppendEntries, LastIndex and Append in initLeaderState.  Each is *)
(* one step here; a flush comes before the pair or behind it.              *)
(***************************************************************************)
EXTENDS Integers, Sequences, FiniteSets, FiniteSetsExt

CONSTANTS Node,
          Nil,
          MaxLogEntriesPerRPC,  \* entries in one AppendEntries request
          MaxElections,         \* bound on elections
          MaxFlushes,           \* bound on batches that are flushed
          MaxRounds,            \* bound on both together
          MaxRestarts,          \* bound on restarts
          MaxLosses,            \* bound on RPCs that fail
          MaxInFlight,          \* bound on requests and replies in flight
          StorageMayFail        \* whether writes of the log may return an error

ASSUME NodeAssumption == IsFiniteSet(Node) /\ Nil \notin Node
ASSUME BoundAssumption ==
    /\ MaxLogEntriesPerRPC \in Nat \ {0} /\ MaxElections \in Nat
    /\ MaxFlushes \in Nat /\ MaxRounds \in Nat /\ MaxRestarts \in Nat
    /\ MaxLosses \in Nat /\ MaxInFlight \in Nat /\ StorageMayFail \in BOOLEAN

VARIABLES state, currentTerm, votedFor, fatal,         \* RaftNode fields
          log, commitIndex, nextIndex, matchIndex,
          storageErr, \* RaftLog's field: a write has failed, no other is tried
          flushing,   \* the batchLoop of each node
          sends,      \* replicateTo calls about to send
          requests,   \* AppendEntries requests in flight
          replies,    \* AppendEntries responses in flight
          handling,   \* requests whose handler has released r.mu
          elections, flushes, restarts, losses,  \* counts of the bounded events
          chosen      \* history: entries committed, and the committing leader's term

nodeVars == <<state, currentTerm, votedFor, fatal>>
logVars == <<log, commitIndex, chosen, storageErr>>
leaderVars == <<nextIndex, matchIndex>>
netVars == <<sends, requests, replies, handling>>
bounds == <<elections, flushes, restarts, losses>>
vars == <<nodeVars, logVars, leaderVars, flushing, netVars, bounds>>

Follower == "Follower"
Candidate == "Candidate"
Leader == "Leader"

Majority == (Cardinality(Node) \div 2) + 1
IsQuorum(S) == Cardinality(S) >= Majority

Send == [from: Node, to: Node, next: Nat]
\* AppendEntriesRequest, with the nextIndex of the call that sent it.
Request == [from: Node, to: Node, term: Nat, next: Nat, prevTerm: Nat,
            entries: Seq(Nat), commit: Nat]
\* AppendEntriesResponse, with what the waiting call remembers.
Reply == [from: Node, to: Node, req: Nat, next: Nat, match: Nat,
          term: Nat, success: BOOLEAN, conflict: Nat]

\* The steps of a flush: nothing to do, before the log's Append, and after it,
\* with or without a storage error.
Idle == [pc |-> "idle", index |-> 0, term |-> 0]
Flush == [pc: {"idle", "append", "end", "failed"}, index: Nat, term: Nat]

\* Every variable has its type.
Types ==
    /\ state \in [Node -> {Follower, Candidate, Leader}]
    /\ currentTerm \in [Node -> Nat]
    /\ votedFor \in [Node -> Node \cup {Nil}]
    /\ fatal \in [Node -> BOOLEAN]
    /\ log \in [Node -> Seq(Nat)]
    /\ storageErr \in [Node -> BOOLEAN]
    /\ commitIndex \in [Node -> Nat]
    /\ nextIndex \in [Node -> [Node -> Nat]]
    /\ matchIndex \in [Node -> [Node -> Nat]]
    /\ flushing \in [Node -> Flush]
    /\ sends \in SUBSET Send
    /\ requests \in SUBSET Request
    /\ replies \in SUBSET Reply
    /\ handling \in SUBSET Request
    /\ elections \in 0..MaxElections
    /\ flushes \in 0..MaxFlushes
    /\ restarts \in 0..MaxRestarts
    /\ losses \in 0..MaxLosses
    /\ chosen \in SUBSET [index: Nat, term: Nat, by: Nat]

\* Every variable has its type, and a commit index is an index of the node's log, as
\* min(LeaderCommit, lastIndex) in processAppendEntries makes sure.
TypeOK == Types /\ \A i \in Node : commitIndex[i] <= Len(log[i])

Init ==
    /\ state = [i \in Node |-> Follower]
    /\ currentTerm = [i \in Node |-> 0]
    /\ votedFor = [i \in Node |-> Nil]
    /\ fatal = [i \in Node |-> FALSE]
    /\ log = [i \in Node |-> <<>>]
    /\ storageErr = [i \in Node |-> FALSE]
    /\ commitIndex = [i \in Node |-> 0]
    /\ nextIndex = [i \in Node |-> [j \in Node |-> 0]]
    /\ matchIndex = [i \in Node |-> [j \in Node |-> 0]]
    /\ flushing = [i \in Node |-> Idle]
    /\ sends = {} /\ requests = {} /\ replies = {} /\ handling = {}
    /\ elections = 0 /\ flushes = 0 /\ restarts = 0 /\ losses = 0
    /\ chosen = {}

-----------------------------------------------------------------------------
\* RaftLog.TermAt, for an index of the log or 0.
TermAt(l, index) == IF index = 0 THEN 0 ELSE l[index]
LastTerm(l) == TermAt(l, Len(l))

\* stepDown.  The vote is cleared only for a higher term.
stepDown(i, term) ==
    /\ state' = [state EXCEPT ![i] = Follower]
    /\ currentTerm' = [currentTerm EXCEPT ![i] = IF term > @ THEN term ELSE @]
    /\ votedFor' = [votedFor EXCEPT ![i] = IF term > currentTerm[i] THEN Nil ELSE @]
    /\ UNCHANGED fatal

\* The indexes that advanceCommitIndex would accept on leader i of the term with log l:
\* going down from the last one it stops at the first entry of another term.
committable(i, term, l, match) ==
    {n \in (commitIndex[i] + 1)..Len(l) :
        /\ \A k \in n..Len(l) : l[k] = term
        /\ IsQuorum({i} \cup {j \in Node \ {i} : match[j] >= n})}

\* advanceCommitIndex on leader i, whose term, log and matchIndex are now term, l
\* and match.
advanceCommitIndex(i, term, l, match) ==
    LET ok == committable(i, term, l, match)
        n == IF ok = {} THEN commitIndex[i] ELSE Max(ok)
    IN  /\ commitIndex' = [commitIndex EXCEPT ![i] = n]
        /\ chosen' = chosen \cup
              {[index |-> k, term |-> l[k], by |-> term] :
               k \in (commitIndex[i] + 1)..n}

-----------------------------------------------------------------------------
\* A wrong vote: the voter does not compare the logs.
upToDateNever(candidate, voter) == TRUE

\* The log comparison of handleRequestVote.
upToDate(candidate, voter) ==
    \/ LastTerm(log[candidate]) > LastTerm(log[voter])
    \/ /\ LastTerm(log[candidate]) = LastTerm(log[voter])
       /\ Len(log[candidate]) >= Len(log[voter])

\* Node j would vote for i in the given term.  A leader ignores vote requests.
wouldVote(j, i, term) ==
    /\ ~fatal[j] /\ state[j] # Leader
    /\ \/ currentTerm[j] < term
       \/ currentTerm[j] = term /\ votedFor[j] \in {Nil, i}
    /\ upToDate(i, j)

\* Node j refuses its vote because of its log, but takes the candidate's term.
wouldRefuse(j, i, term) ==
    /\ ~fatal[j] /\ state[j] # Leader
    /\ currentTerm[j] < term /\ ~upToDate(i, j)

\* The roles after an election of i in which the nodes of reached take its term.
roles(i, role, reached, term) ==
    [j \in Node |-> IF j = i THEN role
                    ELSE IF j \in reached /\ currentTerm[j] < term THEN Follower
                    ELSE state[j]]

\* initLeaderState of node i in the given term.
initLeaderState(i, term) ==
    LET noop == Append(log[i], term)
    IN  /\ nextIndex' = [nextIndex EXCEPT ![i] = [j \in Node |-> Len(log[i]) + 1]]
        /\ matchIndex' = [matchIndex EXCEPT ![i] = [j \in Node |-> 0]]
        /\ log' = [log EXCEPT ![i] = noop]
        /\ sends' = sends \cup {[from |-> i, to |-> j, next |-> Len(log[i]) + 1] :
                                j \in Node \ {i}}
        /\ advanceCommitIndex(i, term, noop, [j \in Node |-> 0])

\* An election of node i: the nodes of Q vote for it, those of R refuse, the
\* others are not reached.  When its votes come back and are a majority the node
\* becomes leader, and fails if the no-op entry cannot be written.
startElection(i, Q, R) ==
    LET term == currentTerm[i] + 1
    IN  /\ elections < MaxElections /\ elections + flushes < MaxRounds
        /\ elections' = elections + 1
        /\ ~fatal[i] /\ state[i] # Leader
        /\ i \in Q /\ \A j \in Q \ {i} : wouldVote(j, i, term)
        /\ \A j \in R : wouldRefuse(j, i, term)
        /\ currentTerm' = [j \in Node |-> IF j \in Q \cup R THEN term ELSE currentTerm[j]]
        /\ votedFor' = [j \in Node |-> IF j \in Q THEN i
                                       ELSE IF j \in R THEN Nil ELSE votedFor[j]]
        /\ \/ /\ state' = roles(i, Candidate, Q \cup R, term)
              /\ UNCHANGED <<fatal, logVars, leaderVars, sends>>
           \/ /\ IsQuorum(Q) /\ ~storageErr[i]
              /\ state' = roles(i, Leader, Q \cup R, term)
              /\ initLeaderState(i, term)
              /\ UNCHANGED <<fatal, storageErr>>
           \/ /\ IsQuorum(Q) /\ (storageErr[i] \/ StorageMayFail)
              /\ state' = roles(i, Follower, Q \cup R, term)
              /\ fatal' = [fatal EXCEPT ![i] = TRUE]
              /\ storageErr' = [storageErr EXCEPT ![i] = TRUE]
              /\ nextIndex' = [nextIndex EXCEPT ![i] = [j \in Node |-> Len(log[i]) + 1]]
              /\ matchIndex' = [matchIndex EXCEPT ![i] = [j \in Node |-> 0]]
              /\ UNCHANGED <<log, commitIndex, chosen, sends>>
        /\ UNCHANGED <<flushing, requests, replies, handling, flushes, restarts, losses>>

-----------------------------------------------------------------------------
\* flush of batchLoop up to its Unlock: the entry's index and term are fixed.
\* A batch is one entry; that of a node which is no leader is turned away.
flushBegin(i) ==
    /\ flushes < MaxFlushes /\ elections + flushes < MaxRounds
    /\ flushes' = flushes + 1
    /\ flushing[i].pc = "idle" /\ state[i] = Leader
    /\ flushing' = [flushing EXCEPT ![i] =
          [pc |-> "append", index |-> Len(log[i]) + 1, term |-> currentTerm[i]]]
    /\ UNCHANGED <<nodeVars, logVars, leaderVars, netVars, elections, restarts, losses>>

\* RaftLog.Append of the flush, under the log's own mutex only.  It refuses
\* entries that do not continue the log, which ends the flush.
flushAppend(i) ==
    LET f == flushing[i]
        continues == f.index = Len(log[i]) + 1
    IN  /\ f.pc = "append"
        /\ \/ /\ ~storageErr[i] /\ continues
              /\ log' = [log EXCEPT ![i] = Append(@, f.term)]
              /\ flushing' = [flushing EXCEPT ![i].pc = "end"]
              /\ UNCHANGED storageErr
           \/ /\ ~storageErr[i] /\ ~continues
              /\ flushing' = [flushing EXCEPT ![i] = Idle]
              /\ UNCHANGED <<log, storageErr>>
           \/ /\ storageErr[i] \/ (continues /\ StorageMayFail)
              /\ storageErr' = [storageErr EXCEPT ![i] = TRUE]
              /\ flushing' = [flushing EXCEPT ![i].pc = "failed"]
              /\ UNCHANGED log
        /\ UNCHANGED <<nodeVars, commitIndex, chosen, leaderVars, netVars, bounds>>

\* The rest of flush: it looks at the role again, though not at the term.  The
\* calls of replicateTo read nextIndex when they start.
flushEnd(i) ==
    LET f == flushing[i]
    IN  /\ f.pc \in {"end", "failed"}
        /\ flushing' = [flushing EXCEPT ![i] = Idle]
        /\ \/ /\ state[i] # Leader
              /\ UNCHANGED <<nodeVars, logVars, sends>>
           \/ /\ state[i] = Leader /\ f.pc = "failed"
              /\ fatal' = [fatal EXCEPT ![i] = TRUE]
              /\ state' = [state EXCEPT ![i] = Follower]
              /\ UNCHANGED <<currentTerm, votedFor, logVars, sends>>
           \/ /\ state[i] = Leader /\ f.pc = "end"
              /\ sends' = sends \cup {[from |-> i, to |-> j, next |-> 0] : j \in Node \ {i}}
              /\ advanceCommitIndex(i, currentTerm[i], log[i], matchIndex[i])
              /\ UNCHANGED <<nodeVars, log, storageErr>>
        /\ UNCHANGED <<leaderVars, requests, replies, handling, bounds>>

\* One round of replicateTo up to its RPC.  A node that is no leader any more,
\* or has failed, ends the call.
replicateTo(s) ==
    LET i == s.from
        start == IF s.next = 0 THEN nextIndex[i][s.to] ELSE s.next
        next == Max({1, Min({start, Len(log[i]) + 1})})
        last == Min({Len(log[i]), next + MaxLogEntriesPerRPC - 1})
    IN  /\ Cardinality(requests) + Cardinality(replies) + Cardinality(handling) < MaxInFlight
        /\ sends' = sends \ {s}
        /\ \/ /\ state[i] # Leader \/ fatal[i]
              /\ UNCHANGED requests
           \/ /\ state[i] = Leader /\ ~fatal[i]
              /\ requests' = requests \cup
                    {[from |-> i, to |-> s.to, term |-> currentTerm[i], next |-> next,
                      prevTerm |-> TermAt(log[i], next - 1),
                      entries |-> SubSeq(log[i], next, last),
                      commit |-> commitIndex[i]]}
        /\ UNCHANGED <<nodeVars, logVars, leaderVars, flushing, replies, handling, bounds>>

\* replicateTo after its RPC.  On failure it goes back to the follower's hint and
\* tries again; on success it goes on while entries are left.
handleReply(m) ==
    LET i == m.to
        again(n) == sends' = sends \cup {[from |-> i, to |-> m.from, next |-> n]}
        match == [matchIndex[i] EXCEPT ![m.from] = Max({@, m.match})]
        back == IF m.conflict > 0 THEN m.conflict ELSE Max({1, m.next - 1})
    IN  /\ replies' = replies \ {m}
        /\ \/ /\ m.term > currentTerm[i]
              /\ stepDown(i, m.term)
              /\ UNCHANGED <<logVars, leaderVars, sends>>
           \/ /\ m.term <= currentTerm[i]
              /\ state[i] # Leader \/ currentTerm[i] # m.req
              /\ UNCHANGED <<nodeVars, logVars, leaderVars, sends>>
           \/ /\ m.term <= currentTerm[i] /\ state[i] = Leader /\ currentTerm[i] = m.req
              /\ UNCHANGED nodeVars
              /\ \/ /\ m.success
                    /\ matchIndex' = [matchIndex EXCEPT ![i] = match]
                    /\ nextIndex' = [nextIndex EXCEPT ![i][m.from] = Max({@, m.match + 1})]
                    /\ advanceCommitIndex(i, currentTerm[i], log[i], match)
                    /\ IF m.match < Len(log[i]) THEN again(m.match + 1) ELSE UNCHANGED sends
                    /\ UNCHANGED <<log, storageErr>>
                 \/ /\ ~m.success
                    /\ nextIndex' = [nextIndex EXCEPT ![i][m.from] = back]
                    /\ again(back)
                    /\ UNCHANGED <<logVars, matchIndex>>
        /\ UNCHANGED <<flushing, requests, handling, bounds>>

-----------------------------------------------------------------------------
\* A wrong consistency check: only the presence of the previous entry counts.
prevMatchesLoosely(l, m) == m.next - 1 <= Len(l)

\* The previous entry of request m is in log l.
prevMatches(l, m) == m.next - 1 <= Len(l) /\ TermAt(l, m.next - 1) = m.prevTerm

\* A wrong hint: the leader is sent back to where it was.
conflictIndexStuck(l, m) == m.next

\* The hint of a refusal: one past the end of a log that is too short, or the
\* first index of the term that stands at the previous index.
conflictIndex(l, m) ==
    LET prev == m.next - 1
    IN  IF prev > Len(l) THEN Len(l) + 1
        ELSE Min({k \in 1..prev : \A n \in k..prev : l[n] = l[prev]})

\* A wrong merge: the follower's log is cut at the end of the request.
mergedAlwaysCut(l, m) == SubSeq(l, 1, m.next - 1) \o m.entries

\* The entries of m that log l lacks or has otherwise, as positions in m.
missing(l, m) ==
    {k \in 1..Len(m.entries) :
        m.next - 1 + k > Len(l) \/ l[m.next - 1 + k] # m.entries[k]}

\* What TruncateAfter leaves of the log: the part before the first such entry.
truncated(l, m) == SubSeq(l, 1, Min({Len(l), m.next - 2 + Min(missing(l, m))}))

\* The log after the entries of m: from the first one that is missing or differs,
\* the request's entries replace the rest; if none is, the log stays.
merged(l, m) ==
    IF missing(l, m) = {} THEN l
    ELSE truncated(l, m) \o SubSeq(m.entries, Min(missing(l, m)), Len(m.entries))

\* A wrong commit index: the leader's, whatever the follower's log holds.
followerCommitBlind(commit, l, m) == Max({commit, m.commit})

\* The follower's commit index after request m has made its log l.
followerCommit(commit, l, m) ==
    IF m.commit > commit THEN Min({m.commit, Len(l)}) ELSE commit

\* What the network carries when the reply m is sent: a reply that its receiver
\* would drop whenever it came, because it has left the term of the request and
\* learns no higher one, is not kept.
Answer(m) ==
    IF \/ m.term > currentTerm[m.to]
       \/ m.req = currentTerm[m.to] /\ state[m.to] = Leader
    THEN replies \cup {m} ELSE replies

\* processAppendEntries once the follower's role and term are settled: the
\* request is refused, merged and acknowledged, or, after a storage error of
\* TruncateAfter or of Append, the node fails.
appendEntries(m, open) ==
    LET i == m.to
        l == merged(log[i], m)
        reply(success, conflict) ==
            Answer([from |-> i, to |-> m.from, req |-> m.term, next |-> m.next,
                    match |-> m.next - 1 + Len(m.entries),
                    term |-> currentTerm[i], success |-> success,
                    conflict |-> conflict])
    IN  /\ handling' = open
        /\ \/ /\ ~prevMatches(log[i], m)
              /\ replies' = reply(FALSE, conflictIndex(log[i], m))
              /\ UNCHANGED <<log, commitIndex, storageErr, fatal, state>>
           \/ /\ prevMatches(log[i], m) /\ (l = log[i] \/ ~storageErr[i])
              /\ log' = [log EXCEPT ![i] = l]
              /\ commitIndex' = [commitIndex EXCEPT ![i] = followerCommit(@, l, m)]
              /\ replies' = reply(TRUE, 0)
              /\ UNCHANGED <<storageErr, fatal, state>>
           \/ /\ prevMatches(log[i], m) /\ l # log[i]
              /\ \/ storageErr[i] /\ UNCHANGED log
                 \/ /\ StorageMayFail
                    /\ \E kept \in {log[i], truncated(log[i], m)} :
                          log' = [log EXCEPT ![i] = kept]
              /\ storageErr' = [storageErr EXCEPT ![i] = TRUE]
              /\ fatal' = [fatal EXCEPT ![i] = TRUE]
              /\ state' = [state EXCEPT ![i] = Follower]
              /\ UNCHANGED <<commitIndex, replies>>
        /\ UNCHANGED <<currentTerm, votedFor, chosen>>

\* processAppendEntries up to its end, or to the Unlock inside stepDown.  A node
\* that has failed answers with an RPC error.  The role Follower stands for the
\* pre-candidate too, for which stepDown is called in the same term.
processAppendEntries(m) ==
    LET i == m.to
        stale == m.term < currentTerm[i]
        settled == m.term = currentTerm[i] /\ state[i] = Follower
    IN  /\ requests' = requests \ {m}
        /\ \/ /\ fatal[i]
              /\ UNCHANGED <<nodeVars, logVars, replies, handling>>
           \/ /\ ~fatal[i] /\ stale
              /\ replies' =
                    Answer([from |-> i, to |-> m.from, req |-> m.term, next |-> m.next,
                            match |-> 0, term |-> currentTerm[i], success |-> FALSE,
                            conflict |-> 0])
              /\ UNCHANGED <<nodeVars, logVars, handling>>
           \/ /\ ~fatal[i] /\ ~stale
              /\ stepDown(i, m.term)
              /\ handling' = handling \cup {m}
              /\ UNCHANGED <<logVars, replies>>
           \/ /\ ~fatal[i] /\ settled
              /\ appendEntries(m, handling)
        /\ UNCHANGED <<leaderVars, flushing, sends, bounds>>

\* processAppendEntries after its stepDown: it does not look at the term again.
resumeAppend(m) ==
    /\ appendEntries(m, handling \ {m})
    /\ UNCHANGED <<leaderVars, flushing, sends, requests, bounds>>

\* The RPC of a replicateTo fails, before or after the peer has handled it, and
\* the call gives up: nothing is tried again.
rpcFails(m) ==
    /\ losses < MaxLosses
    /\ losses' = losses + 1
    /\ requests' = requests \ {m}
    /\ replies' = replies \ {m}
    /\ UNCHANGED <<nodeVars, logVars, leaderVars, flushing, sends, handling, elections,
                   flushes, restarts>>

\* The process dies and starts again: NewRaftNode loads the term, the vote and
\* the log; the commit index starts from zero and every goroutine is gone.
restart(i) ==
    /\ restarts < MaxRestarts
    /\ restarts' = restarts + 1
    /\ state' = [state EXCEPT ![i] = Follower]
    /\ fatal' = [fatal EXCEPT ![i] = FALSE]
    /\ storageErr' = [storageErr EXCEPT ![i] = FALSE]
    /\ commitIndex' = [commitIndex EXCEPT ![i] = 0]
    /\ nextIndex' = [nextIndex EXCEPT ![i] = [j \in Node |-> 0]]
    /\ matchIndex' = [matchIndex EXCEPT ![i] = [j \in Node |-> 0]]
    /\ flushing' = [flushing EXCEPT ![i] = Idle]
    /\ sends' = {s \in sends : s.from # i}
    /\ replies' = {m \in replies : m.to # i}
    /\ handling' = {m \in handling : m.to # i}
    /\ UNCHANGED <<currentTerm, votedFor, log, chosen, requests, elections,
                   flushes, losses>>

-----------------------------------------------------------------------------
Next ==
    \/ \E i \in Node, Q, R \in SUBSET Node : startElection(i, Q, R)
    \/ \E i \in Node : flushBegin(i)
    \/ \E i \in Node : flushAppend(i)
    \/ \E i \in Node : flushEnd(i)
    \/ \E s \in sends : replicateTo(s)
    \/ \E m \in requests : processAppendEntries(m)
    \/ \E m \in handling : resumeAppend(m)
    \/ \E m \in replies : handleReply(m)
    \/ \E m \in requests \cup replies : rpcFails(m)
    \/ \E i \in Node : restart(i)

Spec == Init /\ [][Next]_vars

\* The behaviours in which no other step changes a node while its
\* processAppendEntries waits for stepDown's save.
SavesAreAtomic ==
    \A m \in handling \cap handling' :
        /\ UNCHANGED <<state[m.to], currentTerm[m.to], votedFor[m.to], log[m.to]>>
        /\ \A n \in handling' : n.to = m.to => n = m
AtomicSpec == Init /\ [][Next /\ SavesAreAtomic]_vars

\* Of these, the behaviours in which a flush reaches the log only while its node is
\* still the leader of the flush's term, which RaftLog.Append does not check.
FlushesAreTimely ==
    \A i \in Node : flushing[i].pc = "append" /\ flushing'[i].pc = "end" =>
        state[i] = Leader /\ currentTerm[i] = flushing[i].term
TimelySpec == Init /\ [][Next /\ SavesAreAtomic /\ FlushesAreTimely]_vars

\* And of these, the behaviours in which no request is cut at MaxLogEntriesPerRPC
\* below the commit index it carries.
RequestsCoverCommits ==
    \A m \in requests' \ requests : m.commit <= m.next - 1 + Len(m.entries)
CoveredSpec ==
    Init /\ [][Next /\ SavesAreAtomic /\ FlushesAreTimely /\ RequestsCoverCommits]_vars

\* The goroutines of the flush and of replicateTo run on, and an RPC that does
\* not fail is handled and answered: the scheduler is fair, as Go's is.  Nothing
\* is assumed of elections, of new batches, of restarts and of failures.
Fairness ==
    /\ WF_vars(\E i \in Node : flushAppend(i) \/ flushEnd(i))
    /\ WF_vars(\E s \in sends : replicateTo(s))
    /\ WF_vars(\E m \in requests : processAppendEntries(m))
    /\ WF_vars(\E m \in handling : resumeAppend(m))
    /\ WF_vars(\E m \in replies : handleReply(m))
FairSpec == AtomicSpec /\ Fairness

-----------------------------------------------------------------------------
\* Two logs with the same term at an index agree on everything up to it: the
\* consistency check of processAppendEntries and the merge behind it, although
\* requests arrive late and out of order and a deposed leader may still
\* append what its flush had prepared.
LogMatching ==
    \A i, j \in Node : \A n \in 1..Min({Len(log[i]), Len(log[j])}) :
        log[i][n] = log[j][n] => SubSeq(log[i], 1, n) = SubSeq(log[j], 1, n)

\* What any two nodes take for committed is in both logs, and the same in both:
\* advanceCommitIndex on the leader and min(LeaderCommit, lastIndex) on the
\* followers never mark different entries, over leader changes and restarts.
CommittedAgree ==
    \A i, j \in Node :
        \A n \in 1..Min({commitIndex[i], commitIndex[j]}) :
            n <= Len(log[i]) /\ n <= Len(log[j]) /\ log[i][n] = log[j][n]

\* A node that is elected has every entry that was committed before (the log
\* comparison of handleRequestVote and the current-term rule of
\* advanceCommitIndex).
LeaderCompleteness ==
    \A i \in Node : state[i] = Leader =>
        \A c \in chosen : c.by < currentTerm[i] =>
            Len(log[i]) >= c.index /\ log[i][c.index] = c.term

\* No step removes or replaces an entry the node takes for committed, and the
\* commit index of a running node never goes back.
CommittedStays ==
    [][\A i \in Node :
          /\ SubSeq(log'[i], 1, commitIndex[i]) = SubSeq(log[i], 1, commitIndex[i])
          /\ commitIndex'[i] >= commitIndex[i] \/ restarts' > restarts]_vars

\* What a leader knows of a follower (matchIndex, the ground on which it commits)
\* is true: a follower that has not moved on to a higher term has that prefix of
\* the leader's log.
MatchIndexIsTrue ==
    \A i, j \in Node : state[i] = Leader /\ i # j /\ currentTerm[j] <= currentTerm[i] =>
        LET n == matchIndex[i][j]
        IN  Len(log[j]) >= n /\ SubSeq(log[j], 1, n) = SubSeq(log[i], 1, n)

\* Every index up to a node's commitIndex is committed (the comment on
\* RaftNode.commitIndex): the entry there is one that a leader has committed.
\* A request that is cut at MaxLogEntriesPerRPC breaks it: min(LeaderCommit, lastIndex)
\* looks at the end of the follower's log, which may be a stale suffix behind the
\* entries of the request.  It holds where RequestsCoverCommits does.
CommitIndexIsCommitted ==
    \A i \in Node : \A n \in 1..commitIndex[i] :
        \E c \in chosen : c.index = n /\ c.term = log[i][n]

\* While nothing fails, the leaders that are left once the (bounded) elections are
\* over bring every peer's log up to their own: the retries of replicateTo over the
\* conflict hints end, and the calls of the flush and of initLeaderState cover all
\* entries.
ReplicationConverges ==
    [](losses = 0 /\ restarts = 0) =>
        []<>(\A i, j \in Node : state[i] = Leader /\ i # j /\ ~fatal[j]
                                => matchIndex[i][j] = Len(log[i]))

-----------------------------------------------------------------------------
\* What a log shows, and what a request shows of its sender's log, by index: a
\* request starts with the entry before its own.
OfLog(l) == [n \in 0..Len(l) |-> TermAt(l, n)]
OfRequest(m) ==
    [n \in (m.next - 1)..(m.next - 1 + Len(m.entries)) |->
        IF n = m.next - 1 THEN m.prevTerm ELSE m.entries[n - m.next + 1]]
Parts == {OfLog(log[i]) : i \in Node} \cup {OfRequest(m) : m \in requests \cup handling}

\* Two parts with the same term at an index agree wherever both show something below.
Matching(f, g) ==
    \A n, k \in DOMAIN f \cap DOMAIN g : k <= n /\ f[n] = g[n] => f[k] = g[k]
PartsMatch == \A f, g \in Parts : Matching(f, g)

\* The terms in which node i may still make an entry.
Claims(i) ==
    (IF state[i] = Leader THEN {currentTerm[i]} ELSE {})
    \cup (IF flushing[i].pc = "append" THEN {flushing[i].term} ELSE {})

\* Node w has won an election of term t: a majority has reached the term and, as
\* far as it is still there, has voted for w.
Elected(t) ==
    \E w \in Node, Q \in SUBSET Node :
        /\ IsQuorum(Q) /\ currentTerm[w] >= t
        /\ \A j \in Q : currentTerm[j] > t \/ (currentTerm[j] = t /\ votedFor[j] = w)
TermsAreElected ==
    /\ \A i \in Node : \A t \in Claims(i) : t > 0 /\ Elected(t)
    /\ \A f \in Parts : \A n \in DOMAIN f : f[n] > 0 => Elected(f[n])
    /\ \A i, j \in Node : i # j => Claims(i) \cap Claims(j) = {}

\* A leader's log reaches as far as its term does anywhere, and the entry of a
\* flush that has not reached the log is nowhere.
NewEntriesAreFresh ==
    \A i \in Node, f \in Parts :
        /\ state[i] = Leader => \A n \in DOMAIN f : f[n] = currentTerm[i] => n <= Len(log[i])
        /\ flushing[i].pc = "append" /\ flushing[i].index \in DOMAIN f
              => f[flushing[i].index] # flushing[i].term

\* Requests start at index 1 or later; before it there is nothing.
RequestsStart ==
    \A m \in requests \cup handling : m.next > 0 /\ (m.next = 1 => m.prevTerm = 0)

\* A node that handles a request has stepped down.
HandlersFollow == \A m \in handling : state[m.to] = Follower

\* The inductive invariant behind LogMatching.
MatchingInv ==
    RequestsStart /\ HandlersFollow /\ PartsMatch /\ TermsAreElected /\ NewEntriesAreFresh
=============================================================================
