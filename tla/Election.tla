------------------------------ MODULE Election ------------------------------
(***************************************************************************)
(* Leader election of internal/raft: election.go, the parts of raft.go and *)
(* replication.go that change a node's role, term, vote or known leader,   *)
(* and persistent_state.go.                                                *)
(*                                                                         *)
(* A RaftNode guards its fields with the mutex r.mu, so the code between   *)
(* two lock operations is one step.  Three functions release r.mu around   *)
(* SaveTermAndVote: startElection, handleRequestVote and stepDown.  The    *)
(* rest of such a function is a record of `windows': it holds the values   *)
(* captured for the save and what the function still has to do.  Any other *)
(* step of the node may come between the release, the save and the relock. *)
(*                                                                         *)
(* The log is abstracted: whether a candidate's log is up to date and      *)
(* whether the last heartbeat is recent are parameters of the handlers.    *)
(* An RPC is a message taken from the network once; a lost request, a lost *)
(* reply and an expired context are messages that are never taken.         *)
(*                                                                         *)
(* The pre-vote RPCs are in module PreVote.  Here the pre-vote phase shows *)
(* only as what it may do to the node: make it a pre-candidate, step it    *)
(* down, and start an election.                                            *)
(***************************************************************************)
EXTENDS Integers, FiniteSets

CONSTANTS Node,           \* the members of the static cluster configuration
          Nil,            \* the empty string of votedFor and leaderID
          MaxElections,   \* bound on the elections that are started
          MaxTimeouts,    \* bound on the election timeouts that fire
          MaxRounds,      \* bound on both together
          MaxHeartbeats,  \* bound on the heartbeat rounds that are sent
          MaxCrashes,     \* bound on crashes
          MaxEvents,      \* bound on heartbeat rounds and crashes together
          StorageMayFail  \* whether disk writes may return an error

ASSUME NodeAssumption == IsFiniteSet(Node) /\ Nil \notin Node
ASSUME BoundAssumption ==
    /\ MaxElections \in Nat /\ MaxTimeouts \in Nat /\ MaxRounds \in Nat
    /\ MaxHeartbeats \in Nat /\ MaxCrashes \in Nat /\ MaxEvents \in Nat
    /\ StorageMayFail \in BOOLEAN

VARIABLES state, currentTerm, votedFor, leaderID, fatal,  \* RaftNode fields
          disk,      \* what raft_state.json holds
          windows,   \* functions that are between Unlock and Lock
          votes,     \* voters counted by the node's last startElection
          beats,     \* sendHeartbeats goroutines
          msgs,      \* RPC requests and replies in flight
          timeouts, started, heartbeats, crashes,  \* counts of the bounded events
          ballots,   \* history: <<term, voter, candidate>> of every vote given away
          elections, \* history: <<term, node>> of every election won
          lost       \* history: nodes whose file has missed or undone a save

nodeVars == <<state, currentTerm, votedFor, leaderID, fatal>>
roundVars == <<votes, beats>>
history == <<ballots, elections, lost>>
bounds == <<timeouts, started, heartbeats, crashes>>
vars == <<nodeVars, disk, windows, roundVars, msgs, bounds, history>>

Follower == "Follower"
PreCandidate == "PreCandidate"
Candidate == "Candidate"
Leader == "Leader"

Role == {Follower, PreCandidate, Candidate, Leader}
Vote == Node \cup {Nil}

\* ClusterConfig.Majority.
Majority == (Cardinality(Node) \div 2) + 1
IsQuorum(S) == Cardinality(S) >= Majority

\* RequestVoteRequest of a real election.
RequestVote == [type: {"RequestVote"}, from: Node, to: Node, term: Nat]
\* RequestVoteResponse, with the request's term (`req'), which the goroutine
\* that waits for the reply knows.
RequestVoteReply == [type: {"RequestVoteReply"}, from: Node, to: Node,
                     term: Nat, req: Nat, granted: BOOLEAN]
\* A heartbeat: an AppendEntriesRequest without entries, and its response.
AppendEntries == [type: {"AppendEntries"}, from: Node, to: Node, term: Nat]
AppendReply == [type: {"AppendReply"}, from: Node, to: Node, term: Nat]
Message == RequestVote \cup RequestVoteReply \cup AppendEntries \cup AppendReply

\* A function that released r.mu for SaveTermAndVote(term, vote).  `kind' is
\* where it goes on: startElection, the stepDown or the vote of
\* handleRequestVote, the stepDown of processAppendEntries, or the stepDown of
\* a goroutine that handles a reply.  `from' and `req' are the sender and the
\* term of the request being handled.
Window == [node: Node, kind: {"elect", "voteStepDown", "vote", "append", "reply"},
           term: Nat, vote: Vote, saved: BOOLEAN, from: Node, req: Nat]

Heartbeater == [node: Node, term: Nat, pc: {"send", "check"}]

\* Every variable has its type.
TypeOK ==
    /\ state \in [Node -> Role]
    /\ currentTerm \in [Node -> Nat]
    /\ votedFor \in [Node -> Vote]
    /\ leaderID \in [Node -> Vote]
    /\ fatal \in [Node -> BOOLEAN]
    /\ disk \in [Node -> [term: Nat, vote: Vote]]
    /\ windows \in SUBSET Window
    /\ votes \in [Node -> SUBSET Node]
    /\ beats \in SUBSET Heartbeater
    /\ msgs \in SUBSET Message
    /\ timeouts \in 0..MaxTimeouts
    /\ started \in 0..MaxElections
    /\ heartbeats \in 0..MaxHeartbeats
    /\ crashes \in 0..MaxCrashes
    /\ ballots \in SUBSET (Nat \X Node \X Node)
    /\ elections \in SUBSET (Nat \X Node)
    /\ lost \in SUBSET Node

\* NewRaftNode with an empty data directory, on every node.
Init ==
    /\ state = [i \in Node |-> Follower]
    /\ currentTerm = [i \in Node |-> 0]
    /\ votedFor = [i \in Node |-> Nil]
    /\ leaderID = [i \in Node |-> Nil]
    /\ fatal = [i \in Node |-> FALSE]
    /\ disk = [i \in Node |-> [term |-> 0, vote |-> Nil]]
    /\ windows = {}
    /\ votes = [i \in Node |-> {}]
    /\ beats = {}
    /\ msgs = {}
    /\ timeouts = 0
    /\ started = 0
    /\ heartbeats = 0
    /\ crashes = 0
    /\ ballots = {}
    /\ elections = {}
    /\ lost = {}

-----------------------------------------------------------------------------
\* A wrong stepDown: it clears the vote although the term stays.
voteAfterForgotten(i, term) == Nil

\* The vote after stepDown(term): it is cleared only for a higher term.
voteAfter(i, term) == IF term > currentTerm[i] THEN Nil ELSE votedFor[i]

\* stepDown up to the Unlock before its save.  Every caller then relies on the
\* fields it has set while the mutex is free again.
stepDown(i, term, kind, from, req, open) ==
    LET newTerm == IF term > currentTerm[i] THEN term ELSE currentTerm[i]
        newVote == voteAfter(i, term)
    IN  /\ state' = [state EXCEPT ![i] = Follower]
        /\ currentTerm' = [currentTerm EXCEPT ![i] = newTerm]
        /\ votedFor' = [votedFor EXCEPT ![i] = newVote]
        /\ leaderID' = [leaderID EXCEPT ![i] = Nil]
        /\ windows' = open \cup {[node |-> i, kind |-> kind, term |-> newTerm,
                                  vote |-> newVote, saved |-> FALSE,
                                  from |-> from, req |-> req]}
        /\ UNCHANGED fatal

\* A node with this term and vote may later have the other ones.
Precedes(term, vote, laterTerm, laterVote) ==
    \/ term < laterTerm
    \/ term = laterTerm /\ vote \in {Nil, laterVote}

\* SaveTermAndVote runs under its own mutex with the captured values, so the last
\* one to run wins.  Callers ignore its error.  After the save of a reply handler's
\* stepDown there is nothing left to do for the election.
SaveTermAndVote(w) ==
    LET i == w.node
    IN  /\ ~w.saved
        /\ \/ /\ disk' = [disk EXCEPT ![i] = [term |-> w.term, vote |-> w.vote]]
              /\ lost' = IF Precedes(disk[i].term, disk[i].vote, w.term, w.vote)
                         THEN lost ELSE lost \cup {i}
           \/ /\ StorageMayFail
              /\ lost' = lost \cup {i}
              /\ UNCHANGED disk
        /\ windows' = (windows \ {w}) \cup
                      (IF w.kind = "reply" THEN {} ELSE {[w EXCEPT !.saved = TRUE]})
        /\ UNCHANGED <<nodeVars, roundVars, msgs, bounds, ballots, elections>>

-----------------------------------------------------------------------------
\* runElectionTimer fires and spawns startPreVote, which may run at any later
\* time: it only looks at fatalErr and at the role.
startPreVote(i) ==
    /\ timeouts < MaxTimeouts /\ timeouts + started < MaxRounds
    /\ timeouts' = timeouts + 1
    /\ ~fatal[i] /\ state[i] # Leader
    /\ state' = [state EXCEPT ![i] = PreCandidate]
    /\ UNCHANGED <<currentTerm, votedFor, leaderID, fatal, disk, windows,
                   roundVars, msgs, started, heartbeats, crashes, history>>

\* A goroutine of startPreVote gets the reply of a peer j that had reached
\* `term', and steps down without looking at the node's present role or term.
preVoteStepDown(i, j, term) ==
    /\ timeouts > 0
    /\ i # j /\ term <= currentTerm[j]
    /\ stepDown(i, term, "reply", i, term, windows)
    /\ UNCHANGED <<disk, roundVars, msgs, bounds, history>>

\* The node wins: initLeaderState appends the no-op, and the heartbeat goroutine
\* starts.  If the append fails the node is marked fatal and is no leader.
becomeLeader(i) ==
    \/ /\ state' = [state EXCEPT ![i] = Leader]
       /\ elections' = elections \cup {<<currentTerm[i], i>>}
       /\ beats' = beats \cup {[node |-> i, term |-> currentTerm[i], pc |-> "send"]}
       /\ UNCHANGED fatal
    \/ /\ StorageMayFail
       /\ state' = [state EXCEPT ![i] = Follower]
       /\ fatal' = [fatal EXCEPT ![i] = TRUE]
       /\ UNCHANGED <<elections, beats>>

\* A wrong startElection: it lowers the term.
electionTermLowered(i) == currentTerm[i] - 1

electionTerm(i) == currentTerm[i] + 1

\* startElection up to the Unlock before its save.  The goroutine that runs it
\* was spawned earlier, so it may come at any time.
startElection(i) ==
    LET term == electionTerm(i)
    IN  /\ started < MaxElections /\ timeouts + started < MaxRounds
        /\ started' = started + 1
        /\ ~fatal[i] /\ state[i] # Leader
        /\ state' = [state EXCEPT ![i] = Candidate]
        /\ currentTerm' = [currentTerm EXCEPT ![i] = term]
        /\ votedFor' = [votedFor EXCEPT ![i] = i]
        /\ votes' = [votes EXCEPT ![i] = {}]
        /\ windows' = windows \cup
              {[node |-> i, kind |-> "elect", term |-> term, vote |-> i,
                saved |-> FALSE, from |-> i, req |-> term]}
        /\ UNCHANGED <<leaderID, fatal, disk, beats, msgs, timeouts, heartbeats,
                       crashes, history>>

\* The rest of startElection: it gives up if the role or the term has changed,
\* wins at once in a cluster of one, and asks the peers for votes otherwise.
resumeElection(w) ==
    LET i == w.node
        alive == state[i] = Candidate /\ currentTerm[i] = w.term
    IN  /\ w.kind = "elect" /\ w.saved
        /\ windows' = windows \ {w}
        /\ \/ /\ ~alive
              /\ UNCHANGED <<state, fatal, votes, beats, msgs, history>>
           \/ /\ alive
              /\ votes' = [votes EXCEPT ![i] = {i}]
              /\ ballots' = ballots \cup {<<w.term, i, i>>}
              /\ \/ /\ Majority <= 1
                    /\ becomeLeader(i)
                    /\ UNCHANGED msgs
                 \/ /\ Majority > 1
                    /\ msgs' = msgs \cup
                          {[type |-> "RequestVote", from |-> i, to |-> j,
                            term |-> w.term] : j \in Node \ {i}}
                    /\ UNCHANGED <<state, fatal, beats, elections>>
        /\ UNCHANGED <<currentTerm, votedFor, leaderID, disk, bounds, lost>>

-----------------------------------------------------------------------------
\* What the network carries when the reply m is sent: a reply that its receiver
\* would drop whenever it came (a refusal or a heartbeat's answer that shows no
\* term above the receiver's, a vote for an election that is over) is not kept.
\* Terms of a running node only grow, and a restarted node receives no old reply.
Reply(rest, m) ==
    IF \/ m.term > currentTerm[m.to]
       \/ /\ m.type = "RequestVoteReply"
          /\ m.granted /\ m.req = currentTerm[m.to]
    THEN rest \cup {m}
    ELSE rest

\* A leader, or a follower that heard from a leader within the minimum election
\* timeout, ignores vote requests of any kind.
isLeaderAlive(i, recent) ==
    \/ state[i] = Leader
    \/ state[i] = Follower /\ leaderID[i] # Nil /\ recent

VoteReply(i, to, req, granted) ==
    [type |-> "RequestVoteReply", from |-> i, to |-> to,
     term |-> currentTerm[i], req |-> req, granted |-> granted]

\* A wrong vote: it goes to any up-to-date candidate, whoever got it before.
canVoteTwice(i, candidate) == TRUE

canVote(i, candidate) == votedFor[i] \in {Nil, candidate}

\* A wrong vote: the node takes the candidate for its leader.
castVoteSetsLeader(i, candidate, req, upToDate, ws, ms) ==
    /\ canVote(i, candidate) /\ upToDate
    /\ votedFor' = [votedFor EXCEPT ![i] = candidate]
    /\ leaderID' = [leaderID EXCEPT ![i] = candidate]
    /\ windows' = ws \cup
          {[node |-> i, kind |-> "vote", term |-> currentTerm[i], vote |-> candidate,
            saved |-> FALSE, from |-> candidate, req |-> req]}
    /\ msgs' = ms
    /\ UNCHANGED <<state, currentTerm, fatal>>

\* The vote itself, for the term the node is in now: `ws' and `ms' are the
\* windows and messages left when the caller's own have been taken away.
castVote(i, candidate, req, upToDate, ws, ms) ==
    \/ /\ canVote(i, candidate) /\ upToDate
       /\ votedFor' = [votedFor EXCEPT ![i] = candidate]
       /\ windows' = ws \cup
             {[node |-> i, kind |-> "vote", term |-> currentTerm[i],
               vote |-> candidate, saved |-> FALSE, from |-> candidate, req |-> req]}
       /\ msgs' = ms
       /\ UNCHANGED <<state, currentTerm, leaderID, fatal>>
    \/ /\ ~(canVote(i, candidate) /\ upToDate)
       /\ msgs' = Reply(ms, VoteReply(i, candidate, req, FALSE))
       /\ windows' = ws
       /\ UNCHANGED nodeVars

\* handleRequestVote up to its end or to the first Unlock.
handleRequestVote(m, recent, upToDate) ==
    LET i == m.to
        ignore == fatal[i] \/ m.term < currentTerm[i] \/ isLeaderAlive(i, recent)
        rest == msgs \ {m}
    IN  /\ m.type = "RequestVote"
        /\ \/ /\ ignore
              /\ msgs' = Reply(rest, VoteReply(i, m.from, m.term, FALSE))
              /\ UNCHANGED <<nodeVars, windows>>
           \/ /\ ~ignore /\ m.term > currentTerm[i]
              /\ stepDown(i, m.term, "voteStepDown", m.from, m.term, windows)
              /\ msgs' = rest
           \/ /\ ~ignore /\ m.term = currentTerm[i]
              /\ castVote(i, m.from, m.term, upToDate, windows, rest)
        /\ UNCHANGED <<disk, roundVars, bounds, history>>

\* handleRequestVote after its stepDown: the vote is for the term the node is
\* in now, which may be higher than the request's.
resumeAfterStepDown(w, upToDate) ==
    /\ w.kind = "voteStepDown" /\ w.saved
    /\ castVote(w.node, w.from, w.req, upToDate, windows \ {w}, msgs)
    /\ UNCHANGED <<disk, roundVars, bounds, history>>

\* handleRequestVote after the save of its vote: it answers with the term the
\* node is in now.
resumeVote(w) ==
    /\ w.kind = "vote" /\ w.saved
    /\ windows' = windows \ {w}
    /\ msgs' = Reply(msgs, VoteReply(w.node, w.from, w.req, TRUE))
    /\ ballots' = ballots \cup {<<w.term, w.node, w.from>>}
    /\ UNCHANGED <<nodeVars, disk, roundVars, bounds, elections, lost>>

\* A wrong count: replies to an earlier election count as well.
countableLate(m) == state[m.to] = Candidate /\ m.granted

\* A reply counts for the election of the term it was asked in.
countable(m) ==
    LET i == m.to
    IN  /\ currentTerm[i] = m.req /\ state[i] = Candidate
        /\ m.term >= m.req /\ m.granted

\* sendRequestVote after the RPC, and the goroutine of startElection behind it: it
\* counts the vote and, with a majority, takes r.mu again to become leader.  Since
\* it checks role and term there once more, counting and winning are one step.
handleVoteReply(m) ==
    LET i == m.to
        counted == votes[i] \cup {m.from}
    IN  /\ m.type = "RequestVoteReply"
        /\ msgs' = msgs \ {m}
        /\ \/ /\ m.term > currentTerm[i]
              /\ stepDown(i, m.term, "reply", i, m.term, windows)
              /\ UNCHANGED <<votes, beats, elections>>
           \/ /\ m.term <= currentTerm[i] /\ ~countable(m)
              /\ UNCHANGED <<nodeVars, windows, votes, beats, elections>>
           \/ /\ m.term <= currentTerm[i] /\ countable(m)
              /\ votes' = [votes EXCEPT ![i] = counted]
              /\ IF ~IsQuorum(votes[i]) /\ IsQuorum(counted)
                 THEN becomeLeader(i)
                 ELSE UNCHANGED <<state, fatal, beats, elections>>
              /\ UNCHANGED <<currentTerm, votedFor, leaderID, windows>>
        /\ UNCHANGED <<disk, bounds, ballots, lost>>

-----------------------------------------------------------------------------
\* sendHeartbeatOnce: the term is read here, the role was read earlier.
sendHeartbeatOnce(b) ==
    /\ b.pc = "send"
    /\ heartbeats < MaxHeartbeats /\ heartbeats + crashes < MaxEvents
    /\ heartbeats' = heartbeats + 1
    /\ msgs' = msgs \cup
          {[type |-> "AppendEntries", from |-> b.node, to |-> j,
            term |-> currentTerm[b.node]] : j \in Node \ {b.node}}
    /\ beats' = (beats \ {b}) \cup {[b EXCEPT !.pc = "check"]}
    /\ UNCHANGED <<nodeVars, disk, windows, votes, timeouts, started,
                   crashes, history>>

\* The ticker of sendHeartbeats: a node that is no leader ends the goroutine.
sendHeartbeats(b) ==
    /\ b.pc = "check"
    /\ beats' = (beats \ {b}) \cup
                (IF state[b.node] = Leader THEN {[b EXCEPT !.pc = "send"]} ELSE {})
    /\ UNCHANGED <<nodeVars, disk, windows, votes, msgs, bounds, history>>

\* processAppendEntries on a heartbeat, up to its end or to stepDown's Unlock.  A
\* node that has failed answers with an RPC error, which the sender drops.
processAppendEntries(m) ==
    LET i == m.to
        reply == [type |-> "AppendReply", from |-> i, to |-> m.from,
                  term |-> currentTerm[i]]
        refuse == m.term < currentTerm[i]
        yield == m.term > currentTerm[i] \/ state[i] # Follower
    IN  /\ m.type = "AppendEntries"
        /\ \/ /\ fatal[i]
              /\ msgs' = msgs \ {m}
              /\ UNCHANGED <<nodeVars, windows>>
           \/ /\ ~fatal[i] /\ refuse
              /\ msgs' = Reply(msgs \ {m}, reply)
              /\ UNCHANGED <<nodeVars, windows>>
           \/ /\ ~fatal[i] /\ ~refuse /\ yield
              /\ stepDown(i, m.term, "append", m.from, m.term, windows)
              /\ msgs' = msgs \ {m}
           \/ /\ ~fatal[i] /\ ~refuse /\ ~yield
              /\ leaderID' = [leaderID EXCEPT ![i] = m.from]
              /\ msgs' = Reply(msgs \ {m}, reply)
              /\ UNCHANGED <<state, currentTerm, votedFor, fatal, windows>>
        /\ UNCHANGED <<disk, roundVars, bounds, history>>

\* processAppendEntries after its stepDown: it does not look at the term again.
resumeAppend(w) ==
    /\ w.kind = "append" /\ w.saved
    /\ windows' = windows \ {w}
    /\ leaderID' = [leaderID EXCEPT ![w.node] = w.from]
    /\ msgs' = Reply(msgs, [type |-> "AppendReply", from |-> w.node,
                            to |-> w.from, term |-> currentTerm[w.node]])
    /\ UNCHANGED <<state, currentTerm, votedFor, fatal, disk, roundVars, bounds, history>>

\* sendHeartbeatOnce after the RPC.
handleAppendReply(m) ==
    LET i == m.to
    IN  /\ m.type = "AppendReply"
        /\ msgs' = msgs \ {m}
        /\ \/ /\ m.term > currentTerm[i]
              /\ stepDown(i, m.term, "reply", i, m.term, windows)
           \/ /\ m.term <= currentTerm[i]
              /\ UNCHANGED <<nodeVars, windows>>
        /\ UNCHANGED <<disk, roundVars, bounds, history>>

\* A wrong restart: the term is loaded, the vote is not.
restartVoteLost(i) == Nil

\* The vote that newPersistentState loads.
restartVote(i) == disk[i].vote

\* The process dies and starts again: NewRaftNode loads term and vote from disk,
\* every goroutine is gone, and replies to the old process reach nobody.
crash(i) ==
    /\ crashes < MaxCrashes /\ heartbeats + crashes < MaxEvents
    /\ crashes' = crashes + 1
    /\ state' = [state EXCEPT ![i] = Follower]
    /\ currentTerm' = [currentTerm EXCEPT ![i] = disk[i].term]
    /\ votedFor' = [votedFor EXCEPT ![i] = restartVote(i)]
    /\ leaderID' = [leaderID EXCEPT ![i] = Nil]
    /\ fatal' = [fatal EXCEPT ![i] = FALSE]
    /\ windows' = {w \in windows : w.node # i}
    /\ votes' = [votes EXCEPT ![i] = {}]
    /\ beats' = {b \in beats : b.node # i}
    /\ msgs' = {m \in msgs : m.to # i \/ m.type \in {"RequestVote", "AppendEntries"}}
    /\ UNCHANGED <<disk, timeouts, started, heartbeats, history>>

-----------------------------------------------------------------------------
Next ==
    \/ \E i \in Node : startPreVote(i)
    \/ \E i, j \in Node : \E term \in 1..currentTerm[j] : preVoteStepDown(i, j, term)
    \/ \E i \in Node : startElection(i)
    \/ \E w \in windows : SaveTermAndVote(w)
    \/ \E w \in windows : resumeElection(w)
    \/ \E w \in windows, upToDate \in BOOLEAN : resumeAfterStepDown(w, upToDate)
    \/ \E w \in windows : resumeVote(w)
    \/ \E w \in windows : resumeAppend(w)
    \/ \E m \in msgs, recent, upToDate \in BOOLEAN :
          handleRequestVote(m, recent, upToDate)
    \/ \E m \in msgs : handleVoteReply(m)
    \/ \E m \in msgs : processAppendEntries(m)
    \/ \E m \in msgs : handleAppendReply(m)
    \/ \E b \in beats : sendHeartbeatOnce(b)
    \/ \E b \in beats : sendHeartbeats(b)

\* No process dies: what the code does while it runs.
Spec == Init /\ [][Next]_vars

\* Any process may die at any point and restart from its file, unless the file has
\* lost a save: one that failed, or one that an older save, which had waited for
\* the mutex of PersistentState, has overwritten.
CrashNext == Next \/ \E i \in Node \ lost : crash(i)
CrashSpec == Init /\ [][CrashNext]_vars

-----------------------------------------------------------------------------
\* At most one node ever wins the election of a term: the vote counting of
\* startElection, although votes are cast and counted with the mutex released
\* in between.
ElectionSafety ==
    \A e, f \in elections : e[1] = f[1] => e[2] = f[2]

\* A running node never goes back to an earlier term, and within a term it never
\* takes back or changes its vote, whatever runs inside the windows in which
\* startElection, stepDown and handleRequestVote have released the mutex.
VoteStability ==
    [][crashes' = crashes => \A i \in Node :
          /\ currentTerm'[i] >= currentTerm[i]
          /\ currentTerm'[i] = currentTerm[i] /\ votedFor[i] # Nil
                => votedFor'[i] = votedFor[i]]_vars

\* When a node is elected for a term, a majority of the cluster has reached that
\* term, so no node can still be elected for an earlier one without them.
ElectedTermReachesMajority ==
    \A e \in elections : IsQuorum({v \in Node : currentTerm[v] >= e[1]})

\* The leader a node knows of (leaderID, the target of forwarded requests) has
\* won an election of a term the node has reached.
KnownLeaderWasElected ==
    \A i \in Node : leaderID[i] # Nil =>
        \E e \in elections : e[2] = leaderID[i] /\ e[1] <= currentTerm[i]

\* A node casts at most one vote in a term, over all its restarts.
OneVotePerTerm ==
    \A b, c \in ballots : b[1] = c[1] /\ b[2] = c[2] => b[3] = c[3]

-----------------------------------------------------------------------------
\* The inductive invariant of the election.
\* A claim is a vote given away or about to be: the function that holds it is
\* still saving it.
Claims ==
    ballots \cup {<<w.term, w.node, w.from>> :
                  w \in {v \in windows : v.kind \in {"elect", "vote"}}}

\* A claim for the voter's present term is the vote it remembers.
ClaimsAreRemembered ==
    \A c \in Claims :
        \/ c[1] < currentTerm[c[2]]
        \/ c[1] = currentTerm[c[2]] /\ c[3] = votedFor[c[2]]

ClaimsAgree ==
    \A b, c \in Claims : b[1] = c[1] /\ b[2] = c[2] => b[3] = c[3]

\* What the open windows know about the node and the request they handle.
WindowsSound ==
    \A w \in windows :
        /\ w.kind = "elect" => w.from = w.node
        /\ w.kind = "vote" => w.req <= w.term /\ w.term <= currentTerm[w.node]
        /\ w.kind \in {"voteStepDown", "append"} => w.req <= currentTerm[w.node]

\* A granted vote that can be counted was given away in the counted term.
GrantsAreBallots ==
    \A m \in msgs : m.type = "RequestVoteReply" /\ m.granted =>
        /\ m.req <= m.term
        /\ m.term = m.req => <<m.term, m.from, m.to>> \in ballots

CountedVotesAreBallots ==
    \A i \in Node : state[i] = Candidate =>
        \A v \in votes[i] : <<currentTerm[i], v, i>> \in ballots

ElectedByMajority ==
    \A e \in elections : IsQuorum({v \in Node : <<e[1], v, e[2]>> \in ballots})

\* Every vote that startElection counts, and every election it wins, rests on
\* votes that their voters gave away in that term and have not changed.
ElectionInv ==
    /\ ClaimsAreRemembered
    /\ ClaimsAgree
    /\ WindowsSound
    /\ GrantsAreBallots
    /\ CountedVotesAreBallots
    /\ ElectedByMajority

\* Node n has won an election of a term up to t.
Won(n, t) == \E e \in elections : e[2] = n /\ e[1] <= t

\* What names a leader: leaderID, the heartbeats on their way, their handlers, and
\* the goroutines that send them.
LeadersWereElected ==
    /\ KnownLeaderWasElected
    /\ \A m \in msgs : m.type = "AppendEntries" => Won(m.from, m.term)
    /\ \A w \in windows : w.kind = "append" => Won(w.from, w.req)
    /\ \A b \in beats : Won(b.node, currentTerm[b.node])

-----------------------------------------------------------------------------
\* What a restart relies on.  A vote that was given away is in the file, or the
\* file has gone on to a later term.
BallotsOnDisk ==
    \A b \in ballots :
        \/ b[2] \in lost
        \/ b[1] < disk[b[2]].term
        \/ b[1] = disk[b[2]].term /\ b[3] = disk[b[2]].vote

\* What a restart would load is no later than what the node knows, and no other
\* vote.
DiskIsBehind ==
    \A i \in Node : Precedes(disk[i].term, disk[i].vote, currentTerm[i], votedFor[i])

\* So is what a window saves, and once it is saved the file has it or more.
WindowsAreBehind ==
    \A w \in windows :
        /\ Precedes(w.term, w.vote, currentTerm[w.node], votedFor[w.node])
        /\ w.kind \in {"elect", "vote"} => w.from = w.vote
        /\ w.saved => \/ w.node \in lost
                      \/ Precedes(w.term, w.vote, disk[w.node].term, disk[w.node].vote)

\* SaveTermAndVote comes before the reply or the request that relies on it, so
\* newPersistentState brings back every vote the node has given away, although the
\* saves of a node overlap.
CrashInv == BallotsOnDisk /\ DiskIsBehind /\ WindowsAreBehind
=============================================================================
