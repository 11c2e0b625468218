----------------------------- MODULE Membership -----------------------------
(***************************************************************************)
(* Membership changes: membership.go, and elections, replication and       *)
(* commits under configurations that differ from node to node, because a   *)
(* change takes effect on a node when the node applies it.                 *)
(*                                                                         *)
(* An exchange of an RPC is one step.  A candidate counts with the         *)
(* configuration that it had when it started.  Pre-votes, heartbeats and   *)
(* commands of the store are left out, and so are restarts.                *)
(*                                                                         *)
(* A change is asked for whenever the leader takes it: the code looks only *)
(* at the role and at the leader's own pendingMembership.  A removed node  *)
(* may be stopped, and starts elections as long as it is not.  An added    *)
(* node is new and is started with the addresses of the present members.   *)
(***************************************************************************)
EXTENDS Integers, Sequences, FiniteSets, FiniteSetsExt

CONSTANTS Node,       \* the nodes
          Initial,    \* the members at the start
          Nil,        \* no node
          MaxTerm,    \* bound on terms
          MaxChanges  \* bound on the changes that are asked for

VARIABLES status,             \* whether a node is new, up or stopped
          currentTerm, votedFor, state, log, commitIndex, lastApplied, matchIndex,
          clusterConfig, pendingMembership,
          electorate, votes,  \* what startElection captured, and who voted
          removing,           \* applyMembership is in the stepDown of its own removal
          changes,            \* number of changes asked for
          elections           \* history: <<term, node>> of every election won

termVars == <<currentTerm, votedFor, state>>
logVars == <<log, commitIndex, matchIndex>>
applyVars == <<lastApplied, clusterConfig, pendingMembership, removing>>
campaign == <<electorate, votes>>
vars == <<status, termVars, logVars, applyVars, campaign, changes, elections>>

-----------------------------------------------------------------------------
\* ClusterConfig.Majority
Majority(config) == Cardinality(config) \div 2 + 1

Noop(t) == [term |-> t, type |-> "Noop", node |-> Nil]
NoMatch == [n \in Node |-> 0]
LastTerm(n) == IF log[n] = <<>> THEN 0 ELSE log[n][Len(log[n])].term

\* A leader has been elected in term 1, and its noop is applied everywhere.
Init ==
    /\ \E l \in Initial :
          /\ state = [n \in Node |-> IF n = l THEN "Leader" ELSE "Follower"]
          /\ votedFor = [n \in Node |-> IF n \in Initial THEN l ELSE Nil]
          /\ matchIndex = [n \in Node |-> [p \in Node |-> IF n = l /\ p \in Initial \ {l} THEN 1 ELSE 0]]
          /\ elections = {<<1, l>>}
    /\ status = [n \in Node |-> IF n \in Initial THEN "up" ELSE "new"]
    /\ currentTerm = [n \in Node |-> IF n \in Initial THEN 1 ELSE 0]
    /\ log = [n \in Node |-> IF n \in Initial THEN <<Noop(1)>> ELSE <<>>]
    /\ commitIndex = [n \in Node |-> Len(log[n])] /\ lastApplied = commitIndex
    /\ clusterConfig = [n \in Node |-> IF n \in Initial THEN Initial ELSE {}]
    /\ pendingMembership = [n \in Node |-> FALSE] /\ removing = [n \in Node |-> FALSE]
    /\ electorate = [n \in Node |-> {}] /\ votes = [n \in Node |-> {}]
    /\ changes = 0

\* n leaves its role for term t; what belongs to the role is forgotten.
stepDown(n, t) ==
    /\ state' = [state EXCEPT ![n] = "Follower"]
    /\ currentTerm' = [currentTerm EXCEPT ![n] = t]
    /\ electorate' = [electorate EXCEPT ![n] = {}] /\ votes' = [votes EXCEPT ![n] = {}]
    /\ matchIndex' = [matchIndex EXCEPT ![n] = NoMatch]

-----------------------------------------------------------------------------
\* startElection: the peers and the majority are those of the node's configuration,
\* which need not contain the node.
startElection(n) ==
    /\ status[n] = "up" /\ state[n] # "Leader" /\ currentTerm[n] < MaxTerm
    /\ state' = [state EXCEPT ![n] = "Candidate"]
    /\ currentTerm' = [currentTerm EXCEPT ![n] = @ + 1]
    /\ votedFor' = [votedFor EXCEPT ![n] = n]
    /\ electorate' = [electorate EXCEPT ![n] = clusterConfig[n]]
    /\ votes' = [votes EXCEPT ![n] = {n}]
    /\ UNCHANGED <<status, logVars, applyVars, changes, elections>>

\* handleRequestVote: the candidate's log is up to date.
upToDate(n, q) ==
    \/ LastTerm(n) > LastTerm(q)
    \/ LastTerm(n) = LastTerm(q) /\ Len(log[n]) >= Len(log[q])

\* q votes for n; it does not ask whether n is a member, nor whether it is one.
handleRequestVote(n, q) ==
    /\ state[n] = "Candidate" /\ q \in electorate[n] \ votes[n]
    /\ status[n] = "up" /\ status[q] = "up" /\ state[q] # "Leader" /\ upToDate(n, q)
    /\ \/ currentTerm[q] < currentTerm[n]
       \/ currentTerm[q] = currentTerm[n] /\ votedFor[q] \in {Nil, n}
    /\ state' = [state EXCEPT ![q] = IF currentTerm[q] < currentTerm[n] THEN "Follower" ELSE @]
    /\ currentTerm' = [currentTerm EXCEPT ![q] = currentTerm[n]]
    /\ votedFor' = [votedFor EXCEPT ![q] = n]
    /\ electorate' = [electorate EXCEPT ![q] = {}]
    /\ votes' = [votes EXCEPT ![q] = {}, ![n] = @ \cup {q}]
    /\ UNCHANGED <<status, logVars, applyVars, changes, elections>>

\* The votes suffice: initLeaderState appends the noop of the term.
becomeLeader(n) ==
    /\ status[n] = "up" /\ state[n] = "Candidate"
    /\ Cardinality(votes[n]) >= Majority(electorate[n])
    /\ state' = [state EXCEPT ![n] = "Leader"]
    /\ log' = [log EXCEPT ![n] = Append(@, Noop(currentTerm[n]))]
    /\ electorate' = [electorate EXCEPT ![n] = {}] /\ votes' = [votes EXCEPT ![n] = {}]
    /\ elections' = elections \cup {<<currentTerm[n], n>>}
    /\ UNCHANGED <<status, currentTerm, votedFor, commitIndex, matchIndex, applyVars, changes>>

\* A leader or candidate n hears of the newer term of q.
newerTerm(n, q) ==
    /\ status[n] = "up" /\ status[q] = "up" /\ state[n] \in {"Leader", "Candidate"}
    /\ q \in clusterConfig[n] \cup electorate[n] /\ currentTerm[q] > currentTerm[n]
    /\ stepDown(n, currentTerm[q]) /\ votedFor' = [votedFor EXCEPT ![n] = Nil]
    /\ UNCHANGED <<status, log, commitIndex, applyVars, changes, elections>>

-----------------------------------------------------------------------------
\* advanceCommitIndex counts the leader itself and the peers of its configuration.
counted(l, match, k) == 1 + Cardinality({p \in clusterConfig[l] \ {l} : match[p] >= k})

advanceCommitIndex(l, match) ==
    Max({commitIndex[l]} \cup {k \in 1..Len(log[l]) :
            log[l][k].term = currentTerm[l] /\ counted(l, match, k) >= Majority(clusterConfig[l])})

\* replicateTo: the peer n takes the leader's log and learns its commit index.
replicateTo(l, n) ==
    LET match == [matchIndex[l] EXCEPT ![n] = Len(log[l])]
        newer == currentTerm[n] < currentTerm[l]
    IN  /\ state[l] = "Leader" /\ status[l] = "up" /\ status[n] = "up"
        /\ n \in clusterConfig[l] \ {l} /\ currentTerm[n] <= currentTerm[l]
        /\ state' = [state EXCEPT ![n] = "Follower"]
        /\ currentTerm' = [currentTerm EXCEPT ![n] = currentTerm[l]]
        /\ votedFor' = [votedFor EXCEPT ![n] = IF newer THEN Nil ELSE @]
        /\ electorate' = [electorate EXCEPT ![n] = {}] /\ votes' = [votes EXCEPT ![n] = {}]
        /\ log' = [log EXCEPT ![n] = log[l]]
        /\ matchIndex' = [matchIndex EXCEPT ![l] = match, ![n] = NoMatch]
        /\ commitIndex' = [commitIndex EXCEPT ![n] = Max({@, commitIndex[l]}),
                                              ![l] = advanceCommitIndex(l, match)]
        /\ UNCHANGED <<status, applyVars, changes, elections>>

\* A call of advanceCommitIndex without an answer: after a batch, or at the end of
\* ProposeMembershipChange.
advance(l) ==
    /\ state[l] = "Leader" /\ status[l] = "up"
    /\ commitIndex' = [commitIndex EXCEPT ![l] = advanceCommitIndex(l, matchIndex[l])]
    /\ UNCHANGED <<status, termVars, log, matchIndex, applyVars, campaign, changes, elections>>

-----------------------------------------------------------------------------
\* ProposeMembershipChange: a leader without a pending change appends one.
ProposeMembershipChange(l, type, n) ==
    /\ state[l] = "Leader" /\ status[l] = "up" /\ ~pendingMembership[l]
    /\ changes < MaxChanges
    /\ IF type = "Add" THEN status[n] = "new" ELSE n \in clusterConfig[l] /\ clusterConfig[l] # {n}
    /\ log' = [log EXCEPT ![l] = Append(@, [term |-> currentTerm[l], type |-> type, node |-> n])]
    /\ pendingMembership' = [pendingMembership EXCEPT ![l] = TRUE]
    /\ status' = [status EXCEPT ![n] = "up"]
    /\ clusterConfig' = IF type = "Add" THEN [clusterConfig EXCEPT ![n] = clusterConfig[l] \cup {n}]
                        ELSE clusterConfig
    /\ changes' = changes + 1
    /\ UNCHANGED <<termVars, commitIndex, matchIndex, lastApplied, removing, campaign, elections>>

\* The configuration after an entry: AddPeer, RemovePeer.
newConfig(config, e) ==
    CASE e.type = "Add" -> config \cup {e.node}
      [] e.type = "Remove" -> config \ {e.node}
      [] OTHER -> config

\* applyEntriesLoop and applyMembership.  Its own removal makes a node step down, and
\* stepDown releases r.mu before the configuration is set.
apply(n) ==
    LET k == lastApplied[n] + 1
        e == log[n][k]
    IN  /\ status[n] = "up" /\ ~removing[n] /\ commitIndex[n] > lastApplied[n]
        /\ IF e.type = "Remove" /\ e.node = n
           THEN /\ removing' = [removing EXCEPT ![n] = TRUE]
                /\ stepDown(n, currentTerm[n])
                /\ UNCHANGED <<lastApplied, clusterConfig, pendingMembership>>
           ELSE /\ lastApplied' = [lastApplied EXCEPT ![n] = k]
                /\ clusterConfig' = [clusterConfig EXCEPT ![n] = newConfig(@, e)]
                /\ pendingMembership' = [pendingMembership EXCEPT ![n] = @ /\ e.type = "Noop"]
                /\ matchIndex' = IF e.type = "Noop" THEN matchIndex
                                 ELSE [matchIndex EXCEPT ![n][e.node] = 0]
                /\ UNCHANGED <<currentTerm, state, campaign, removing>>
        /\ UNCHANGED <<status, votedFor, log, commitIndex, changes, elections>>

\* applyMembership goes on after the stepDown.
applyRemoval(n) ==
    LET k == lastApplied[n] + 1
    IN  /\ status[n] = "up" /\ removing[n]
        /\ removing' = [removing EXCEPT ![n] = FALSE]
        /\ lastApplied' = [lastApplied EXCEPT ![n] = k]
        /\ clusterConfig' = [clusterConfig EXCEPT ![n] = newConfig(@, log[n][k])]
        /\ pendingMembership' = [pendingMembership EXCEPT ![n] = FALSE]
        /\ UNCHANGED <<status, termVars, logVars, campaign, changes, elections>>

\* The operator stops a node that the leader has removed.
stop(n) ==
    /\ status[n] = "up"
    /\ \E l \in Node : state[l] = "Leader" /\ status[l] = "up" /\ n \notin clusterConfig[l]
                       /\ \E k \in 1..lastApplied[l] : log[l][k].node = n
    /\ status' = [status EXCEPT ![n] = "stopped"]
    /\ UNCHANGED <<termVars, logVars, applyVars, campaign, changes, elections>>

Next ==
    \/ \E n \in Node : startElection(n) \/ becomeLeader(n) \/ advance(n)
    \/ \E n, q \in Node : handleRequestVote(n, q) \/ newerTerm(n, q) \/ replicateTo(n, q)
    \/ \E l, n \in Node, type \in {"Add", "Remove"} : ProposeMembershipChange(l, type, n)
    \/ \E n \in Node : apply(n) \/ applyRemoval(n) \/ stop(n)

Spec == Init /\ [][Next]_vars

-----------------------------------------------------------------------------
\* No term has two leaders, while nodes count with the configurations of before and
\* after a change: the safe changes of one node at a time that the README of the program
\* promises.  It fails, since a second change is taken before the others have applied the
\* first, and since a removed node may lead.  (ProposeMembershipChange, startElection,
\* applyMembership)
OneLeaderPerTerm == \A e, f \in elections : e[1] = f[1] => e = f
=============================================================================
