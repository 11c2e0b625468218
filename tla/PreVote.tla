------------------------------ MODULE PreVote -------------------------------
(***************************************************************************)
(* The pre-vote phase of internal/raft/election.go: startPreVote, the      *)
(* pre-vote half of handleRequestVote, the goroutines that wait for the    *)
(* replies, and the startElection goroutine that a successful phase        *)
(* spawns.  Module Election has everything else, and is the abstract       *)
(* specification this module implements: to it, an election may start at   *)
(* any time and a pre-vote reply may step a node down at any time.         *)
(***************************************************************************)
EXTENDS Election

VARIABLES preMsgs,   \* pre-vote RPCs in flight
          preVotes,  \* voters counted by each startPreVote call
          starting   \* startElection goroutines spawned and not yet begun

preVars == <<preMsgs, preVotes, starting>>
pvVars == <<vars, preVars>>

\* A startPreVote call is named by the timeout that caused it.
Round == 1..MaxTimeouts

PreVoteInit ==
    /\ Init
    /\ preMsgs = {}
    /\ preVotes = [r \in Round |-> {}]
    /\ starting = {}

nextTerm(i) == currentTerm[i] + 1

\* The vote of the node itself is a majority: a cluster of one.
ownVoteSuffices == Majority <= 1

\* startPreVote asks every peer for a vote in the next term without raising its
\* own.  A cluster of one goes on to startElection.
StartPreVote(i) ==
    LET round == timeouts + 1
    IN  /\ startPreVote(i)
        /\ preVotes' = [preVotes EXCEPT ![round] = {i}]
        /\ IF ownVoteSuffices
           THEN /\ starting' = starting \cup {[node |-> i, round |-> round]}
                /\ UNCHANGED preMsgs
           ELSE /\ preMsgs' = preMsgs \cup
                     {[type |-> "request", from |-> i, to |-> j,
                       term |-> nextTerm(i), round |-> round] :
                      j \in Node \ {i}}
                /\ UNCHANGED starting

\* handleRequestVote on a pre-vote: no state changes.  A refusal that shows no
\* term above the asking one is dropped by the receiver and not kept.
HandlePreVote(m, recent, upToDate) ==
    LET i == m.to
        ignore == fatal[i] \/ m.term < currentTerm[i] \/ isLeaderAlive(i, recent)
        granted == ~ignore /\ upToDate
    IN  /\ m.type = "request"
        /\ preMsgs' = (preMsgs \ {m}) \cup
              (IF granted \/ currentTerm[i] >= m.term
               THEN {[type |-> "reply", from |-> i, to |-> m.from,
                      term |-> currentTerm[i], req |-> m.term,
                      round |-> m.round, granted |-> granted]}
               ELSE {})
        /\ UNCHANGED <<vars, preVotes, starting>>

\* The vote m completes a majority while the node is still a pre-candidate of
\* the same term.
preVoteSucceeds(m) ==
    /\ ~IsQuorum(preVotes[m.round])
    /\ IsQuorum(preVotes[m.round] \cup {m.from})
    /\ state[m.to] = PreCandidate /\ currentTerm[m.to] = m.req - 1

\* The goroutine of startPreVote that gets the reply m.  It steps down without
\* looking at the node's present role or term, or counts the vote; the one that
\* completes a majority spawns startElection.
HandlePreVoteReply(m) ==
    LET i == m.to
    IN  /\ m.type = "reply"
        /\ preMsgs' = preMsgs \ {m}
        /\ \/ /\ m.term > m.req - 1
              /\ preVoteStepDown(i, m.from, m.term)
              /\ UNCHANGED <<preVotes, starting>>
           \/ /\ m.term <= m.req - 1
              /\ preVotes' = [preVotes EXCEPT ![m.round] = @ \cup {m.from}]
              /\ starting' = IF preVoteSucceeds(m)
                             THEN starting \cup {[node |-> i, round |-> m.round]}
                             ELSE starting
              /\ UNCHANGED vars

\* The spawned startElection runs; it returns at once on a leader or after a
\* fatal error.
StartElection(s) ==
    LET i == s.node
    IN  /\ starting' = starting \ {s}
        /\ \/ startElection(i)
           \/ (fatal[i] \/ state[i] = Leader) /\ UNCHANGED vars
        /\ UNCHANGED <<preMsgs, preVotes>>

\* The steps that the pre-vote phase does not take part in.
RealStep ==
    /\ \/ \E w \in windows : SaveTermAndVote(w)
       \/ \E w \in windows : resumeElection(w)
       \/ \E w \in windows, upToDate \in BOOLEAN : resumeAfterStepDown(w, upToDate)
       \/ \E w \in windows : resumeVote(w)
       \/ \E w \in windows : resumeAppend(w)
       \/ \E m \in msgs, recent, upToDate \in BOOLEAN :
             handleRequestVote(m, recent, upToDate)
       \/ \E m \in msgs : handleVoteReply(m)
       \/ \E m \in msgs : processAppendEntries(m)
       \/ \E m \in msgs : handleAppendReply(m)
       \/ \E b \in beats : sendHeartbeatOnce(b)
       \/ \E b \in beats : sendHeartbeats(b)
    /\ UNCHANGED preVars

PreVoteNext ==
    \/ \E i \in Node : StartPreVote(i)
    \/ \E m \in preMsgs, recent, upToDate \in BOOLEAN :
          HandlePreVote(m, recent, upToDate)
    \/ \E m \in preMsgs : HandlePreVoteReply(m)
    \/ \E s \in starting : StartElection(s)
    \/ RealStep

PreVoteSpec == PreVoteInit /\ [][PreVoteNext]_pvVars

-----------------------------------------------------------------------------
\* A pre-vote phase does to a node nothing that module Election does not allow:
\* the calls that startPreVote and its goroutines make, in any order with the
\* real election, are steps of Election.
ImplementsElection == Spec

\* A node starts an election only after a majority, itself included, has granted
\* a pre-vote: an isolated node does not raise its term (Pre-Vote Protocol in the
\* README).
ElectionNeedsPreVotes ==
    [][\A i \in Node : started' > started /\ currentTerm'[i] > currentTerm[i]
          => \E s \in starting : s.node = i /\ IsQuorum(preVotes[s.round])]_pvVars
=============================================================================
