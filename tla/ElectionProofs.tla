--------------------------- MODULE ElectionProofs ---------------------------
(***************************************************************************)
(* Theorems about modules Election and PreVote, for every finite set of    *)
(* nodes and every bound.  CrashSpec has the crashes of Election, and all  *)
(* of Spec; the pre-vote RPCs implement Spec.  The lemmas come first: the  *)
(* steps keep types, terms and votes, windows, granted and counted votes,  *)
(* what is known of leaders, and what the files hold.                      *)
(***************************************************************************)
EXTENDS PreVote, TLAPS

\* Most leaves are for Zenon; those that calculate say SMTT.
USE ZenonT(30)

-----------------------------------------------------------------------------
\* The reply m either joins the network or is dropped.
LEMMA ReplyAdds ==
    ASSUME NEW rest, NEW m
    PROVE  rest \subseteq Reply(rest, m) /\ Reply(rest, m) \subseteq rest \cup {m}
BY DEF Reply

\* stepDown keeps the types, raises the term or leaves it, clears the vote only
\* with the term, and adds one window.
LEMMA StepDownType ==
    ASSUME TypeOK, NEW i \in Node, NEW term \in Nat,
           NEW kind \in {"elect", "voteStepDown", "vote", "append", "reply"},
           NEW from \in Node, NEW req \in Nat, NEW open \in SUBSET Window,
           stepDown(i, term, kind, from, req, open)
    PROVE  /\ state' \in [Node -> Role]
           /\ currentTerm' \in [Node -> Nat]
           /\ votedFor' \in [Node -> Vote]
           /\ leaderID' \in [Node -> Vote]
           /\ fatal' \in [Node -> BOOLEAN]
           /\ windows' \in SUBSET Window
<1> DEFINE higher == term > currentTerm[i]
           newTerm == IF higher THEN term ELSE currentTerm[i]
           newVote == IF higher THEN Nil ELSE votedFor[i]
           w == [node |-> i, kind |-> kind, term |-> newTerm, vote |-> newVote,
                 saved |-> FALSE, from |-> from, req |-> req]
<1>1. newTerm \in Nat /\ newVote \in Vote
  BY DEF TypeOK, Vote
<1>2. w \in Window
  BY <1>1 DEF Window
<1>3. windows' = open \cup {w}
  BY DEF stepDown, voteAfter
<1>4. windows' \in SUBSET Window
  BY <1>2, <1>3
<1>5. QED
  BY <1>1, <1>4 DEF stepDown, voteAfter, TypeOK, Role, Follower, Vote

LEMMA CastVoteType ==
    ASSUME TypeOK, NEW i \in Node, NEW candidate \in Node, NEW req \in Nat,
           NEW upToDate, NEW ws \in SUBSET Window, NEW ms \in SUBSET Message,
           castVote(i, candidate, req, upToDate, ws, ms)
    PROVE  /\ state' \in [Node -> Role]
           /\ currentTerm' \in [Node -> Nat]
           /\ votedFor' \in [Node -> Vote]
           /\ leaderID' \in [Node -> Vote]
           /\ fatal' \in [Node -> BOOLEAN]
           /\ windows' \in SUBSET Window
           /\ msgs' \in SUBSET Message
<1> DEFINE w == [node |-> i, kind |-> "vote", term |-> currentTerm[i],
                 vote |-> candidate, saved |-> FALSE, from |-> candidate, req |-> req]
           m == VoteReply(i, candidate, req, FALSE)
<1>1. w \in Window
  BY DEF Window, TypeOK, Vote
<1>2. m \in Message
  BY DEF VoteReply, Message, RequestVoteReply, TypeOK
<1>3. Reply(ms, m) \in SUBSET Message
  <2>1. Reply(ms, m) \subseteq ms \cup {m}
    BY ReplyAdds
  <2>2. QED
    BY <1>2, <2>1
<1>4. \/ /\ votedFor' = [votedFor EXCEPT ![i] = candidate]
         /\ windows' = ws \cup {w}
         /\ msgs' = ms
         /\ UNCHANGED <<state, currentTerm, leaderID, fatal>>
      \/ /\ msgs' = Reply(ms, m)
         /\ windows' = ws
         /\ UNCHANGED nodeVars
  BY DEF castVote
<1>5. windows' \in SUBSET Window /\ msgs' \in SUBSET Message
  BY <1>1, <1>3, <1>4
<1>6. votedFor' \in [Node -> Vote]
  BY <1>4 DEF TypeOK, Vote, nodeVars
<1>7. UNCHANGED <<state, currentTerm, leaderID, fatal>>
  BY <1>4 DEF nodeVars
<1>8. QED
  BY <1>5, <1>6, <1>7 DEF TypeOK

LEMMA BecomeLeaderType ==
    ASSUME TypeOK, NEW i \in Node, becomeLeader(i)
    PROVE  /\ state' \in [Node -> Role]
           /\ fatal' \in [Node -> BOOLEAN]
           /\ beats' \in SUBSET Heartbeater
           /\ elections' \in SUBSET (Nat \X Node)
<1>1. [node |-> i, term |-> currentTerm[i], pc |-> "send"] \in Heartbeater
  BY DEF TypeOK, Heartbeater
<1>2. fatal' \in [Node -> BOOLEAN]
  <2>1. CASE fatal' = [fatal EXCEPT ![i] = TRUE]
    BY <2>1 DEF TypeOK
  <2>2. CASE fatal' = fatal
    BY <2>2 DEF TypeOK
  <2>3. QED
    BY <2>1, <2>2 DEF becomeLeader
<1>3. state' \in [Node -> Role]
  BY DEF becomeLeader, TypeOK, Role, Leader, Follower
<1>4. beats' \in SUBSET Heartbeater
  BY <1>1 DEF becomeLeader, TypeOK
<1>5. elections' \in SUBSET (Nat \X Node)
  BY SMTT(30) DEF becomeLeader, TypeOK
<1>6. QED
  BY <1>2, <1>3, <1>4, <1>5

-----------------------------------------------------------------------------
\* The messages a step takes or sends have their types.
LEMMA MessageFields ==
    ASSUME NEW m \in Message
    PROVE  /\ m.from \in Node /\ m.to \in Node /\ m.term \in Nat
           /\ m.type = "RequestVoteReply" => m.req \in Nat /\ m.granted \in BOOLEAN
BY DEF Message, RequestVote, RequestVoteReply, AppendEntries, AppendReply

LEMMA ReplyType ==
    ASSUME TypeOK, NEW ms \in SUBSET Message, NEW i \in Node, NEW to \in Node,
           NEW req \in Nat, NEW granted \in BOOLEAN
    PROVE  /\ Reply(ms, VoteReply(i, to, req, granted)) \in SUBSET Message
           /\ Reply(ms, [type |-> "AppendReply", from |-> i, to |-> to,
                         term |-> currentTerm[i]]) \in SUBSET Message
<1> DEFINE v == VoteReply(i, to, req, granted)
           a == [type |-> "AppendReply", from |-> i, to |-> to, term |-> currentTerm[i]]
<1>1. v \in Message
  BY DEF VoteReply, Message, RequestVoteReply, TypeOK
<1>2. a \in Message
  BY DEF Message, AppendReply, TypeOK
<1>3. Reply(ms, v) \subseteq ms \cup {v}
  BY ReplyAdds
<1>4. Reply(ms, a) \subseteq ms \cup {a}
  BY ReplyAdds, SMTT(30)
<1>5. QED
  BY <1>1, <1>2, <1>3, <1>4

\* Each step keeps every variable in its type.
LEMMA TypeStep == TypeOK /\ [Next]_vars => TypeOK'
<1> SUFFICES ASSUME TypeOK, [Next]_vars PROVE TypeOK'
  OBVIOUS
<1> USE BoundAssumption
<1>1. ASSUME NEW i \in Node, startPreVote(i) PROVE TypeOK'
  BY <1>1, SMTT(30) DEF startPreVote, TypeOK, Role, PreCandidate, roundVars, history
<1>2. ASSUME NEW i \in Node, NEW j \in Node, NEW term \in 1..currentTerm[j],
             preVoteStepDown(i, j, term)
      PROVE  TypeOK'
  <2>1. term \in Nat
    BY SMTT(30) DEF TypeOK
  <2>2. stepDown(i, term, "reply", i, term, windows)
    BY <1>2 DEF preVoteStepDown
  <2>3. windows \in SUBSET Window
    BY DEF TypeOK
  <2>4. UNCHANGED <<disk, roundVars, msgs, bounds, history>>
    BY <1>2 DEF preVoteStepDown
  <2>5. QED
    BY <2>1, <2>2, <2>3, <2>4, StepDownType DEF TypeOK, roundVars, bounds, history
<1>3. ASSUME NEW i \in Node, startElection(i) PROVE TypeOK'
  <2> DEFINE w == [node |-> i, kind |-> "elect", term |-> currentTerm[i] + 1, vote |-> i,
                   saved |-> FALSE, from |-> i, req |-> currentTerm[i] + 1]
  <2>1. w \in Window
    BY SMTT(30) DEF TypeOK, Window, Vote
  <2>2. windows' = windows \cup {w}
    BY <1>3 DEF startElection, electionTerm
  <2>3. windows' \in SUBSET Window
    BY <2>1, <2>2 DEF TypeOK
  <2>4. QED
    BY <1>3, <2>3, SMTT(30) DEF startElection, electionTerm, TypeOK, Role, Candidate, Vote, history
<1>4. ASSUME NEW w \in windows, SaveTermAndVote(w) PROVE TypeOK'
  <2>1. w \in Window
    BY DEF TypeOK
  <2>2. [w EXCEPT !.saved = TRUE] \in Window
    BY <2>1 DEF Window
  <2>3. windows' \in SUBSET Window
    BY <1>4, <2>2 DEF SaveTermAndVote, TypeOK
  <2>4. disk' \in [Node -> [term: Nat, vote: Vote]]
    BY <1>4, <2>1, SMTT(30) DEF SaveTermAndVote, TypeOK, Window
  <2>5. lost' \in SUBSET Node
    BY <1>4, <2>1 DEF SaveTermAndVote, TypeOK, Window
  <2>6. QED
    BY <1>4, <2>3, <2>4, <2>5 DEF SaveTermAndVote, TypeOK, nodeVars, roundVars, bounds
<1>5. ASSUME NEW w \in windows, resumeElection(w) PROVE TypeOK'
  <2>1. w \in Window /\ w.node \in Node /\ w.term \in Nat
    BY DEF TypeOK, Window
  <2>2. UNCHANGED <<currentTerm, votedFor, leaderID, disk, bounds, lost>> /\ windows' \in SUBSET Window
    BY <1>5 DEF resumeElection, TypeOK
  <2>3. CASE UNCHANGED <<state, fatal, votes, beats, msgs, history>>
    BY <2>2, <2>3 DEF TypeOK, bounds, history
  <2>4. CASE /\ votes' = [votes EXCEPT ![w.node] = {w.node}]
             /\ ballots' = ballots \cup {<<w.term, w.node, w.node>>}
             /\ becomeLeader(w.node)
             /\ UNCHANGED msgs
    BY <2>1, <2>2, <2>4, BecomeLeaderType, SMTT(30) DEF TypeOK, bounds
  <2>5. CASE /\ votes' = [votes EXCEPT ![w.node] = {w.node}]
             /\ ballots' = ballots \cup {<<w.term, w.node, w.node>>}
             /\ msgs' = msgs \cup
                   {[type |-> "RequestVote", from |-> w.node, to |-> j,
                     term |-> w.term] : j \in Node \ {w.node}}
             /\ UNCHANGED <<state, fatal, beats, elections>>
    <3>1. msgs' \in SUBSET Message
      BY <2>1, <2>5, SMTT(30) DEF TypeOK, Message, RequestVote
    <3>2. QED
      BY <2>1, <2>2, <2>5, <3>1, SMTT(30) DEF TypeOK, bounds
  <2>6. QED
    BY <1>5, <2>3, <2>4, <2>5 DEF resumeElection
<1>6. ASSUME NEW w \in windows, NEW upToDate \in BOOLEAN, resumeAfterStepDown(w, upToDate)
      PROVE  TypeOK'
  <2>1. w.node \in Node /\ w.from \in Node /\ w.req \in Nat
    BY DEF TypeOK, Window
  <2>2. windows \ {w} \in SUBSET Window /\ msgs \in SUBSET Message
    BY DEF TypeOK
  <2>3. /\ castVote(w.node, w.from, w.req, upToDate, windows \ {w}, msgs)
        /\ UNCHANGED <<disk, roundVars, bounds, history>>
    BY <1>6 DEF resumeAfterStepDown
  <2>4. /\ state' \in [Node -> Role] /\ currentTerm' \in [Node -> Nat]
        /\ votedFor' \in [Node -> Vote] /\ leaderID' \in [Node -> Vote]
        /\ fatal' \in [Node -> BOOLEAN] /\ windows' \in SUBSET Window
        /\ msgs' \in SUBSET Message
    BY <2>1, <2>2, <2>3, CastVoteType
  <2>5. QED
    BY <2>3, <2>4 DEF TypeOK, roundVars, bounds, history
<1>7. ASSUME NEW w \in windows, resumeVote(w) PROVE TypeOK'
  <2>1. w.node \in Node /\ w.from \in Node /\ w.req \in Nat /\ w.term \in Nat
    BY DEF TypeOK, Window
  <2>2. Reply(msgs, VoteReply(w.node, w.from, w.req, TRUE)) \in SUBSET Message
    BY <2>1, ReplyType DEF TypeOK
  <2>3. ballots' \in SUBSET (Nat \X Node \X Node)
    BY <1>7, <2>1, SMTT(30) DEF resumeVote, TypeOK
  <2>4. windows' \in SUBSET Window /\ msgs' \in SUBSET Message
    BY <1>7, <2>2 DEF resumeVote, TypeOK
  <2>5. QED
    BY <1>7, <2>3, <2>4 DEF resumeVote, TypeOK, nodeVars, roundVars, bounds
<1>8. ASSUME NEW w \in windows, resumeAppend(w) PROVE TypeOK'
  <2>1. w.node \in Node /\ w.from \in Node
    BY DEF TypeOK, Window
  <2>2. Reply(msgs, [type |-> "AppendReply", from |-> w.node,
                     to |-> w.from, term |-> currentTerm[w.node]]) \in SUBSET Message
    BY <2>1, ReplyType DEF TypeOK
  <2>3. QED
    BY <1>8, <2>1, <2>2 DEF resumeAppend, TypeOK, Vote, roundVars, bounds, history
<1>9. ASSUME NEW m \in msgs, NEW recent \in BOOLEAN, NEW upToDate \in BOOLEAN,
             handleRequestVote(m, recent, upToDate)
      PROVE  TypeOK'
  <2>1. m.from \in Node /\ m.to \in Node /\ m.term \in Nat
    BY MessageFields DEF TypeOK
  <2>2. windows \in SUBSET Window /\ msgs \ {m} \in SUBSET Message
    BY DEF TypeOK
  <2>3. UNCHANGED <<disk, roundVars, bounds, history>>
    BY <1>9 DEF handleRequestVote
  <2>4. CASE /\ msgs' = Reply(msgs \ {m}, VoteReply(m.to, m.from, m.term, FALSE))
             /\ UNCHANGED <<nodeVars, windows>>
    <3>1. msgs' \in SUBSET Message
      BY <2>1, <2>2, <2>4, ReplyType
    <3>2. QED
      BY <2>3, <2>4, <3>1 DEF TypeOK, nodeVars, roundVars, bounds, history
  <2>5. CASE /\ stepDown(m.to, m.term, "voteStepDown", m.from, m.term, windows)
             /\ msgs' = msgs \ {m}
    BY <2>1, <2>2, <2>3, <2>5, StepDownType DEF TypeOK, roundVars, bounds, history
  <2>6. CASE castVote(m.to, m.from, m.term, upToDate, windows, msgs \ {m})
    <3>1. /\ state' \in [Node -> Role] /\ currentTerm' \in [Node -> Nat]
          /\ votedFor' \in [Node -> Vote] /\ leaderID' \in [Node -> Vote]
          /\ fatal' \in [Node -> BOOLEAN] /\ windows' \in SUBSET Window
          /\ msgs' \in SUBSET Message
      BY <2>1, <2>2, <2>6, CastVoteType
    <3>2. QED
      BY <2>3, <3>1 DEF TypeOK, roundVars, bounds, history
  <2>7. QED
    BY <1>9, <2>4, <2>5, <2>6 DEF handleRequestVote
<1>10. ASSUME NEW m \in msgs, handleVoteReply(m) PROVE TypeOK'
  <2>1. m.from \in Node /\ m.to \in Node /\ m.term \in Nat
    BY MessageFields DEF TypeOK
  <2>2. /\ windows \in SUBSET Window
        /\ msgs' \in SUBSET Message
        /\ UNCHANGED <<disk, bounds, ballots, lost>>
    BY <1>10 DEF TypeOK, handleVoteReply
  <2>3. CASE /\ stepDown(m.to, m.term, "reply", m.to, m.term, windows)
             /\ UNCHANGED <<votes, beats, elections>>
    BY <2>1, <2>2, <2>3, StepDownType DEF TypeOK, bounds
  <2>4. CASE UNCHANGED <<nodeVars, windows, votes, beats, elections>>
    BY <2>2, <2>4 DEF TypeOK, nodeVars, bounds
  <2>5. CASE /\ votes' = [votes EXCEPT ![m.to] = votes[m.to] \cup {m.from}]
             /\ \/ becomeLeader(m.to)
                \/ UNCHANGED <<state, fatal, beats, elections>>
             /\ UNCHANGED <<currentTerm, votedFor, leaderID, windows>>
    <3>1. votes' \in [Node -> SUBSET Node]
      BY <2>1, <2>5 DEF TypeOK
    <3>2. /\ state' \in [Node -> Role]
          /\ fatal' \in [Node -> BOOLEAN]
          /\ beats' \in SUBSET Heartbeater
          /\ elections' \in SUBSET (Nat \X Node)
      BY <2>1, <2>5, BecomeLeaderType DEF TypeOK
    <3>3. QED
      BY <2>2, <2>5, <3>1, <3>2 DEF TypeOK, bounds
  <2>6. QED
    BY <1>10, <2>3, <2>4, <2>5 DEF handleVoteReply
<1>11. ASSUME NEW m \in msgs, processAppendEntries(m) PROVE TypeOK'
  <2>1. m.from \in Node /\ m.to \in Node /\ m.term \in Nat
    BY MessageFields DEF TypeOK
  <2>2. windows \in SUBSET Window /\ msgs \ {m} \in SUBSET Message
    BY DEF TypeOK
  <2>3. UNCHANGED <<disk, roundVars, bounds, history>>
    BY <1>11 DEF processAppendEntries
  <2> DEFINE reply == [type |-> "AppendReply", from |-> m.to, to |-> m.from,
                       term |-> currentTerm[m.to]]
  <2>4. Reply(msgs \ {m}, reply) \in SUBSET Message
    BY <2>1, <2>2, ReplyType
  <2>5. CASE /\ msgs' = Reply(msgs \ {m}, reply)
             /\ UNCHANGED <<nodeVars, windows>>
    BY <2>3, <2>4, <2>5 DEF TypeOK, nodeVars, roundVars, bounds, history
  <2>6. CASE /\ stepDown(m.to, m.term, "append", m.from, m.term, windows)
             /\ msgs' = msgs \ {m}
    BY <2>1, <2>2, <2>3, <2>6, StepDownType DEF TypeOK, roundVars, bounds, history
  <2>7. CASE /\ leaderID' = [leaderID EXCEPT ![m.to] = m.from]
             /\ msgs' = Reply(msgs \ {m}, reply)
             /\ UNCHANGED <<state, currentTerm, votedFor, fatal, windows>>
    BY <2>1, <2>3, <2>4, <2>7 DEF TypeOK, Vote, roundVars, bounds, history
  <2>8. CASE msgs' = msgs \ {m} /\ UNCHANGED <<nodeVars, windows>>
    BY <2>2, <2>3, <2>8 DEF TypeOK, nodeVars, roundVars, bounds, history
  <2>9. QED
    BY <1>11, <2>5, <2>6, <2>7, <2>8 DEF processAppendEntries
<1>12. ASSUME NEW m \in msgs, handleAppendReply(m) PROVE TypeOK'
  <2>1. m.from \in Node /\ m.to \in Node /\ m.term \in Nat
    BY MessageFields DEF TypeOK
  <2>2. /\ windows \in SUBSET Window
        /\ msgs' \in SUBSET Message
        /\ UNCHANGED <<disk, roundVars, bounds, history>>
    BY <1>12 DEF TypeOK, handleAppendReply
  <2>3. CASE stepDown(m.to, m.term, "reply", m.to, m.term, windows)
    BY <2>1, <2>2, <2>3, StepDownType DEF TypeOK, roundVars, bounds, history
  <2>4. CASE UNCHANGED <<nodeVars, windows>>
    BY <2>2, <2>4 DEF TypeOK, nodeVars, roundVars, bounds, history
  <2>5. QED
    BY <1>12, <2>3, <2>4 DEF handleAppendReply
<1>13. ASSUME NEW b \in beats, sendHeartbeatOnce(b) PROVE TypeOK'
  <2>1. b \in Heartbeater /\ b.node \in Node
    BY DEF TypeOK, Heartbeater
  <2>2. [b EXCEPT !.pc = "check"] \in Heartbeater
    BY <2>1 DEF Heartbeater
  <2>3. msgs' \in SUBSET Message
    BY <1>13, <2>1, SMTT(30) DEF sendHeartbeatOnce, TypeOK, Message, AppendEntries
  <2>4. beats' \in SUBSET Heartbeater
    BY <1>13, <2>2 DEF sendHeartbeatOnce, TypeOK
  <2>5. QED
    BY <1>13, <2>3, <2>4, SMTT(30) DEF sendHeartbeatOnce, TypeOK, nodeVars, history
<1>14. ASSUME NEW b \in beats, sendHeartbeats(b) PROVE TypeOK'
  <2>1. [b EXCEPT !.pc = "send"] \in Heartbeater
    BY DEF TypeOK, Heartbeater
  <2>2. beats' \in SUBSET Heartbeater
    BY <1>14, <2>1 DEF sendHeartbeats, TypeOK
  <2>3. QED
    BY <1>14, <2>2 DEF sendHeartbeats, TypeOK, nodeVars, bounds, history
<1>15. CASE UNCHANGED vars
  BY <1>15 DEF vars, TypeOK, nodeVars, roundVars, bounds, history
<1>16. QED
  BY <1>1, <1>2, <1>3, <1>4, <1>5, <1>6, <1>7, <1>8, <1>9, <1>10, <1>11, <1>12,
     <1>13, <1>14, <1>15 DEF Next

\* Steps and restarts keep every variable in its type.
LEMMA CrashTypeStep == TypeOK /\ [CrashNext]_vars => TypeOK'
<1> SUFFICES ASSUME TypeOK, [CrashNext]_vars PROVE TypeOK'
  OBVIOUS
<1>1. ASSUME NEW i \in Node, crash(i) PROVE TypeOK'
  <2>1. disk[i].term \in Nat /\ disk[i].vote \in Vote
    BY DEF TypeOK
  <2>2. fatal' \in [Node -> BOOLEAN]
    BY <1>1 DEF crash, TypeOK
  <2>3. crashes' \in 0..MaxCrashes
    BY <1>1, BoundAssumption, SMTT(30) DEF crash, TypeOK
  <2>4. /\ currentTerm' \in [Node -> Nat] /\ votedFor' \in [Node -> Vote]
        /\ leaderID' \in [Node -> Vote] /\ state' \in [Node -> Role]
        /\ votes' \in [Node -> SUBSET Node]
    BY <1>1, <2>1 DEF crash, restartVote, TypeOK, Vote, Role, Follower
  <2>5. windows' \in SUBSET Window /\ beats' \in SUBSET Heartbeater /\ msgs' \in SUBSET Message
    BY <1>1 DEF crash, TypeOK
  <2>6. QED
    BY <1>1, <2>2, <2>3, <2>4, <2>5 DEF crash, TypeOK, history
<1>2. QED
  BY <1>1, TypeStep DEF CrashNext

\* The fields of a node, its goroutines, its file and the network always have
\* their types.
THEOREM TypeCorrect == CrashSpec => []TypeOK
<1>1. Init => TypeOK
  BY NodeAssumption, BoundAssumption, SMTT(30)
     DEF Init, TypeOK, Role, Follower, Vote
<1>2. QED
  BY <1>1, CrashTypeStep, PTL DEF CrashSpec

-----------------------------------------------------------------------------
\* What a step does to a node's term and vote.
TermsAndVotesStable ==
    \A i \in Node :
        /\ currentTerm'[i] >= currentTerm[i]
        /\ currentTerm'[i] = currentTerm[i] /\ votedFor[i] # Nil
              => votedFor'[i] = votedFor[i]

LEMMA StepDownStable ==
    ASSUME TypeOK, NEW i \in Node, NEW term \in Nat, NEW kind, NEW from, NEW req,
           NEW open, stepDown(i, term, kind, from, req, open)
    PROVE  TermsAndVotesStable
<1> SUFFICES ASSUME NEW j \in Node
             PROVE  /\ currentTerm'[j] >= currentTerm[j]
                    /\ currentTerm'[j] = currentTerm[j] /\ votedFor[j] # Nil
                          => votedFor'[j] = votedFor[j]
  BY DEF TermsAndVotesStable
<1>1. CASE j = i
  BY <1>1, SMTT(30) DEF stepDown, voteAfter, TypeOK
<1>2. CASE j # i
  BY <1>2, SMTT(30) DEF stepDown, voteAfter, TypeOK
<1>3. QED
  BY <1>1, <1>2

LEMMA CastVoteStable ==
    ASSUME TypeOK, NEW i \in Node, NEW candidate \in Node, NEW req, NEW upToDate,
           NEW ws, NEW ms, castVote(i, candidate, req, upToDate, ws, ms)
    PROVE  TermsAndVotesStable
<1>1. \/ /\ votedFor[i] \in {Nil, candidate}
         /\ votedFor' = [votedFor EXCEPT ![i] = candidate]
         /\ UNCHANGED currentTerm
      \/ UNCHANGED <<currentTerm, votedFor>>
  BY DEF castVote, canVote, nodeVars
<1>2. QED
  BY <1>1, SMTT(30) DEF TermsAndVotesStable, TypeOK

LEMMA UnchangedStable ==
    ASSUME TypeOK, UNCHANGED <<currentTerm, votedFor>>
    PROVE  TermsAndVotesStable
BY SMTT(30) DEF TermsAndVotesStable, TypeOK

LEMMA StableStep == TypeOK /\ [Next]_vars => TermsAndVotesStable
<1> SUFFICES ASSUME TypeOK, [Next]_vars PROVE TermsAndVotesStable
  OBVIOUS
<1>1. ASSUME NEW i \in Node, startElection(i) PROVE TermsAndVotesStable
  BY <1>1, SMTT(30) DEF startElection, electionTerm, TermsAndVotesStable, TypeOK
<1>2. ASSUME NEW i \in Node, NEW j \in Node, NEW term \in 1..currentTerm[j],
             preVoteStepDown(i, j, term)
      PROVE  TermsAndVotesStable
  BY <1>2, StepDownStable, SMTT(30) DEF preVoteStepDown, TypeOK
<1>3. ASSUME NEW w \in windows, NEW upToDate \in BOOLEAN, resumeAfterStepDown(w, upToDate)
      PROVE  TermsAndVotesStable
  <2>1. w.node \in Node /\ w.from \in Node
    BY DEF TypeOK, Window
  <2>2. QED
    BY <1>3, <2>1, CastVoteStable DEF resumeAfterStepDown
<1>4. ASSUME NEW m \in msgs, NEW recent \in BOOLEAN, NEW upToDate \in BOOLEAN,
             handleRequestVote(m, recent, upToDate)
      PROVE  TermsAndVotesStable
  <2>1. m.from \in Node /\ m.to \in Node /\ m.term \in Nat
    BY MessageFields DEF TypeOK
  <2>2. QED
    BY <1>4, <2>1, CastVoteStable, StepDownStable, UnchangedStable
       DEF handleRequestVote, nodeVars
<1>5. ASSUME NEW m \in msgs,
             handleVoteReply(m) \/ processAppendEntries(m) \/ handleAppendReply(m)
      PROVE  TermsAndVotesStable
  <2>1. m.from \in Node /\ m.to \in Node /\ m.term \in Nat
    BY MessageFields DEF TypeOK
  <2>2. QED
    BY <1>5, <2>1, StepDownStable, UnchangedStable
       DEF handleVoteReply, processAppendEntries, handleAppendReply, nodeVars
<1>6. CASE UNCHANGED <<currentTerm, votedFor>>
  BY <1>6, UnchangedStable
<1>7. CASE UNCHANGED vars
  BY <1>6, <1>7 DEF vars, nodeVars
<1>8. QED
  BY <1>1, <1>2, <1>3, <1>4, <1>5, <1>6, <1>7
     DEF Next, startPreVote, SaveTermAndVote, resumeElection, resumeVote, resumeAppend,
         sendHeartbeatOnce, sendHeartbeats, nodeVars

\* A running node never returns to an earlier term and never changes or takes
\* back its vote in a term, for any interleaving inside the windows around
\* SaveTermAndVote.
THEOREM VoteIsStable == CrashSpec => VoteStability
<1> DEFINE Kept == crashes' = crashes => TermsAndVotesStable
<1>1. TypeOK /\ [CrashNext]_vars => [Kept]_vars
  <2> SUFFICES ASSUME TypeOK, CrashNext, crashes' = crashes PROVE TermsAndVotesStable
    OBVIOUS
  <2>1. ~ \E i \in Node \ lost : crash(i)
    BY SMTT(30) DEF crash, TypeOK
  <2>2. QED
    BY <2>1, StableStep DEF CrashNext
<1>2. QED
  BY <1>1, TypeCorrect, PTL DEF CrashSpec, VoteStability, TermsAndVotesStable

-----------------------------------------------------------------------------
\* What a step may do to the claims: a new one is the vote its voter now
\* remembers, and the voter had no other vote in that term.
FreshClaim(c) ==
    /\ c[1] = currentTerm'[c[2]] /\ c[3] = votedFor'[c[2]]
    /\ currentTerm'[c[2]] > currentTerm[c[2]] \/ votedFor[c[2]] \in {Nil, c[3]}

ClaimsStep == \A c \in Claims' : c \in Claims \/ FreshClaim(c)

\* The claims are known from the windows and the ballots alone.
LEMMA ClaimsType ==
    ASSUME TypeOK
    PROVE  \A c \in Claims :
               c[1] \in Nat /\ c[2] \in Node /\ c[3] \in Node /\ c = <<c[1], c[2], c[3]>>
BY SMTT(30) DEF TypeOK, Claims, Window

LEMMA WindowClaim ==
    ASSUME NEW w \in windows, w.kind \in {"elect", "vote"}
    PROVE  <<w.term, w.node, w.from>> \in Claims
BY DEF Claims

\* A step that adds no vote window and no ballot adds no claim.
LEMMA NoNewClaim ==
    ASSUME UNCHANGED ballots,
           \A w \in windows' : w \in windows \/ w.kind \notin {"elect", "vote"}
    PROVE  ClaimsStep
BY DEF ClaimsStep, Claims

LEMMA StepDownClaims ==
    ASSUME NEW i, NEW term, NEW kind \in {"voteStepDown", "append", "reply"},
           NEW from, NEW req, stepDown(i, term, kind, from, req, windows),
           UNCHANGED ballots
    PROVE  ClaimsStep
<1>1. \A w \in windows' : w \in windows \/ w.kind = kind
  BY SMTT(30) DEF stepDown, voteAfter
<1>2. QED
  BY <1>1, NoNewClaim

LEMMA CastVoteClaims ==
    ASSUME TypeOK, NEW i \in Node, NEW candidate \in Node, NEW req, NEW upToDate,
           NEW ws \in SUBSET windows, NEW ms,
           castVote(i, candidate, req, upToDate, ws, ms), UNCHANGED ballots
    PROVE  ClaimsStep
<1> DEFINE w == [node |-> i, kind |-> "vote", term |-> currentTerm[i],
                 vote |-> candidate, saved |-> FALSE, from |-> candidate, req |-> req]
<1>1. CASE windows' = ws
  BY <1>1, NoNewClaim
<1>2. CASE /\ votedFor[i] \in {Nil, candidate}
           /\ votedFor' = [votedFor EXCEPT ![i] = candidate]
           /\ windows' = ws \cup {w}
           /\ UNCHANGED currentTerm
  <2>1. Claims' \subseteq Claims \cup {<<currentTerm[i], i, candidate>>}
    BY <1>2, SMTT(30) DEF Claims
  <2>2. FreshClaim(<<currentTerm[i], i, candidate>>)
    BY <1>2 DEF FreshClaim, TypeOK
  <2>3. QED
    BY <2>1, <2>2 DEF ClaimsStep
<1>3. QED
  BY <1>1, <1>2 DEF castVote, canVote, nodeVars

LEMMA ClaimsAreFresh == TypeOK /\ WindowsSound /\ [Next]_vars => ClaimsStep
<1> SUFFICES ASSUME TypeOK, WindowsSound, [Next]_vars PROVE ClaimsStep
  OBVIOUS
<1>1. ASSUME NEW i \in Node, NEW j \in Node, NEW term \in 1..currentTerm[j],
             preVoteStepDown(i, j, term)
      PROVE  ClaimsStep
  BY <1>1, StepDownClaims DEF preVoteStepDown, history
<1>2. ASSUME NEW i \in Node, startElection(i) PROVE ClaimsStep
  <2> DEFINE c == <<currentTerm[i] + 1, i, i>>
  <2>1. Claims' \subseteq Claims \cup {c}
    BY <1>2, SMTT(30) DEF startElection, electionTerm, Claims, history
  <2>2. FreshClaim(c)
    BY <1>2, SMTT(30) DEF startElection, electionTerm, FreshClaim, TypeOK
  <2>3. QED
    BY <2>1, <2>2 DEF ClaimsStep
<1>3. ASSUME NEW w \in windows, SaveTermAndVote(w) PROVE ClaimsStep
  <2> DEFINE v == [w EXCEPT !.saved = TRUE]
  <2>1. w \in Window
    BY DEF TypeOK
  <2>2. v.term = w.term /\ v.node = w.node /\ v.from = w.from /\ v.kind = w.kind
    BY <2>1 DEF Window
  <2>3. windows' \subseteq windows \cup {v} /\ UNCHANGED ballots
    BY <1>3 DEF SaveTermAndVote, history
  <2> HIDE DEF v
  <2>4. Claims' \subseteq Claims
    BY <2>2, <2>3 DEF Claims
  <2>5. QED
    BY <2>4 DEF ClaimsStep
<1>4. ASSUME NEW w \in windows, resumeElection(w) PROVE ClaimsStep
  <2>1. /\ windows' \subseteq windows
        /\ ballots' \subseteq ballots \cup {<<w.term, w.node, w.node>>}
    BY <1>4 DEF resumeElection, history
  <2>2. <<w.term, w.node, w.node>> \in Claims
    BY <1>4, WindowClaim DEF resumeElection, WindowsSound
  <2>3. QED
    BY <2>1, <2>2 DEF ClaimsStep, Claims
<1>5. ASSUME NEW w \in windows, resumeVote(w) PROVE ClaimsStep
  <2>1. /\ windows' \subseteq windows
        /\ ballots' = ballots \cup {<<w.term, w.node, w.from>>}
    BY <1>5 DEF resumeVote
  <2>2. <<w.term, w.node, w.from>> \in Claims
    BY <1>5, WindowClaim DEF resumeVote
  <2>3. QED
    BY <2>1, <2>2 DEF ClaimsStep, Claims
<1>6. ASSUME NEW w \in windows, NEW upToDate \in BOOLEAN, resumeAfterStepDown(w, upToDate)
      PROVE  ClaimsStep
  <2>1. w.node \in Node /\ w.from \in Node /\ windows \ {w} \in SUBSET windows
    BY DEF TypeOK, Window
  <2>2. QED
    BY <1>6, <2>1, CastVoteClaims DEF resumeAfterStepDown, history
<1>7. ASSUME NEW m \in msgs, NEW recent \in BOOLEAN, NEW upToDate \in BOOLEAN,
             handleRequestVote(m, recent, upToDate)
      PROVE  ClaimsStep
  <2>1. m.from \in Node /\ m.to \in Node /\ windows \in SUBSET windows
    BY MessageFields DEF TypeOK
  <2>2. QED
    BY <1>7, <2>1, CastVoteClaims, StepDownClaims, NoNewClaim
       DEF handleRequestVote, history
<1>8. ASSUME NEW m \in msgs,
             handleVoteReply(m) \/ processAppendEntries(m) \/ handleAppendReply(m)
      PROVE  ClaimsStep
  BY <1>8, StepDownClaims, NoNewClaim
     DEF handleVoteReply, processAppendEntries, handleAppendReply, history
<1>9. CASE windows' \subseteq windows /\ UNCHANGED ballots
  BY <1>9, NoNewClaim
<1>10. CASE UNCHANGED vars
  BY <1>9, <1>10 DEF vars, history
<1>11. QED
  BY <1>1, <1>2, <1>3, <1>4, <1>5, <1>6, <1>7, <1>8, <1>9, <1>10
     DEF Next, startPreVote, resumeAppend, sendHeartbeatOnce, sendHeartbeats, history

\* The claims stay remembered and never contradict each other.
LEMMA ClaimsInvariant ==
    ASSUME TypeOK, TypeOK', TermsAndVotesStable, ClaimsStep,
           ClaimsAreRemembered, ClaimsAgree
    PROVE  ClaimsAreRemembered' /\ ClaimsAgree'
<1>1. \A c \in Claims' : c[1] \in Nat /\ c[2] \in Node /\ c[3] \in Node
  BY ClaimsType, SMTT(30) DEF TypeOK, Claims, Window
<1>2. \A i \in Node : /\ currentTerm[i] \in Nat /\ currentTerm'[i] \in Nat
  BY DEF TypeOK
<1>3. ClaimsAreRemembered'
  <2> SUFFICES ASSUME NEW c \in Claims'
               PROVE  \/ c[1] < currentTerm'[c[2]]
                      \/ c[1] = currentTerm'[c[2]] /\ c[3] = votedFor'[c[2]]
    BY DEF ClaimsAreRemembered
  <2>1. CASE FreshClaim(c)
    BY <2>1 DEF FreshClaim
  <2>2. CASE c \in Claims
    <3>1. c[3] # Nil
      BY <1>1, NodeAssumption
    <3>2. QED
      BY <1>1, <1>2, <2>2, <3>1, SMTT(30) DEF ClaimsAreRemembered, TermsAndVotesStable
  <2>3. QED
    BY <2>1, <2>2 DEF ClaimsStep
<1>4. ASSUME NEW b \in Claims', NEW c \in Claims', b[1] = c[1], b[2] = c[2]
      PROVE  b[3] = c[3]
  <2>1. CASE b \in Claims /\ c \in Claims
    BY <1>4, <2>1 DEF ClaimsAgree
  <2>2. CASE FreshClaim(b) /\ FreshClaim(c)
    BY <1>4, <2>2 DEF FreshClaim
  <2>3. ASSUME NEW x \in Claims, NEW y \in Claims', FreshClaim(y),
               x \in Claims', x[1] = y[1], x[2] = y[2]
        PROVE  x[3] = y[3]
    <3>1. x[1] = currentTerm[x[2]] /\ x[3] = votedFor[x[2]]
      BY <1>1, <1>2, <2>3, SMTT(30) DEF ClaimsAreRemembered, FreshClaim, TermsAndVotesStable
    <3>2. x[3] # Nil
      BY <1>1, <2>3, NodeAssumption
    <3>3. QED
      BY <1>1, <1>2, <2>3, <3>1, <3>2, SMTT(30) DEF FreshClaim
  <2>4. QED
    BY <1>4, <2>1, <2>2, <2>3 DEF ClaimsStep
<1>5. QED
  BY <1>3, <1>4 DEF ClaimsAgree

-----------------------------------------------------------------------------
\* What the windows know.  Terms only grow, so old windows stay sound.
WindowSound(w) ==
    /\ w.kind = "elect" => w.from = w.node
    /\ w.kind = "vote" => w.req <= w.term /\ w.term <= currentTerm'[w.node]
    /\ w.kind \in {"voteStepDown", "append"} => w.req <= currentTerm'[w.node]

LEMMA OldWindowsSound ==
    ASSUME TypeOK, TypeOK', TermsAndVotesStable, WindowsSound
    PROVE  \A w \in windows : WindowSound(w)
BY SMTT(30) DEF TypeOK, Window, TermsAndVotesStable, WindowsSound, WindowSound

LEMMA StepDownWindows ==
    ASSUME TypeOK, TypeOK', TermsAndVotesStable, WindowsSound,
           NEW i \in Node, NEW term \in Nat, NEW kind \in {"voteStepDown", "append", "reply"},
           NEW from \in Node, stepDown(i, term, kind, from, term, windows)
    PROVE  WindowsSound'
<1> DEFINE newTerm == IF term > currentTerm[i] THEN term ELSE currentTerm[i]
           newVote == IF term > currentTerm[i] THEN Nil ELSE votedFor[i]
           w == [node |-> i, kind |-> kind, term |-> newTerm, vote |-> newVote,
                 saved |-> FALSE, from |-> from, req |-> term]
<1>1. windows' = windows \cup {w}
  BY DEF stepDown, voteAfter
<1>2. currentTerm'[i] = newTerm
  BY DEF stepDown, voteAfter, TypeOK
<1>3. WindowSound(w)
  BY <1>2, SMTT(30) DEF WindowSound, TypeOK
<1>4. QED
  BY <1>1, <1>3, OldWindowsSound DEF WindowsSound, WindowSound

LEMMA CastVoteWindows ==
    ASSUME TypeOK, TypeOK', TermsAndVotesStable, WindowsSound,
           NEW i \in Node, NEW candidate \in Node, NEW req \in Nat, req <= currentTerm[i],
           NEW upToDate, NEW ws \in SUBSET windows, NEW ms,
           castVote(i, candidate, req, upToDate, ws, ms)
    PROVE  WindowsSound'
<1> DEFINE w == [node |-> i, kind |-> "vote", term |-> currentTerm[i],
                 vote |-> candidate, saved |-> FALSE, from |-> candidate, req |-> req]
<1>1. windows' \subseteq windows \cup {w}
  BY DEF castVote
<1>2. WindowSound(w)
  BY DEF WindowSound, TypeOK, TermsAndVotesStable
<1>3. QED
  BY <1>1, <1>2, OldWindowsSound DEF WindowsSound, WindowSound

LEMMA WindowsStep ==
    ASSUME TypeOK, TypeOK', TermsAndVotesStable, WindowsSound, [Next]_vars
    PROVE  WindowsSound'
<1>1. ASSUME windows' \subseteq windows PROVE WindowsSound'
  BY <1>1, OldWindowsSound DEF WindowsSound, WindowSound
<1>2. ASSUME NEW i \in Node, NEW j \in Node, NEW term \in 1..currentTerm[j],
             preVoteStepDown(i, j, term)
      PROVE  WindowsSound'
  BY <1>2, StepDownWindows, SMTT(30) DEF preVoteStepDown, TypeOK
<1>3. ASSUME NEW i \in Node, startElection(i) PROVE WindowsSound'
  <2> DEFINE w == [node |-> i, kind |-> "elect", term |-> currentTerm[i] + 1, vote |-> i,
                   saved |-> FALSE, from |-> i, req |-> currentTerm[i] + 1]
  <2>1. windows' = windows \cup {w}
    BY <1>3 DEF startElection, electionTerm
  <2>2. WindowSound(w)
    BY DEF WindowSound
  <2>3. QED
    BY <2>1, <2>2, OldWindowsSound DEF WindowsSound, WindowSound
<1>4. ASSUME NEW w \in windows, SaveTermAndVote(w) PROVE WindowsSound'
  <2> DEFINE v == [w EXCEPT !.saved = TRUE]
  <2>1. w \in Window
    BY DEF TypeOK
  <2>2. /\ v.term = w.term /\ v.node = w.node /\ v.from = w.from
        /\ v.kind = w.kind /\ v.req = w.req
    BY <2>1 DEF Window
  <2>3. windows' \subseteq windows \cup {v}
    BY <1>4 DEF SaveTermAndVote
  <2> HIDE DEF v
  <2>4. QED
    BY <2>2, <2>3, OldWindowsSound DEF WindowsSound, WindowSound
<1>5. ASSUME NEW w \in windows, NEW upToDate \in BOOLEAN, resumeAfterStepDown(w, upToDate)
      PROVE  WindowsSound'
  <2>1. /\ w.node \in Node /\ w.from \in Node /\ w.req \in Nat
        /\ windows \ {w} \in SUBSET windows
    BY DEF TypeOK, Window
  <2>2. w.req <= currentTerm[w.node]
    BY <1>5 DEF resumeAfterStepDown, WindowsSound
  <2>3. QED
    BY <1>5, <2>1, <2>2, CastVoteWindows DEF resumeAfterStepDown
<1>6. ASSUME NEW m \in msgs, NEW recent \in BOOLEAN, NEW upToDate \in BOOLEAN,
             handleRequestVote(m, recent, upToDate)
      PROVE  WindowsSound'
  <2>1. m.from \in Node /\ m.to \in Node /\ m.term \in Nat /\ windows \in SUBSET windows
    BY MessageFields DEF TypeOK
  <2>2. CASE stepDown(m.to, m.term, "voteStepDown", m.from, m.term, windows)
    BY <2>1, <2>2, StepDownWindows
  <2>3. CASE /\ m.term = currentTerm[m.to]
             /\ castVote(m.to, m.from, m.term, upToDate, windows, msgs \ {m})
    <3>1. m.term <= currentTerm[m.to]
      BY <2>1, <2>3, SMTT(30)
    <3>2. QED
      BY <2>1, <2>3, <3>1, CastVoteWindows
  <2>4. QED
    BY <1>1, <1>6, <2>2, <2>3 DEF handleRequestVote
<1>7. ASSUME NEW m \in msgs,
             handleVoteReply(m) \/ processAppendEntries(m) \/ handleAppendReply(m)
      PROVE  WindowsSound'
  <2>1. m.from \in Node /\ m.to \in Node /\ m.term \in Nat
    BY MessageFields DEF TypeOK
  <2>2. QED
    BY <1>1, <1>7, <2>1, StepDownWindows
       DEF handleVoteReply, processAppendEntries, handleAppendReply
<1>8. CASE UNCHANGED vars
  BY <1>1, <1>8 DEF vars
<1>9. QED
  BY <1>1, <1>2, <1>3, <1>4, <1>5, <1>6, <1>7, <1>8
     DEF Next, startPreVote, resumeElection, resumeVote, resumeAppend,
         sendHeartbeatOnce, sendHeartbeats

-----------------------------------------------------------------------------
\* Ballots and elections are never taken back.
LEMMA HistoryGrows ==
    [Next]_vars => ballots \subseteq ballots' /\ elections \subseteq elections'
BY DEF Next, vars, history, startPreVote, preVoteStepDown, startElection, SaveTermAndVote,
       resumeElection, becomeLeader, resumeAfterStepDown, resumeVote, resumeAppend,
       handleRequestVote, handleVoteReply, processAppendEntries, handleAppendReply,
       sendHeartbeatOnce, sendHeartbeats

\* A message that is no granted vote, or that is backed by a ballot.
Backed(m) ==
    m.type = "RequestVoteReply" /\ m.granted =>
        m.req <= m.term /\ (m.term = m.req => <<m.term, m.from, m.to>> \in ballots')

LEMMA CastVoteMessages ==
    ASSUME NEW i, NEW candidate, NEW req, NEW upToDate, NEW ws, NEW ms \in SUBSET msgs,
           castVote(i, candidate, req, upToDate, ws, ms)
    PROVE  \A m \in msgs' : m \in msgs \/ Backed(m)
<1> DEFINE r == VoteReply(i, candidate, req, FALSE)
<1>1. Backed(r)
  BY DEF Backed, VoteReply
<1>2. Reply(ms, r) \subseteq ms \cup {r}
  BY ReplyAdds
<1>3. msgs' = ms \/ msgs' = Reply(ms, r)
  BY DEF castVote
<1> HIDE DEF r
<1>4. QED
  BY <1>1, <1>2, <1>3

LEMMA GrantsStep ==
    ASSUME TypeOK, WindowsSound, GrantsAreBallots, [Next]_vars
    PROVE  GrantsAreBallots'
<1> SUFFICES \A m \in msgs' : m \in msgs \/ Backed(m)
  BY HistoryGrows DEF GrantsAreBallots, Backed
<1>1. ASSUME NEW w \in windows, resumeElection(w)
      PROVE  \A m \in msgs' : m \in msgs \/ Backed(m)
  BY <1>1, SMTT(30) DEF resumeElection, Backed
<1>2. ASSUME NEW w \in windows, resumeVote(w)
      PROVE  \A m \in msgs' : m \in msgs \/ Backed(m)
  <2> DEFINE r == VoteReply(w.node, w.from, w.req, TRUE)
  <2>1. w.node \in Node /\ w.term \in Nat /\ w.req \in Nat /\ currentTerm[w.node] \in Nat
    BY DEF TypeOK, Window
  <2>2. w.req <= w.term /\ w.term <= currentTerm[w.node]
    BY <1>2 DEF resumeVote, WindowsSound
  <2>3. <<w.term, w.node, w.from>> \in ballots'
    BY <1>2 DEF resumeVote
  <2>4. r.req = w.req /\ r.term = currentTerm[w.node] /\ r.from = w.node /\ r.to = w.from
    BY DEF VoteReply
  <2>5. msgs' \subseteq msgs \cup {r}
    BY <1>2 DEF resumeVote, Reply
  <2> HIDE DEF r
  <2>6. r.req <= r.term
    BY <2>1, <2>2, <2>4, SMTT(30)
  <2>7. ASSUME r.term = r.req PROVE <<r.term, r.from, r.to>> \in ballots'
    <3>1. w.term = currentTerm[w.node]
      BY <2>1, <2>2, <2>4, <2>7, SMTT(30)
    <3>2. QED
      BY <2>3, <2>4, <3>1
  <2>8. Backed(r)
    BY <2>6, <2>7 DEF Backed
  <2>9. QED
    BY <2>5, <2>8
<1>3. ASSUME NEW w \in windows, resumeAppend(w)
      PROVE  \A m \in msgs' : m \in msgs \/ Backed(m)
  <2> DEFINE r == [type |-> "AppendReply", from |-> w.node, to |-> w.from,
                   term |-> currentTerm[w.node]]
  <2>1. msgs' \subseteq msgs \cup {r}
    BY <1>3, ReplyAdds, SMTT(30) DEF resumeAppend
  <2>2. Backed(r)
    BY DEF Backed
  <2> HIDE DEF r
  <2>3. QED
    BY <2>1, <2>2
<1>4. ASSUME NEW w \in windows, NEW upToDate \in BOOLEAN, resumeAfterStepDown(w, upToDate)
      PROVE  \A m \in msgs' : m \in msgs \/ Backed(m)
  <2>1. msgs \in SUBSET msgs
    OBVIOUS
  <2>2. QED
    BY <1>4, <2>1, CastVoteMessages DEF resumeAfterStepDown
<1>5. ASSUME NEW q \in msgs, NEW recent \in BOOLEAN, NEW upToDate \in BOOLEAN,
             handleRequestVote(q, recent, upToDate)
      PROVE  \A m \in msgs' : m \in msgs \/ Backed(m)
  <2> DEFINE r == VoteReply(q.to, q.from, q.term, FALSE)
  <2>1. Backed(r)
    BY DEF Backed, VoteReply
  <2>2. Reply(msgs \ {q}, r) \subseteq msgs \cup {r}
    BY DEF Reply
  <2>3. CASE msgs' = Reply(msgs \ {q}, r)
    <3> HIDE DEF r
    <3> QED
      BY <2>1, <2>2, <2>3
  <2>4. CASE msgs' = msgs \ {q}
    BY <2>4
  <2>5. CASE castVote(q.to, q.from, q.term, upToDate, windows, msgs \ {q})
    <3>1. msgs \ {q} \in SUBSET msgs
      OBVIOUS
    <3>2. QED
      BY <2>5, <3>1, CastVoteMessages
  <2>6. QED
    BY <1>5, <2>3, <2>4, <2>5 DEF handleRequestVote
<1>6. ASSUME NEW q \in msgs, processAppendEntries(q)
      PROVE  \A m \in msgs' : m \in msgs \/ Backed(m)
  <2> DEFINE r == [type |-> "AppendReply", from |-> q.to, to |-> q.from,
                   term |-> currentTerm[q.to]]
  <2>1. Reply(msgs \ {q}, r) \subseteq msgs \cup {r}
    BY ReplyAdds, SMTT(30)
  <2>2. msgs' = Reply(msgs \ {q}, r) \/ msgs' = msgs \ {q}
    BY <1>6 DEF processAppendEntries
  <2>3. msgs' \subseteq msgs \cup {r}
    BY <2>1, <2>2
  <2>4. Backed(r)
    BY DEF Backed
  <2> HIDE DEF r
  <2>5. QED
    BY <2>3, <2>4
<1>7. ASSUME NEW b \in beats, sendHeartbeatOnce(b)
      PROVE  \A m \in msgs' : m \in msgs \/ Backed(m)
  BY <1>7, SMTT(30) DEF sendHeartbeatOnce, Backed
<1>8. CASE msgs' \subseteq msgs
  BY <1>8
<1>9. CASE UNCHANGED vars
  BY <1>9 DEF vars
<1>10. QED
  BY <1>1, <1>2, <1>3, <1>4, <1>5, <1>6, <1>7, <1>8, <1>9
     DEF Next, startPreVote, preVoteStepDown, startElection, SaveTermAndVote,
         handleVoteReply, handleAppendReply, sendHeartbeats

-----------------------------------------------------------------------------
\* stepDown leaves no candidate behind, and changes no other node.
LEMMA StepDownRole ==
    ASSUME TypeOK, NEW i \in Node, NEW term, NEW kind, NEW from, NEW req,
           stepDown(i, term, kind, from, req, windows), UNCHANGED votes
    PROVE  \A j \in Node : state'[j] = Candidate =>
              state[j] = Candidate /\ currentTerm'[j] = currentTerm[j] /\ votes'[j] = votes[j]
BY DEF stepDown, voteAfter, TypeOK, Follower, Candidate

\* A reply that is counted stands for a ballot of the candidate's term.
LEMMA CountedReply ==
    ASSUME TypeOK, GrantsAreBallots, NEW m \in msgs, m.type = "RequestVoteReply",
           m.term <= currentTerm[m.to], countable(m)
    PROVE  <<currentTerm[m.to], m.from, m.to>> \in ballots
<1>1. m.to \in Node /\ m.term \in Nat /\ m.req \in Nat
  BY MessageFields DEF TypeOK
<1>2. m.req = currentTerm[m.to] /\ m.term >= m.req /\ m.granted
  BY DEF countable
<1>3. m.term = m.req
  BY <1>1, <1>2, SMTT(30)
<1>4. QED
  BY <1>2, <1>3 DEF GrantsAreBallots

\* The votes counted by a candidate stay backed by ballots.
LEMMA CountedStep ==
    ASSUME TypeOK, GrantsAreBallots, CountedVotesAreBallots, [Next]_vars
    PROVE  CountedVotesAreBallots'
<1> DEFINE Same(j) == /\ state[j] = Candidate /\ currentTerm'[j] = currentTerm[j]
                      /\ votes'[j] = votes[j]
           Kept == \A j \in Node : state'[j] = Candidate => Same(j)
<1>1. ASSUME Kept PROVE CountedVotesAreBallots'
  BY <1>1, HistoryGrows DEF CountedVotesAreBallots
<1>2. ASSUME NEW i \in Node, startPreVote(i) PROVE Kept
  BY <1>2 DEF startPreVote, roundVars, TypeOK, PreCandidate, Candidate
<1>3. ASSUME NEW i \in Node, NEW j \in Node, NEW term \in 1..currentTerm[j],
             preVoteStepDown(i, j, term)
      PROVE  Kept
  BY <1>3, StepDownRole DEF preVoteStepDown, roundVars
<1>4. ASSUME NEW i \in Node, startElection(i) PROVE CountedVotesAreBallots'
  <2>1. votes'[i] = {}
    BY <1>4 DEF startElection, electionTerm, TypeOK
  <2>2. \A j \in Node \ {i} : state'[j] = Candidate => Same(j)
    BY <1>4 DEF startElection, electionTerm, TypeOK
  <2>3. QED
    BY <2>1, <2>2, HistoryGrows DEF CountedVotesAreBallots
<1>5. ASSUME NEW w \in windows, resumeElection(w) PROVE CountedVotesAreBallots'
  <2>1. w.node \in Node /\ UNCHANGED currentTerm
    BY <1>5 DEF resumeElection, TypeOK, Window
  <2>2. CASE UNCHANGED <<state, votes>>
    BY <1>1, <2>1, <2>2
  <2>3. CASE /\ currentTerm[w.node] = w.term
             /\ votes' = [votes EXCEPT ![w.node] = {w.node}]
             /\ ballots' = ballots \cup {<<w.term, w.node, w.node>>}
             /\ becomeLeader(w.node) \/ UNCHANGED state
    <3>1. \A j \in Node \ {w.node} : state'[j] = Candidate => Same(j)
      BY <2>1, <2>3 DEF becomeLeader, TypeOK
    <3>2. \A v \in votes'[w.node] : <<currentTerm'[w.node], v, w.node>> \in ballots'
      BY <2>1, <2>3 DEF TypeOK
    <3>3. QED
      BY <3>1, <3>2, HistoryGrows DEF CountedVotesAreBallots
  <2>4. QED
    BY <1>5, <2>2, <2>3 DEF resumeElection
<1>6. ASSUME NEW w \in windows, NEW upToDate \in BOOLEAN, resumeAfterStepDown(w, upToDate)
      PROVE  Kept
  BY <1>6 DEF resumeAfterStepDown, castVote, nodeVars, roundVars
<1>7. ASSUME NEW m \in msgs, NEW recent \in BOOLEAN, NEW upToDate \in BOOLEAN,
             handleRequestVote(m, recent, upToDate)
      PROVE  Kept
  <2>1. m.to \in Node
    BY MessageFields DEF TypeOK
  <2>2. UNCHANGED votes
    BY <1>7 DEF handleRequestVote, roundVars
  <2>3. CASE UNCHANGED <<state, currentTerm>>
    BY <2>2, <2>3
  <2>4. CASE stepDown(m.to, m.term, "voteStepDown", m.from, m.term, windows)
    BY <2>1, <2>2, <2>4, StepDownRole
  <2>5. QED
    BY <1>7, <2>3, <2>4 DEF handleRequestVote, castVote, nodeVars
<1>8. ASSUME NEW m \in msgs, handleVoteReply(m) PROVE CountedVotesAreBallots'
  <2>1. m.from \in Node /\ m.to \in Node /\ m.term \in Nat
    BY MessageFields DEF TypeOK
  <2>2. CASE /\ stepDown(m.to, m.term, "reply", m.to, m.term, windows)
             /\ UNCHANGED <<votes, beats, elections>>
    BY <1>1, <2>1, <2>2, StepDownRole
  <2>3. CASE UNCHANGED <<nodeVars, windows, votes, beats, elections>>
    BY <1>1, <2>3 DEF nodeVars
  <2>4. CASE /\ m.term <= currentTerm[m.to] /\ countable(m)
             /\ votes' = [votes EXCEPT ![m.to] = votes[m.to] \cup {m.from}]
             /\ becomeLeader(m.to) \/ UNCHANGED state
             /\ UNCHANGED currentTerm
    <3>1. <<currentTerm[m.to], m.from, m.to>> \in ballots
      BY <1>8, <2>4, CountedReply DEF handleVoteReply
    <3>2. \A v \in votes'[m.to] : <<currentTerm'[m.to], v, m.to>> \in ballots'
      BY <2>1, <2>4, <3>1, HistoryGrows DEF countable, CountedVotesAreBallots, TypeOK
    <3>3. \A j \in Node \ {m.to} : state'[j] = Candidate => Same(j)
      BY <2>1, <2>4 DEF becomeLeader, TypeOK
    <3>4. QED
      BY <3>2, <3>3, HistoryGrows DEF CountedVotesAreBallots
  <2>5. QED
    BY <1>8, <2>2, <2>3, <2>4 DEF handleVoteReply
<1>9. ASSUME NEW m \in msgs, processAppendEntries(m) \/ handleAppendReply(m) PROVE Kept
  <2>1. m.to \in Node
    BY MessageFields DEF TypeOK
  <2>2. UNCHANGED votes
    BY <1>9 DEF processAppendEntries, handleAppendReply, roundVars
  <2>3. CASE UNCHANGED <<state, currentTerm>>
    BY <2>2, <2>3
  <2>4. ASSUME NEW kind, NEW from, stepDown(m.to, m.term, kind, from, m.term, windows)
        PROVE  Kept
    BY <2>1, <2>2, <2>4, StepDownRole
  <2>5. QED
    BY <1>9, <2>3, <2>4 DEF processAppendEntries, handleAppendReply, nodeVars
<1>10. CASE UNCHANGED <<state, currentTerm, votes>>
  BY <1>1, <1>10
<1>11. CASE UNCHANGED vars
  BY <1>10, <1>11 DEF vars, nodeVars, roundVars
<1> HIDE DEF Kept
<1>12. QED
  BY <1>1, <1>2, <1>3, <1>4, <1>5, <1>6, <1>7, <1>8, <1>9, <1>10, <1>11
     DEF Next, SaveTermAndVote, resumeVote, resumeAppend, sendHeartbeatOnce,
         sendHeartbeats, nodeVars, roundVars

-----------------------------------------------------------------------------
\* The elections after the step.
WonNext(n, t) == \E e \in elections' : e[2] = n /\ e[1] <= t

\* An election that was won stays won, and for later terms as well.
LEMMA WonGrows ==
    ASSUME TypeOK, elections \subseteq elections', NEW n, NEW t \in Nat, NEW u \in Nat, t <= u,
           Won(n, t)
    PROVE  WonNext(n, u)
<1>1. PICK e \in elections : e[2] = n /\ e[1] <= t
  BY DEF Won
<1>2. e \in elections' /\ e[1] \in Nat
  BY DEF TypeOK
<1>3. e[1] <= u
  BY <1>1, <1>2, SMTT(30)
<1>4. QED
  BY <1>1, <1>2, <1>3 DEF WonNext

\* What a step may add without naming a leader that has not won.
NewLeaderID ==
    \A i \in Node : leaderID'[i] \in {Nil, leaderID[i]} \/ Won(leaderID'[i], currentTerm[i])

NewHeartbeats == \A m \in msgs' : m \in msgs \/ (m.type = "AppendEntries" => Won(m.from, m.term))

NewHandlers == \A w \in windows' : w.kind = "append" => Won(w.from, w.req)

NewBeats == \A b \in beats' : WonNext(b.node, currentTerm'[b.node])

LEMMA LeadersStep ==
    ASSUME TypeOK, TypeOK', TermsAndVotesStable, elections \subseteq elections',
           LeadersWereElected, NewLeaderID, NewHeartbeats, NewHandlers, NewBeats
    PROVE  LeadersWereElected'
<1>1. ASSUME NEW i \in Node, leaderID'[i] # Nil PROVE WonNext(leaderID'[i], currentTerm'[i])
  <2>1. Won(leaderID'[i], currentTerm[i])
    BY <1>1 DEF NewLeaderID, LeadersWereElected, KnownLeaderWasElected, Won
  <2>2. currentTerm[i] \in Nat /\ currentTerm'[i] \in Nat /\ currentTerm[i] <= currentTerm'[i]
    BY DEF TypeOK, TermsAndVotesStable
  <2>3. QED
    BY <2>1, <2>2, WonGrows
<1>2. ASSUME NEW m \in msgs', m.type = "AppendEntries" PROVE WonNext(m.from, m.term)
  <2>1. Won(m.from, m.term)
    BY <1>2 DEF NewHeartbeats, LeadersWereElected
  <2>2. m.term \in Nat
    BY MessageFields DEF TypeOK
  <2>3. QED
    BY <2>1, <2>2, WonGrows, SMTT(30)
<1>3. ASSUME NEW w \in windows', w.kind = "append" PROVE WonNext(w.from, w.req)
  <2>1. Won(w.from, w.req) /\ w.req \in Nat
    BY <1>3 DEF NewHandlers, TypeOK, Window
  <2>2. QED
    BY <2>1, WonGrows, SMTT(30)
<1>4. KnownLeaderWasElected'
  BY <1>1 DEF KnownLeaderWasElected, WonNext
<1>5. QED
  BY <1>2, <1>3, <1>4 DEF NewBeats, LeadersWereElected, Won, WonNext

\* stepDown forgets the leader, and only processAppendEntries names one.
LEMMA NewLeaderIDStep ==
    ASSUME TypeOK, WindowsSound, LeadersWereElected, [Next]_vars
    PROVE  NewLeaderID
<1> DEFINE Kept == \A j \in Node : leaderID'[j] \in {Nil, leaderID[j]}
<1>1. ASSUME NEW i \in Node, NEW term, NEW kind, NEW from, NEW req,
             stepDown(i, term, kind, from, req, windows)
      PROVE  Kept
  BY <1>1 DEF stepDown, TypeOK
<1>2. ASSUME NEW m \in msgs, processAppendEntries(m) PROVE NewLeaderID
  <2>1. m.to \in Node /\ m.from \in Node /\ m.term \in Nat /\ currentTerm[m.to] \in Nat
    BY MessageFields DEF TypeOK
  <2>2. CASE UNCHANGED leaderID
    BY <2>2 DEF NewLeaderID
  <2>3. CASE stepDown(m.to, m.term, "append", m.from, m.term, windows)
    BY <1>1, <2>1, <2>3 DEF NewLeaderID
  <2>4. CASE /\ ~(m.term < currentTerm[m.to]) /\ ~(m.term > currentTerm[m.to])
             /\ leaderID' = [leaderID EXCEPT ![m.to] = m.from]
    <3>1. m.term = currentTerm[m.to]
      BY <2>1, <2>4, SMTT(30)
    <3>2. Won(m.from, currentTerm[m.to])
      BY <1>2, <3>1 DEF processAppendEntries, LeadersWereElected
    <3>3. QED
      BY <2>1, <2>4, <3>2 DEF NewLeaderID, TypeOK
  <2>5. QED
    BY <1>2, <2>2, <2>3, <2>4 DEF processAppendEntries, nodeVars
<1>3. ASSUME NEW w \in windows, resumeAppend(w) PROVE NewLeaderID
  <2>1. w.node \in Node /\ w.req \in Nat /\ currentTerm[w.node] \in Nat
    BY DEF TypeOK, Window
  <2>2. Won(w.from, w.req) /\ w.req <= currentTerm[w.node]
    BY <1>3 DEF resumeAppend, LeadersWereElected, WindowsSound
  <2>3. PICK e \in elections : e[2] = w.from /\ e[1] <= w.req
    BY <2>2 DEF Won
  <2>4. e[1] <= currentTerm[w.node]
    BY <2>1, <2>2, <2>3, SMTT(30) DEF TypeOK
  <2>5. Won(w.from, currentTerm[w.node])
    BY <2>3, <2>4 DEF Won
  <2>6. QED
    BY <1>3, <2>1, <2>5 DEF resumeAppend, NewLeaderID, TypeOK
<1>4. ASSUME NEW m \in msgs, NEW recent, NEW upToDate, handleRequestVote(m, recent, upToDate)
      PROVE  Kept
  <2>1. m.to \in Node
    BY MessageFields DEF TypeOK
  <2>2. QED
    BY <1>1, <1>4, <2>1 DEF handleRequestVote, castVote, nodeVars
<1>5. ASSUME NEW m \in msgs, handleVoteReply(m) \/ handleAppendReply(m) PROVE Kept
  <2>1. m.to \in Node
    BY MessageFields DEF TypeOK
  <2>2. QED
    BY <1>1, <1>5, <2>1 DEF handleVoteReply, handleAppendReply, nodeVars
<1>6. ASSUME NEW w \in windows, NEW upToDate, resumeAfterStepDown(w, upToDate) PROVE Kept
  BY <1>6 DEF resumeAfterStepDown, castVote, nodeVars
<1>7. ASSUME NEW i \in Node, NEW j, NEW term, preVoteStepDown(i, j, term) PROVE Kept
  BY <1>1, <1>7 DEF preVoteStepDown
<1>8. CASE UNCHANGED leaderID
  BY <1>8 DEF NewLeaderID
<1>9. CASE UNCHANGED vars
  BY <1>8, <1>9 DEF vars, nodeVars
<1>10. ASSUME Kept PROVE NewLeaderID
  BY <1>10 DEF NewLeaderID
<1>11. QED
  BY <1>2, <1>3, <1>4, <1>5, <1>6, <1>7, <1>8, <1>9, <1>10
     DEF Next, startPreVote, startElection, SaveTermAndVote, resumeElection, resumeVote,
         sendHeartbeatOnce, sendHeartbeats, nodeVars

\* Heartbeats are sent by goroutines of nodes that have won.
LEMMA NewHeartbeatsStep ==
    ASSUME TypeOK, LeadersWereElected, [Next]_vars
    PROVE  NewHeartbeats
<1>1. ASSUME NEW rest \in SUBSET msgs, NEW m, m.type # "AppendEntries", msgs' = Reply(rest, m)
      PROVE  NewHeartbeats
  <2>1. msgs' \subseteq rest \cup {m}
    BY <1>1, ReplyAdds
  <2>2. QED
    BY <1>1, <2>1 DEF NewHeartbeats
<1>2. ASSUME msgs' \subseteq msgs PROVE NewHeartbeats
  BY <1>2 DEF NewHeartbeats
<1>3. ASSUME NEW b \in beats, sendHeartbeatOnce(b) PROVE NewHeartbeats
  <2>1. Won(b.node, currentTerm[b.node])
    BY DEF LeadersWereElected
  <2>2. QED
    BY <1>3, <2>1, SMTT(30) DEF sendHeartbeatOnce, NewHeartbeats
<1>4. ASSUME NEW w \in windows, resumeElection(w) PROVE NewHeartbeats
  BY <1>4, SMTT(30) DEF resumeElection, NewHeartbeats
<1>5. ASSUME NEW i, NEW candidate, NEW req, NEW upToDate, NEW ws, NEW ms \in SUBSET msgs,
             castVote(i, candidate, req, upToDate, ws, ms)
      PROVE  NewHeartbeats
  <2>1. VoteReply(i, candidate, req, FALSE).type # "AppendEntries"
    BY DEF VoteReply
  <2>2. QED
    BY <1>1, <1>2, <1>5, <2>1 DEF castVote
<1>6. ASSUME NEW m \in msgs, NEW recent, NEW upToDate, handleRequestVote(m, recent, upToDate)
      PROVE  NewHeartbeats
  <2>1. VoteReply(m.to, m.from, m.term, FALSE).type # "AppendEntries"
    BY DEF VoteReply
  <2>2. msgs \ {m} \in SUBSET msgs
    OBVIOUS
  <2>3. QED
    BY <1>1, <1>2, <1>5, <1>6, <2>1, <2>2 DEF handleRequestVote
<1>7. ASSUME NEW w \in windows, NEW upToDate, resumeAfterStepDown(w, upToDate)
      PROVE  NewHeartbeats
  BY <1>5, <1>7 DEF resumeAfterStepDown
<1>8. ASSUME NEW w \in windows, resumeVote(w) PROVE NewHeartbeats
  <2>1. VoteReply(w.node, w.from, w.req, TRUE).type # "AppendEntries"
    BY DEF VoteReply
  <2>2. QED
    BY <1>1, <1>8, <2>1 DEF resumeVote
<1>9. ASSUME NEW w \in windows, resumeAppend(w) PROVE NewHeartbeats
  BY <1>1, <1>9 DEF resumeAppend
<1>10. ASSUME NEW m \in msgs, processAppendEntries(m) PROVE NewHeartbeats
  <2>1. msgs \ {m} \in SUBSET msgs
    OBVIOUS
  <2>2. QED
    BY <1>1, <1>2, <1>10, <2>1, SMTT(30) DEF processAppendEntries
<1>11. CASE UNCHANGED vars
  BY <1>2, <1>11 DEF vars
<1>12. QED
  BY <1>2, <1>3, <1>4, <1>6, <1>7, <1>8, <1>9, <1>10, <1>11
     DEF Next, startPreVote, preVoteStepDown, startElection, SaveTermAndVote,
         handleVoteReply, handleAppendReply, sendHeartbeats

\* The handler of a heartbeat keeps the sender and the term of its request.
LEMMA NewHandlersStep ==
    ASSUME TypeOK, LeadersWereElected, [Next]_vars
    PROVE  NewHandlers
<1>1. ASSUME windows' \subseteq windows PROVE NewHandlers
  BY <1>1 DEF NewHandlers, LeadersWereElected
<1>2. ASSUME NEW i, NEW term, NEW kind, NEW from, NEW req,
             stepDown(i, term, kind, from, req, windows), kind = "append" => Won(from, req)
      PROVE  NewHandlers
  BY <1>2, SMTT(30) DEF stepDown, NewHandlers, LeadersWereElected
<1>3. ASSUME NEW w \in windows, SaveTermAndVote(w) PROVE NewHandlers
  <2> DEFINE v == [w EXCEPT !.saved = TRUE]
  <2>1. v.kind = w.kind /\ v.from = w.from /\ v.req = w.req
    BY DEF TypeOK, Window
  <2>2. windows' \subseteq windows \cup {v}
    BY <1>3 DEF SaveTermAndVote
  <2> HIDE DEF v
  <2>3. QED
    BY <2>1, <2>2 DEF NewHandlers, LeadersWereElected
<1>4. ASSUME NEW i, NEW candidate, NEW req, NEW upToDate, NEW ws \in SUBSET windows, NEW ms,
             castVote(i, candidate, req, upToDate, ws, ms)
      PROVE  NewHandlers
  <2> DEFINE w == [node |-> i, kind |-> "vote", term |-> currentTerm[i],
                   vote |-> candidate, saved |-> FALSE, from |-> candidate, req |-> req]
  <2>1. windows' \subseteq windows \cup {w}
    BY <1>4 DEF castVote
  <2>2. w.kind # "append"
    OBVIOUS
  <2> HIDE DEF w
  <2>3. QED
    BY <2>1, <2>2 DEF NewHandlers, LeadersWereElected
<1>5. ASSUME NEW m \in msgs, NEW recent, NEW upToDate, handleRequestVote(m, recent, upToDate)
      PROVE  NewHandlers
  <2>1. CASE UNCHANGED windows
    BY <1>1, <2>1
  <2>2. CASE stepDown(m.to, m.term, "voteStepDown", m.from, m.term, windows)
    BY <1>2, <2>2, SMTT(30)
  <2>3. CASE castVote(m.to, m.from, m.term, upToDate, windows, msgs \ {m})
    <3>1. windows \in SUBSET windows
      OBVIOUS
    <3>2. QED
      BY <1>4, <2>3, <3>1
  <2>4. QED
    BY <1>5, <2>1, <2>2, <2>3 DEF handleRequestVote
<1>6. ASSUME NEW m \in msgs, handleVoteReply(m) \/ handleAppendReply(m) PROVE NewHandlers
  <2>1. CASE windows' \subseteq windows
    BY <1>1, <2>1
  <2>2. CASE stepDown(m.to, m.term, "reply", m.to, m.term, windows)
    BY <1>2, <2>2, SMTT(30)
  <2>3. QED
    BY <1>6, <2>1, <2>2 DEF handleVoteReply, handleAppendReply
<1>7. ASSUME NEW m \in msgs, processAppendEntries(m) PROVE NewHandlers
  <2>1. Won(m.from, m.term)
    BY <1>7 DEF processAppendEntries, LeadersWereElected
  <2>2. QED
    BY <1>1, <1>2, <1>7, <2>1 DEF processAppendEntries
<1>8. ASSUME NEW w \in windows, NEW upToDate, resumeAfterStepDown(w, upToDate)
      PROVE  NewHandlers
  <2>1. windows \ {w} \in SUBSET windows
    OBVIOUS
  <2>2. QED
    BY <1>4, <1>8, <2>1 DEF resumeAfterStepDown
<1>9. ASSUME NEW i \in Node, NEW j, NEW term, preVoteStepDown(i, j, term) PROVE NewHandlers
  BY <1>2, <1>9 DEF preVoteStepDown
<1>10. ASSUME NEW i \in Node, startElection(i) PROVE NewHandlers
  BY <1>10, SMTT(30) DEF startElection, NewHandlers, LeadersWereElected
<1>11. CASE UNCHANGED vars
  BY <1>1, <1>11 DEF vars
<1>12. QED
  BY <1>1, <1>3, <1>5, <1>6, <1>7, <1>8, <1>9, <1>10, <1>11
     DEF Next, startPreVote, resumeElection, resumeVote, resumeAppend, sendHeartbeatOnce,
         sendHeartbeats

\* The heartbeat goroutine starts when the election is won.
LEMMA NewBeatsStep ==
    ASSUME TypeOK, TypeOK', TermsAndVotesStable, LeadersWereElected, [Next]_vars
    PROVE  NewBeats
<1> DEFINE OldBeat(c) == \E b \in beats : c.node = b.node
           NewBeat(c) == c.node \in Node /\ <<currentTerm[c.node], c.node>> \in elections'
<1>1. ASSUME NEW c \in beats', OldBeat(c) PROVE WonNext(c.node, currentTerm'[c.node])
  <2>1. PICK b \in beats : c.node = b.node
    BY <1>1
  <2>2. b.node \in Node /\ Won(b.node, currentTerm[b.node])
    BY DEF TypeOK, Heartbeater, LeadersWereElected
  <2>3. /\ currentTerm[b.node] \in Nat /\ currentTerm'[b.node] \in Nat
        /\ currentTerm[b.node] <= currentTerm'[b.node]
    BY <2>2 DEF TypeOK, TermsAndVotesStable
  <2>4. QED
    BY <2>1, <2>2, <2>3, HistoryGrows, WonGrows
<1>2. ASSUME NEW c \in beats', NewBeat(c) PROVE WonNext(c.node, currentTerm'[c.node])
  <2>1. currentTerm[c.node] <= currentTerm'[c.node]
    BY <1>2 DEF TermsAndVotesStable, TypeOK
  <2>2. QED
    BY <1>2, <2>1 DEF WonNext
<1>3. ASSUME NEW i \in Node, becomeLeader(i)
      PROVE  \A c \in beats' : OldBeat(c) \/ NewBeat(c)
  BY <1>3, SMTT(30) DEF becomeLeader
<1>4. ASSUME NEW w \in windows, resumeElection(w)
      PROVE  \A c \in beats' : OldBeat(c) \/ NewBeat(c)
  <2>1. w.node \in Node
    BY DEF TypeOK, Window
  <2>2. QED
    BY <1>3, <1>4, <2>1 DEF resumeElection
<1>5. ASSUME NEW m \in msgs, handleVoteReply(m)
      PROVE  \A c \in beats' : OldBeat(c) \/ NewBeat(c)
  <2>1. m.to \in Node
    BY MessageFields DEF TypeOK
  <2>2. QED
    BY <1>3, <1>5, <2>1 DEF handleVoteReply
<1>6. ASSUME NEW b \in beats, sendHeartbeatOnce(b) \/ sendHeartbeats(b)
      PROVE  \A c \in beats' : OldBeat(c)
  <2>1. \A p : [b EXCEPT !.pc = p].node = b.node
    BY DEF TypeOK, Heartbeater
  <2>2. \A c \in beats' : c \in beats \/ \E p : c = [b EXCEPT !.pc = p]
    BY <1>6 DEF sendHeartbeatOnce, sendHeartbeats
  <2>3. QED
    BY <2>1, <2>2
<1>7. CASE UNCHANGED beats
  BY <1>1, <1>7 DEF NewBeats
<1>8. ASSUME \A c \in beats' : OldBeat(c) \/ NewBeat(c) PROVE NewBeats
  BY <1>1, <1>2, <1>8 DEF NewBeats
<1>9. CASE UNCHANGED vars
  BY <1>7, <1>9 DEF vars, roundVars
<1>10. QED
  BY <1>4, <1>5, <1>6, <1>7, <1>8, <1>9
     DEF Next, startPreVote, preVoteStepDown, startElection, SaveTermAndVote,
         resumeAfterStepDown, resumeVote, resumeAppend, handleRequestVote,
         processAppendEntries, handleAppendReply, roundVars

-----------------------------------------------------------------------------
\* A window that has just been opened holds what its node knows now.
FreshWindow(w) ==
    /\ w.term = currentTerm'[w.node] /\ w.vote = votedFor'[w.node]
    /\ w.kind \in {"elect", "vote"} => w.from = w.vote
    /\ ~w.saved

\* A step that writes nothing to the disk: the windows it opens are fresh, and a
\* node whose term or vote it changes has one of them.
Moves ==
    /\ \A w \in windows' : w \in windows \/ FreshWindow(w)
    /\ \A i \in Node :
          \/ currentTerm'[i] = currentTerm[i] /\ votedFor'[i] = votedFor[i]
          \/ \E w \in windows' : w.node = i /\ FreshWindow(w)

LEMMA StepDownMoves ==
    ASSUME TypeOK, NEW i \in Node, NEW term \in Nat,
           NEW kind \in {"voteStepDown", "append", "reply"}, NEW from, NEW req,
           stepDown(i, term, kind, from, req, windows)
    PROVE  Moves
<1> DEFINE newTerm == IF term > currentTerm[i] THEN term ELSE currentTerm[i]
           newVote == IF term > currentTerm[i] THEN Nil ELSE votedFor[i]
           w == [node |-> i, kind |-> kind, term |-> newTerm, vote |-> newVote,
                 saved |-> FALSE, from |-> from, req |-> req]
<1>1. windows' = windows \cup {w}
  BY DEF stepDown, voteAfter
<1>2. currentTerm'[i] = newTerm /\ votedFor'[i] = newVote
  BY DEF stepDown, voteAfter, TypeOK
<1>3. \A j \in Node \ {i} : currentTerm'[j] = currentTerm[j] /\ votedFor'[j] = votedFor[j]
  BY DEF stepDown, voteAfter, TypeOK
<1>4. FreshWindow(w) /\ w.node = i
  BY <1>2 DEF FreshWindow
<1> HIDE DEF w
<1>5. QED
  BY <1>1, <1>3, <1>4 DEF Moves

LEMMA CastVoteMoves ==
    ASSUME TypeOK, NEW i \in Node, NEW candidate \in Node, NEW req, NEW upToDate,
           NEW ws \in SUBSET windows, NEW ms, castVote(i, candidate, req, upToDate, ws, ms)
    PROVE  Moves
<1> DEFINE w == [node |-> i, kind |-> "vote", term |-> currentTerm[i],
                 vote |-> candidate, saved |-> FALSE, from |-> candidate, req |-> req]
<1>1. CASE /\ votedFor' = [votedFor EXCEPT ![i] = candidate]
           /\ windows' = ws \cup {w}
           /\ UNCHANGED currentTerm
  <2>1. \A j \in Node \ {i} : votedFor'[j] = votedFor[j]
    BY <1>1 DEF TypeOK
  <2>2. FreshWindow(w) /\ w.node = i
    BY <1>1 DEF FreshWindow, TypeOK
  <2> HIDE DEF w
  <2>3. QED
    BY <1>1, <2>1, <2>2 DEF Moves
<1>2. CASE windows' = ws /\ UNCHANGED <<currentTerm, votedFor>>
  BY <1>2 DEF Moves
<1>3. QED
  BY <1>1, <1>2 DEF castVote, nodeVars

\* Every step of a running node but a save is such a step.
LEMMA MovesStep ==
    ASSUME TypeOK, [Next]_vars, \A w \in windows : ~SaveTermAndVote(w)
    PROVE  Moves /\ UNCHANGED disk
<1>1. ASSUME windows' \subseteq windows, UNCHANGED <<currentTerm, votedFor>> PROVE Moves
  BY <1>1 DEF Moves
<1>2. ASSUME NEW i \in Node, NEW j \in Node, NEW term \in 1..currentTerm[j],
             preVoteStepDown(i, j, term)
      PROVE  Moves /\ UNCHANGED disk
  <2>1. term \in Nat
    BY SMTT(30) DEF TypeOK
  <2>2. QED
    BY <1>2, <2>1, StepDownMoves DEF preVoteStepDown
<1>3. ASSUME NEW i \in Node, startElection(i) PROVE Moves /\ UNCHANGED disk
  <2> DEFINE w == [node |-> i, kind |-> "elect", term |-> currentTerm[i] + 1, vote |-> i,
                   saved |-> FALSE, from |-> i, req |-> currentTerm[i] + 1]
  <2>1. windows' = windows \cup {w} /\ UNCHANGED disk
    BY <1>3 DEF startElection, electionTerm
  <2>2. FreshWindow(w) /\ w.node = i
    BY <1>3 DEF FreshWindow, startElection, electionTerm, TypeOK
  <2>3. \A j \in Node \ {i} : currentTerm'[j] = currentTerm[j] /\ votedFor'[j] = votedFor[j]
    BY <1>3 DEF startElection, electionTerm, TypeOK
  <2> HIDE DEF w
  <2>4. QED
    BY <2>1, <2>2, <2>3 DEF Moves
<1>4. ASSUME NEW w \in windows, NEW upToDate \in BOOLEAN, resumeAfterStepDown(w, upToDate)
      PROVE  Moves /\ UNCHANGED disk
  <2>1. w.node \in Node /\ w.from \in Node
    BY DEF TypeOK, Window
  <2>2. QED
    BY <1>4, <2>1, CastVoteMoves DEF resumeAfterStepDown
<1>5. ASSUME NEW m \in msgs, NEW recent \in BOOLEAN, NEW upToDate \in BOOLEAN,
             handleRequestVote(m, recent, upToDate)
      PROVE  Moves /\ UNCHANGED disk
  <2>1. m.from \in Node /\ m.to \in Node /\ m.term \in Nat
    BY MessageFields DEF TypeOK
  <2>2. QED
    BY <1>1, <1>5, <2>1, CastVoteMoves, StepDownMoves DEF handleRequestVote, nodeVars
<1>6. ASSUME NEW m \in msgs,
             handleVoteReply(m) \/ processAppendEntries(m) \/ handleAppendReply(m)
      PROVE  Moves /\ UNCHANGED disk
  <2>1. m.from \in Node /\ m.to \in Node /\ m.term \in Nat
    BY MessageFields DEF TypeOK
  <2>2. QED
    BY <1>1, <1>6, <2>1, StepDownMoves
       DEF handleVoteReply, processAppendEntries, handleAppendReply, nodeVars
<1>7. CASE UNCHANGED vars
  BY <1>1, <1>7 DEF vars, nodeVars
<1>8. QED
  BY <1>1, <1>2, <1>3, <1>4, <1>5, <1>6, <1>7
     DEF Next, startPreVote, resumeElection, resumeVote, resumeAppend,
         sendHeartbeatOnce, sendHeartbeats, nodeVars

-----------------------------------------------------------------------------
\* What elections need of ClusterConfig.Majority: two majorities share a node, a set
\* that contains a majority is one, and a node may be a majority by itself.
QuorumsWork ==
    /\ \A S, T \in SUBSET Node : IsQuorum(S) /\ IsQuorum(T) => S \cap T # {}
    /\ \A S, T \in SUBSET Node : S \subseteq T /\ IsQuorum(S) => IsQuorum(T)
    /\ \A i \in Node : Majority <= 1 => IsQuorum({i})

LEMMA QuorumGrows ==
    ASSUME QuorumsWork, NEW S \in SUBSET Node, NEW T \in SUBSET Node, S \subseteq T, IsQuorum(S)
    PROVE  IsQuorum(T)
BY DEF QuorumsWork

\* A node that wins has a majority of the ballots of its term.
LEMMA ElectedStep ==
    ASSUME QuorumsWork, TypeOK, TypeOK', GrantsAreBallots, CountedVotesAreBallots,
           ElectedByMajority, [Next]_vars
    PROVE  ElectedByMajority'
<1> DEFINE Voters(e) == {v \in Node : <<e[1], v, e[2]>> \in ballots'}
<1>1. \A e \in elections : IsQuorum(Voters(e))
  <2> SUFFICES ASSUME NEW e \in elections PROVE IsQuorum(Voters(e))
    OBVIOUS
  <2>1. IsQuorum({v \in Node : <<e[1], v, e[2]>> \in ballots})
    BY DEF ElectedByMajority
  <2>2. {v \in Node : <<e[1], v, e[2]>> \in ballots} \subseteq Voters(e)
    BY HistoryGrows
  <2>3. QED
    BY <2>1, <2>2, QuorumGrows
<1>2. ASSUME UNCHANGED elections PROVE ElectedByMajority'
  BY <1>1, <1>2 DEF ElectedByMajority
<1>3. ASSUME NEW i \in Node, NEW Q \in SUBSET Node, IsQuorum(Q), becomeLeader(i),
             \A v \in Q : <<currentTerm[i], v, i>> \in ballots'
      PROVE  ElectedByMajority'
  <2>1. elections' \subseteq elections \cup {<<currentTerm[i], i>>}
    BY <1>3 DEF becomeLeader
  <2>2. Q \subseteq Voters(<<currentTerm[i], i>>)
    BY <1>3
  <2>3. IsQuorum(Voters(<<currentTerm[i], i>>))
    BY <1>3, <2>2, QuorumGrows
  <2>4. \A e \in elections' : IsQuorum(Voters(e))
    BY <1>1, <2>1, <2>3
  <2>5. QED
    BY <2>4 DEF ElectedByMajority
<1>4. ASSUME NEW w \in windows, resumeElection(w) PROVE ElectedByMajority'
  <2>1. w.node \in Node
    BY DEF TypeOK, Window
  <2>2. CASE UNCHANGED elections
    BY <1>2, <2>2
  <2>3. CASE /\ currentTerm[w.node] = w.term
             /\ ballots' = ballots \cup {<<w.term, w.node, w.node>>}
             /\ Majority <= 1 /\ becomeLeader(w.node)
    <3>2. IsQuorum({w.node})
      BY <2>1, <2>3 DEF QuorumsWork
    <3>3. \A v \in {w.node} : <<currentTerm[w.node], v, w.node>> \in ballots'
      BY <2>3
    <3>4. {w.node} \in SUBSET Node
      BY <2>1
    <3>5. QED
      BY <1>3, <2>1, <2>3, <3>2, <3>3, <3>4
  <2>4. QED
    BY <1>4, <2>2, <2>3 DEF resumeElection, history
<1>5. ASSUME NEW m \in msgs, handleVoteReply(m) PROVE ElectedByMajority'
  <2>1. m.from \in Node /\ m.to \in Node
    BY MessageFields DEF TypeOK
  <2>2. CASE UNCHANGED elections
    BY <1>2, <2>2
  <2>3. CASE /\ m.term <= currentTerm[m.to] /\ countable(m)
             /\ IsQuorum(votes[m.to] \cup {m.from}) /\ becomeLeader(m.to)
    <3> DEFINE Q == votes[m.to] \cup {m.from}
    <3>1. <<currentTerm[m.to], m.from, m.to>> \in ballots
      BY <1>5, <2>3, CountedReply DEF handleVoteReply
    <3>2. \A v \in Q : <<currentTerm[m.to], v, m.to>> \in ballots'
      BY <2>1, <2>3, <3>1, HistoryGrows DEF countable, CountedVotesAreBallots
    <3>3. Q \in SUBSET Node
      BY <2>1 DEF TypeOK
    <3>4. QED
      BY <1>3, <2>1, <2>3, <3>2, <3>3
  <2>4. QED
    BY <1>5, <2>2, <2>3 DEF handleVoteReply
<1>6. CASE UNCHANGED vars
  BY <1>2, <1>6 DEF vars, history
<1>7. QED
  BY <1>2, <1>4, <1>5, <1>6
     DEF Next, startPreVote, preVoteStepDown, startElection, SaveTermAndVote,
         resumeAfterStepDown, resumeVote, resumeAppend, handleRequestVote,
         processAppendEntries, handleAppendReply, sendHeartbeatOnce, sendHeartbeats,
         history

-----------------------------------------------------------------------------
\* Only a save touches the files.
LEMMA FilesStay ==
    ASSUME [Next]_vars, \A w \in windows : ~SaveTermAndVote(w)
    PROVE  UNCHANGED <<disk, lost>>
BY DEF Next, vars, history, startPreVote, preVoteStepDown, startElection, resumeElection,
       resumeAfterStepDown, resumeVote, resumeAppend, handleRequestVote, handleVoteReply,
       processAppendEntries, handleAppendReply, sendHeartbeatOnce, sendHeartbeats

\* Precedes is an order, and a running node goes on in it.
LEMMA PrecedesChain ==
    ASSUME NEW t \in Nat, NEW u \in Nat, NEW x \in Nat, NEW a, NEW b, NEW c,
           Precedes(t, a, u, b), Precedes(u, b, x, c)
    PROVE  Precedes(t, a, x, c)
<1>1. CASE t < u \/ u < x
  BY <1>1, SMTT(30) DEF Precedes
<1>2. CASE t = u /\ u = x
  BY <1>2 DEF Precedes
<1>3. QED
  BY <1>1, <1>2 DEF Precedes

LEMMA NodeGoesOn ==
    ASSUME TypeOK, TypeOK', TermsAndVotesStable, NEW i \in Node, NEW t \in Nat, NEW a,
           Precedes(t, a, currentTerm[i], votedFor[i])
    PROVE  Precedes(t, a, currentTerm'[i], votedFor'[i])
<1>1. currentTerm[i] \in Nat /\ currentTerm'[i] \in Nat
  BY DEF TypeOK
<1>2. currentTerm[i] < currentTerm'[i] \/ currentTerm[i] = currentTerm'[i]
  BY <1>1, SMTT(30) DEF TermsAndVotesStable
<1>3. Precedes(currentTerm[i], votedFor[i], currentTerm'[i], votedFor'[i])
  BY <1>2 DEF Precedes, TermsAndVotesStable
<1>4. QED
  BY <1>1, <1>3, PrecedesChain

\* The ballot is in its voter's file, or the file has lost a save.
OnDisk(b) ==
    \/ b[2] \in lost
    \/ b[1] < disk[b[2]].term
    \/ b[1] = disk[b[2]].term /\ b[3] = disk[b[2]].vote

\* A ballot is given away by a window whose save is done.
LEMMA NewBallots ==
    ASSUME TypeOK, WindowsSound, WindowsAreBehind, [Next]_vars
    PROVE  \A b \in ballots' : b \in ballots \/ OnDisk(b)
<1>1. ASSUME NEW w \in windows, w.kind \in {"elect", "vote"}, w.saved
      PROVE  OnDisk(<<w.term, w.node, w.from>>)
  <2>1. w.from = w.vote /\ w.from # Nil
    BY <1>1, NodeAssumption DEF WindowsAreBehind, TypeOK, Window
  <2>2. CASE w.node \in lost
    BY <2>2 DEF OnDisk
  <2>3. CASE Precedes(w.term, w.vote, disk[w.node].term, disk[w.node].vote)
    BY <2>1, <2>3 DEF Precedes, OnDisk
  <2>4. QED
    BY <1>1, <2>2, <2>3 DEF WindowsAreBehind
<1>2. ASSUME NEW w \in windows, resumeElection(w)
      PROVE  \A b \in ballots' : b \in ballots \/ OnDisk(b)
  <2>1. w.kind = "elect" /\ w.saved /\ w.from = w.node
    BY <1>2 DEF resumeElection, WindowsSound
  <2>2. ballots' \subseteq ballots \cup {<<w.term, w.node, w.node>>}
    BY <1>2 DEF resumeElection, history
  <2>3. OnDisk(<<w.term, w.node, w.node>>)
    BY <1>1, <2>1
  <2>4. QED
    BY <2>2, <2>3
<1>3. ASSUME NEW w \in windows, resumeVote(w)
      PROVE  \A b \in ballots' : b \in ballots \/ OnDisk(b)
  <2>1. w.kind = "vote" /\ w.saved /\ ballots' = ballots \cup {<<w.term, w.node, w.from>>}
    BY <1>3 DEF resumeVote
  <2>2. OnDisk(<<w.term, w.node, w.from>>)
    BY <1>1, <2>1
  <2>3. QED
    BY <2>1, <2>2
<1>4. CASE UNCHANGED ballots
  BY <1>4
<1>5. QED
  BY <1>2, <1>3, <1>4
     DEF Next, vars, history, startPreVote, preVoteStepDown, startElection, SaveTermAndVote,
         resumeAfterStepDown, resumeAppend, handleRequestVote, handleVoteReply,
         processAppendEntries, handleAppendReply, sendHeartbeatOnce, sendHeartbeats

-----------------------------------------------------------------------------
\* A step that writes nothing keeps the file and the windows behind the node: terms
\* grow, and a vote is not changed in its term.
LEMMA MovesDurable ==
    ASSUME TypeOK, TypeOK', TermsAndVotesStable, WindowsAreBehind, DiskIsBehind,
           Moves, UNCHANGED <<disk, lost>>
    PROVE  WindowsAreBehind' /\ DiskIsBehind'
<1>1. ASSUME NEW w \in windows'
      PROVE  /\ Precedes(w.term, w.vote, currentTerm'[w.node], votedFor'[w.node])
             /\ w.kind \in {"elect", "vote"} => w.from = w.vote
             /\ w.saved => \/ w.node \in lost
                           \/ Precedes(w.term, w.vote, disk[w.node].term, disk[w.node].vote)
  <2>1. CASE FreshWindow(w)
    BY <2>1 DEF FreshWindow, Precedes
  <2>2. CASE w \in windows
    <3>1. w.node \in Node /\ w.term \in Nat
      BY <2>2 DEF TypeOK, Window
    <3>2. Precedes(w.term, w.vote, currentTerm[w.node], votedFor[w.node])
      BY <2>2 DEF WindowsAreBehind
    <3>3. Precedes(w.term, w.vote, currentTerm'[w.node], votedFor'[w.node])
      BY <3>1, <3>2, NodeGoesOn
    <3>4. QED
      BY <2>2, <3>3 DEF WindowsAreBehind
  <2>3. QED
    BY <1>1, <2>1, <2>2 DEF Moves
<1>2. ASSUME NEW i \in Node
      PROVE  Precedes(disk[i].term, disk[i].vote, currentTerm'[i], votedFor'[i])
  <2>1. disk[i].term \in Nat
    BY DEF TypeOK
  <2>2. Precedes(disk[i].term, disk[i].vote, currentTerm[i], votedFor[i])
    BY DEF DiskIsBehind
  <2>3. QED
    BY <2>1, <2>2, NodeGoesOn
<1>3. QED
  BY <1>1, <1>2 DEF WindowsAreBehind, DiskIsBehind

\* A save brings the file no further than the node, and forgets no ballot unless it
\* loses an earlier save.
LEMMA SaveDurable ==
    ASSUME TypeOK, TypeOK', CrashInv, NEW w \in windows, SaveTermAndVote(w)
    PROVE  CrashInv'
<1> DEFINE i == w.node
           v == [w EXCEPT !.saved = TRUE]
<1>1. i \in Node /\ w.term \in Nat /\ disk[i].term \in Nat
  BY DEF TypeOK, Window
<1>2. /\ windows' \subseteq windows \cup {v}
      /\ UNCHANGED <<currentTerm, votedFor, ballots>>
  BY DEF SaveTermAndVote, nodeVars
<1>3. /\ v.node = i /\ v.term = w.term /\ v.vote = w.vote /\ v.kind = w.kind /\ v.from = w.from
  BY DEF TypeOK, Window
<1>4. /\ \A j \in Node \ {i} : disk'[j] = disk[j]
      /\ lost \subseteq lost' /\ lost' \subseteq lost \cup {i}
  BY <1>1 DEF SaveTermAndVote, TypeOK
<1>5. \/ /\ disk'[i].term = w.term /\ disk'[i].vote = w.vote
         /\ i \in lost' \/ Precedes(disk[i].term, disk[i].vote, w.term, w.vote)
      \/ disk'[i] = disk[i] /\ i \in lost'
  <2>1. ASSUME disk' = [disk EXCEPT ![i] = [term |-> w.term, vote |-> w.vote]]
        PROVE  disk'[i].term = w.term /\ disk'[i].vote = w.vote
    BY <1>1, <2>1, SMTT(30) DEF TypeOK
  <2>2. QED
    BY <2>1 DEF SaveTermAndVote
<1>6. \/ i \in lost'
      \/ /\ Precedes(disk[i].term, disk[i].vote, w.term, w.vote)
         /\ disk'[i].term = w.term /\ disk'[i].vote = w.vote
  BY <1>5
<1> HIDE DEF v
<1>7. Precedes(w.term, w.vote, currentTerm[i], votedFor[i])
  BY DEF CrashInv, WindowsAreBehind
<1>8. DiskIsBehind'
  BY <1>2, <1>4, <1>5, <1>7 DEF CrashInv, DiskIsBehind
<1>9. WindowsAreBehind'
  <2> SUFFICES ASSUME NEW u \in windows'
               PROVE  /\ Precedes(u.term, u.vote, currentTerm[u.node], votedFor[u.node])
                      /\ u.kind \in {"elect", "vote"} => u.from = u.vote
                      /\ u.saved => \/ u.node \in lost'
                                    \/ Precedes(u.term, u.vote, disk'[u.node].term,
                                                disk'[u.node].vote)
    BY <1>2 DEF WindowsAreBehind
  <2>1. CASE u = v
    <3>1. u.node \in lost' \/ Precedes(u.term, u.vote, disk'[u.node].term, disk'[u.node].vote)
      BY <1>3, <1>6, <2>1 DEF Precedes
    <3>2. u.kind \in {"elect", "vote"} => u.from = u.vote
      BY <1>3, <2>1 DEF CrashInv, WindowsAreBehind
    <3>3. QED
      BY <1>3, <1>7, <2>1, <3>1, <3>2
  <2>2. CASE u \in windows
    <3>1. u.node \in Node /\ u.term \in Nat
      BY <2>2 DEF TypeOK, Window
    <3>2. /\ Precedes(u.term, u.vote, currentTerm[u.node], votedFor[u.node])
          /\ u.kind \in {"elect", "vote"} => u.from = u.vote
          /\ u.saved => \/ u.node \in lost
                        \/ Precedes(u.term, u.vote, disk[u.node].term, disk[u.node].vote)
      BY <2>2 DEF CrashInv, WindowsAreBehind
    <3>3. CASE u.node # i
      BY <1>4, <3>1, <3>2, <3>3
    <3>4. CASE u.node = i /\ i \notin lost'
      <4>1. Precedes(disk[i].term, disk[i].vote, w.term, w.vote)
        BY <1>6, <3>4
      <4>2. u.saved => Precedes(u.term, u.vote, disk[i].term, disk[i].vote)
        BY <1>4, <3>2, <3>4
      <4>3. u.saved => Precedes(u.term, u.vote, w.term, w.vote)
        BY <1>1, <3>1, <4>1, <4>2, PrecedesChain, SMTT(30)
      <4>4. disk'[i].term = w.term /\ disk'[i].vote = w.vote
        BY <1>6, <3>4
      <4>5. QED
        BY <3>2, <3>4, <4>3, <4>4
    <3>5. QED
      BY <3>2, <3>3, <3>4
  <2>3. QED
    BY <1>2, <2>1, <2>2
<1>10. BallotsOnDisk'
  <2> SUFFICES ASSUME NEW b \in ballots
               PROVE  \/ b[2] \in lost'
                      \/ b[1] < disk'[b[2]].term
                      \/ b[1] = disk'[b[2]].term /\ b[3] = disk'[b[2]].vote
    BY <1>2 DEF BallotsOnDisk
  <2>1. b[1] \in Nat /\ b[2] \in Node /\ b[3] \in Node
    BY DEF TypeOK
  <2>2. \/ b[2] \in lost
        \/ b[1] < disk[b[2]].term
        \/ b[1] = disk[b[2]].term /\ b[3] = disk[b[2]].vote
    BY DEF CrashInv, BallotsOnDisk
  <2>3. CASE b[2] # i
    BY <1>4, <2>1, <2>2, <2>3
  <2>4. CASE b[2] = i /\ i \notin lost'
    <3>1. Precedes(b[1], b[3], disk[i].term, disk[i].vote)
      BY <1>4, <2>2, <2>4 DEF Precedes
    <3>2. Precedes(disk[i].term, disk[i].vote, w.term, w.vote)
      BY <1>6, <2>4
    <3>3. Precedes(b[1], b[3], w.term, w.vote)
      BY <1>1, <2>1, <3>1, <3>2, PrecedesChain, SMTT(30)
    <3>4. b[3] # Nil
      BY <2>1, NodeAssumption
    <3>5. disk'[i].term = w.term /\ disk'[i].vote = w.vote
      BY <1>6, <2>4
    <3>6. QED
      BY <2>4, <3>3, <3>4, <3>5 DEF Precedes
  <2>5. QED
    BY <2>3, <2>4
<1>11. QED
  BY <1>8, <1>9, <1>10 DEF CrashInv

\* Every step of a running node keeps what a restart relies on.
LEMMA RunDurable ==
    ASSUME TypeOK, TypeOK', WindowsSound, CrashInv, [Next]_vars
    PROVE  CrashInv'
<1>1. CASE \E w \in windows : SaveTermAndVote(w)
  BY <1>1, SaveDurable
<1>2. CASE \A w \in windows : ~SaveTermAndVote(w)
  <2>1. Moves /\ UNCHANGED <<disk, lost>> /\ TermsAndVotesStable
    BY <1>2, MovesStep, FilesStay, StableStep
  <2>2. WindowsAreBehind' /\ DiskIsBehind'
    BY <2>1, MovesDurable DEF CrashInv
  <2>3. \A b \in ballots' : b \in ballots \/ OnDisk(b)
    BY NewBallots DEF CrashInv
  <2>4. BallotsOnDisk'
    BY <2>1, <2>3 DEF CrashInv, BallotsOnDisk, OnDisk
  <2>5. QED
    BY <2>2, <2>4 DEF CrashInv
<1>3. QED
  BY <1>1, <1>2

\* What a crash leaves: the node comes back as a follower with what its file holds,
\* and the rest of the cluster does not notice.
Restarted(i) ==
    /\ UNCHANGED <<disk, ballots, elections, lost>>
    /\ windows' = {w \in windows : w.node # i}
    /\ msgs' \subseteq msgs
    /\ beats' = {b \in beats : b.node # i}
    /\ state'[i] = Follower /\ leaderID'[i] = Nil
    /\ currentTerm'[i] = disk[i].term /\ votedFor'[i] = disk[i].vote
    /\ \A j \in Node \ {i} :
          /\ state'[j] = state[j] /\ leaderID'[j] = leaderID[j] /\ votes'[j] = votes[j]
          /\ currentTerm'[j] = currentTerm[j] /\ votedFor'[j] = votedFor[j]

LEMMA CrashRestarts ==
    ASSUME TypeOK, NEW i \in Node, crash(i)
    PROVE  Restarted(i)
<1>1. /\ UNCHANGED <<disk, ballots, elections, lost>>
      /\ windows' = {w \in windows : w.node # i}
      /\ msgs' \subseteq msgs
      /\ beats' = {b \in beats : b.node # i}
  BY DEF crash, history
<1>2. /\ state'[i] = Follower /\ leaderID'[i] = Nil
      /\ currentTerm'[i] = disk[i].term /\ votedFor'[i] = disk[i].vote
  BY DEF crash, restartVote, TypeOK
<1>3. \A j \in Node \ {i} :
          /\ state'[j] = state[j] /\ leaderID'[j] = leaderID[j] /\ votes'[j] = votes[j]
          /\ currentTerm'[j] = currentTerm[j] /\ votedFor'[j] = votedFor[j]
  BY DEF crash, TypeOK
<1>4. QED
  BY <1>1, <1>2, <1>3 DEF Restarted

\* A restart loads what the file holds, and nothing that runs on relies on more.
LEMMA CrashDurable ==
    ASSUME TypeOK, ElectionInv, CrashInv, NEW i \in Node \ lost, Restarted(i)
    PROVE  ElectionInv' /\ CrashInv'
<1>1. \A w \in windows' : w \in windows /\ w.node \in Node \ {i}
  BY DEF TypeOK, Window, Restarted
<1>2. BallotsOnDisk' /\ ElectedByMajority' /\ GrantsAreBallots'
  BY DEF ElectionInv, CrashInv, BallotsOnDisk, ElectedByMajority, GrantsAreBallots, Restarted
<1>3. DiskIsBehind'
  BY DEF CrashInv, DiskIsBehind, Precedes, Restarted
<1>4. WindowsAreBehind'
  BY <1>1 DEF CrashInv, WindowsAreBehind, Restarted
<1>5. WindowsSound'
  BY <1>1 DEF ElectionInv, WindowsSound, Restarted
<1>6. CountedVotesAreBallots'
  BY DEF ElectionInv, CountedVotesAreBallots, Follower, Candidate, Restarted
<1>7. \A c \in Claims' : c \in Claims /\ (c[2] = i => c \in ballots)
  <2> SUFFICES ASSUME NEW c \in Claims' PROVE c \in Claims /\ (c[2] = i => c \in ballots)
    OBVIOUS
  <2>1. CASE c \in ballots
    BY <2>1 DEF Claims
  <2>2. CASE c \notin ballots
    <3>1. PICK w \in windows' : w.kind \in {"elect", "vote"} /\ c = <<w.term, w.node, w.from>>
      BY <2>2 DEF Claims, Restarted
    <3>2. c[2] # i
      BY <1>1, <3>1, SMTT(30)
    <3>3. QED
      BY <1>1, <3>1, <3>2, WindowClaim
  <2>3. QED
    BY <2>1, <2>2
<1>8. ClaimsAgree'
  BY <1>7 DEF ElectionInv, ClaimsAgree
<1>9. ClaimsAreRemembered'
  <2> SUFFICES ASSUME NEW c \in Claims'
               PROVE  \/ c[1] < currentTerm'[c[2]]
                      \/ c[1] = currentTerm'[c[2]] /\ c[3] = votedFor'[c[2]]
    BY DEF ClaimsAreRemembered
  <2>1. c \in Claims /\ c[2] \in Node
    BY <1>7, ClaimsType
  <2>2. CASE c[2] = i
    BY <1>7, <2>2 DEF CrashInv, BallotsOnDisk, Restarted
  <2>3. CASE c[2] # i
    BY <2>1, <2>3 DEF ElectionInv, ClaimsAreRemembered, Restarted
  <2>4. QED
    BY <2>2, <2>3
<1>10. QED
  BY <1>2, <1>3, <1>4, <1>5, <1>6, <1>8, <1>9 DEF ElectionInv, CrashInv

\* A restart names no leader.
LEMMA CrashLeaders ==
    ASSUME TypeOK, LeadersWereElected, NEW i \in Node, Restarted(i)
    PROVE  LeadersWereElected'
<1>1. \A b \in beats' : b \in beats /\ b.node \in Node \ {i}
  BY DEF TypeOK, Heartbeater, Restarted
<1>2. KnownLeaderWasElected'
  BY DEF LeadersWereElected, KnownLeaderWasElected, Restarted
<1>3. \A m \in msgs' : m.type = "AppendEntries" => Won(m.from, m.term)'
  BY DEF LeadersWereElected, Won, Restarted
<1>4. \A w \in windows' : w.kind = "append" => Won(w.from, w.req)'
  BY DEF LeadersWereElected, Won, Restarted
<1>5. \A b \in beats' : Won(b.node, currentTerm[b.node])'
  BY <1>1 DEF LeadersWereElected, Won, Restarted
<1>6. QED
  BY <1>2, <1>3, <1>4, <1>5 DEF LeadersWereElected

-----------------------------------------------------------------------------
\* What the messages and goroutines of the pre-vote phase know: a reply shows a term
\* that its sender has reached, and a startElection goroutine was spawned by a
\* majority of the votes of its round.
PreMessageSound(m) ==
    /\ m.from \in Node /\ m.to \in Node /\ m.from # m.to /\ m.round \in 1..timeouts
    /\ m.type = "request" => m.term \in Nat \ {0}
    /\ m.type = "reply" => /\ m.term \in Nat /\ m.req \in Nat \ {0}
                           /\ m.term <= currentTerm[m.from]

SpawnSound(s) == s.node \in Node /\ s.round \in 1..timeouts /\ IsQuorum(preVotes[s.round])

PreVoteInv ==
    /\ preVotes \in [Round -> SUBSET Node]
    /\ \A m \in preMsgs : PreMessageSound(m)
    /\ \A s \in starting : SpawnSound(s)

\* Every step of the pre-vote phase is a step of Election or changes nothing there.
LEMMA PreVoteStepIsElectionStep ==
    ASSUME TypeOK, PreVoteInv, [PreVoteNext]_pvVars
    PROVE  [Next]_vars
<1>1. ASSUME NEW i \in Node, StartPreVote(i) PROVE Next
  BY <1>1 DEF StartPreVote, Next
<1>2. ASSUME NEW m \in preMsgs, NEW recent, NEW upToDate, HandlePreVote(m, recent, upToDate)
      PROVE  UNCHANGED vars
  BY <1>2 DEF HandlePreVote
<1>3. ASSUME NEW m \in preMsgs, HandlePreVoteReply(m) PROVE [Next]_vars
  <2>1. CASE UNCHANGED vars
    BY <2>1
  <2>2. CASE m.term > m.req - 1 /\ preVoteStepDown(m.to, m.from, m.term)
    <3>1. m.type = "reply"
      BY <1>3 DEF HandlePreVoteReply
    <3>2. /\ m.from \in Node /\ m.to \in Node /\ m.term \in Nat /\ m.req \in Nat \ {0}
          /\ m.term <= currentTerm[m.from]
      BY <3>1 DEF PreVoteInv, PreMessageSound
    <3>3. m.term \in 1..currentTerm[m.from]
      <4>1. currentTerm[m.from] \in Nat
        BY <3>2 DEF TypeOK
      <4>2. m.req >= 1 /\ m.term > m.req - 1
        BY <2>2, <3>2, SMTT(30)
      <4>3. m.term >= 1
        BY <3>2, <4>2, SMTT(30)
      <4>4. QED
        BY <3>2, <4>1, <4>3, SMTT(30)
    <3>4. QED
      BY <2>2, <3>2, <3>3 DEF Next
  <2>3. QED
    BY <1>3, <2>1, <2>2 DEF HandlePreVoteReply
<1>4. ASSUME NEW s \in starting, StartElection(s) PROVE [Next]_vars
  <2>1. s.node \in Node
    BY DEF PreVoteInv, SpawnSound
  <2>2. QED
    BY <1>4, <2>1 DEF StartElection, Next
<1>5. CASE RealStep
  BY <1>5 DEF RealStep, Next
<1>6. CASE UNCHANGED pvVars
  BY <1>6 DEF pvVars
<1>7. QED
  BY <1>1, <1>2, <1>3, <1>4, <1>5, <1>6 DEF PreVoteNext

-----------------------------------------------------------------------------
\* Terms and the count of timeouts grow, so old messages and goroutines stay sound.
LEMMA OldStaysSound ==
    ASSUME QuorumsWork, TypeOK, TypeOK', TermsAndVotesStable, timeouts' >= timeouts,
           PreVoteInv, preVotes' \in [Round -> SUBSET Node],
           \A r \in 1..timeouts : preVotes[r] \subseteq preVotes'[r]
    PROVE  /\ \A m \in preMsgs : PreMessageSound(m)'
           /\ \A s \in starting : SpawnSound(s)'
<1>1. 1..timeouts \subseteq 1..timeouts'
  BY BoundAssumption, SMTT(30) DEF TypeOK
<1>2. ASSUME NEW m \in preMsgs PROVE PreMessageSound(m)'
  <2>1. PreMessageSound(m)
    BY DEF PreVoteInv
  <2>2. m.from \in Node /\ currentTerm'[m.from] >= currentTerm[m.from]
    BY <2>1 DEF PreMessageSound, TermsAndVotesStable
  <2>3. currentTerm'[m.from] \in Nat /\ currentTerm[m.from] \in Nat
    BY <2>2 DEF TypeOK
  <2>4. QED
    BY <1>1, <2>1, <2>2, <2>3, SMTT(30) DEF PreMessageSound
<1>3. ASSUME NEW s \in starting PROVE SpawnSound(s)'
  <2>1. SpawnSound(s)
    BY DEF PreVoteInv
  <2>2. s.round \in 1..timeouts /\ s.round \in Round
    BY <2>1, BoundAssumption, SMTT(30) DEF SpawnSound, TypeOK, Round
  <2>3. /\ preVotes[s.round] \in SUBSET Node /\ preVotes'[s.round] \in SUBSET Node
        /\ preVotes[s.round] \subseteq preVotes'[s.round]
    BY <2>2 DEF PreVoteInv
  <2>4. IsQuorum(preVotes'[s.round])
    BY <2>1, <2>3, QuorumGrows DEF SpawnSound
  <2>5. QED
    BY <1>1, <2>1, <2>4 DEF SpawnSound, IsQuorum, Majority
<1>4. QED
  BY <1>2, <1>3

\* Each step keeps the pre-vote phase sound.
LEMMA PreVoteInvStep ==
    ASSUME QuorumsWork, TypeOK, TypeOK', PreVoteInv, [PreVoteNext]_pvVars
    PROVE  PreVoteInv'
<1>1. TermsAndVotesStable
  BY PreVoteStepIsElectionStep, StableStep
<1>2. timeouts \in 0..MaxTimeouts /\ timeouts' \in 0..MaxTimeouts /\ MaxTimeouts \in Nat
  BY BoundAssumption DEF TypeOK
<1> DEFINE SpawnNext(s) == /\ s.node \in Node /\ s.round \in 1..timeouts'
                          /\ IsQuorum(preVotes'[s.round])
           MessageNext(m) ==
              /\ m.from \in Node /\ m.to \in Node /\ m.from # m.to /\ m.round \in 1..timeouts'
              /\ m.type = "request" => m.term \in Nat \ {0}
              /\ m.type = "reply" => /\ m.term \in Nat /\ m.req \in Nat \ {0}
                                     /\ m.term <= currentTerm'[m.from]
<1>a. \A s : SpawnNext(s) <=> SpawnSound(s)'
  BY DEF SpawnSound, IsQuorum, Majority
<1>b. \A m : MessageNext(m) <=> PreMessageSound(m)'
  BY DEF PreMessageSound
<1>3. ASSUME timeouts' = timeouts, UNCHANGED preVars PROVE PreVoteInv'
  <2>1. UNCHANGED <<preMsgs, preVotes, starting>>
    BY <1>3 DEF preVars
  <2>2. /\ \A m \in preMsgs : PreMessageSound(m)'
        /\ \A s \in starting : SpawnSound(s)'
    BY <1>1, <1>2, <1>3, <2>1, OldStaysSound, SMTT(30) DEF PreVoteInv
  <2>3. QED
    BY <2>1, <2>2 DEF PreVoteInv
<1>4. ASSUME NEW i \in Node, StartPreVote(i) PROVE PreVoteInv'
  <2> DEFINE round == timeouts + 1
  <2>1. timeouts' = round /\ round \in Round /\ UNCHANGED currentTerm
    BY <1>2, <1>4, SMTT(30) DEF StartPreVote, startPreVote, Round
  <2>2. /\ preVotes' \in [Round -> SUBSET Node] /\ preVotes'[round] = {i}
        /\ \A r \in 1..timeouts : preVotes'[r] = preVotes[r]
    BY <1>2, <1>4, <2>1, SMTT(30) DEF StartPreVote, PreVoteInv, Round
  <2>3. /\ \A m \in preMsgs : PreMessageSound(m)'
        /\ \A s \in starting : SpawnSound(s)'
    BY <1>1, <1>2, <2>1, <2>2, OldStaysSound, SMTT(30)
  <2>4. round \in 1..timeouts'
    BY <1>2, <2>1, SMTT(30)
  <2>5. CASE /\ ownVoteSuffices
             /\ starting' = starting \cup {[node |-> i, round |-> round]}
             /\ UNCHANGED preMsgs
    <3> DEFINE s == [node |-> i, round |-> round]
    <3>1. IsQuorum({i})
      BY <2>5 DEF ownVoteSuffices, QuorumsWork
    <3>2. IsQuorum(preVotes'[round])
      BY <2>2, <3>1
    <3>3. SpawnNext(s)
      BY <2>4, <3>2
    <3>4. starting' = starting \cup {s}
      BY <2>5
    <3> HIDE DEF s, SpawnNext
    <3>5. \A t \in starting' : SpawnSound(t)'
      BY <1>a, <2>3, <3>3, <3>4
    <3>6. QED
      BY <2>2, <2>3, <2>5, <3>5 DEF PreVoteInv
  <2>6. CASE /\ preMsgs' = preMsgs \cup
                  {[type |-> "request", from |-> i, to |-> j, term |-> nextTerm(i),
                    round |-> round] : j \in Node \ {i}}
             /\ UNCHANGED starting
    <3> DEFINE req(j) == [type |-> "request", from |-> i, to |-> j, term |-> nextTerm(i),
                          round |-> round]
    <3>1. nextTerm(i) \in Nat \ {0}
      BY SMTT(30) DEF nextTerm, TypeOK
    <3>2. ASSUME NEW j \in Node \ {i} PROVE MessageNext(req(j))
      BY <2>4, <3>1
    <3>3. \A m \in preMsgs' : m \in preMsgs \/ \E j \in Node \ {i} : m = req(j)
      BY <2>6
    <3> HIDE DEF req, MessageNext
    <3>4. \A m \in preMsgs' : PreMessageSound(m)'
      BY <1>b, <2>3, <3>2, <3>3
    <3>5. QED
      BY <2>2, <2>3, <2>6, <3>4 DEF PreVoteInv
  <2>7. QED
    BY <1>4, <2>5, <2>6 DEF StartPreVote
<1>5. ASSUME NEW m \in preMsgs, NEW recent, NEW upToDate, HandlePreVote(m, recent, upToDate)
      PROVE  PreVoteInv'
  <2> DEFINE ignore == fatal[m.to] \/ m.term < currentTerm[m.to] \/ isLeaderAlive(m.to, recent)
             r == [type |-> "reply", from |-> m.to, to |-> m.from, term |-> currentTerm[m.to],
                   req |-> m.term, round |-> m.round, granted |-> ~ignore /\ upToDate]
  <2>1. preMsgs' \subseteq preMsgs \cup {r} /\ UNCHANGED <<vars, preVotes, starting>>
    BY <1>5 DEF HandlePreVote
  <2>2. timeouts' = timeouts /\ currentTerm' = currentTerm
    BY <2>1 DEF vars, nodeVars, bounds
  <2>3. /\ \A p \in preMsgs : PreMessageSound(p)'
        /\ \A s \in starting : SpawnSound(s)'
    BY <1>1, <1>2, <2>1, <2>2, OldStaysSound, SMTT(30) DEF PreVoteInv
  <2>4. m.type = "request" /\ PreMessageSound(m)
    BY <1>5 DEF HandlePreVote, PreVoteInv
  <2>5. /\ m.from \in Node /\ m.to \in Node /\ m.from # m.to /\ m.round \in 1..timeouts
        /\ m.term \in Nat \ {0} /\ currentTerm[m.to] \in Nat
    BY <2>4 DEF PreMessageSound, TypeOK
  <2>6. MessageNext(r)
    <3>1. /\ r.type = "reply" /\ r.from = m.to /\ r.to = m.from /\ r.round = m.round
          /\ r.term = currentTerm[m.to] /\ r.req = m.term
      OBVIOUS
    <3> HIDE DEF r
    <3>2. QED
      BY <2>2, <2>5, <3>1, SMTT(30)
  <2> HIDE DEF r, MessageNext
  <2>7. \A p \in preMsgs' : PreMessageSound(p)'
    BY <1>b, <2>1, <2>3, <2>6
  <2>8. QED
    BY <2>1, <2>3, <2>7 DEF PreVoteInv
<1>6. ASSUME NEW m \in preMsgs, HandlePreVoteReply(m) PROVE PreVoteInv'
  <2>1. /\ PreMessageSound(m) /\ preMsgs' \subseteq preMsgs /\ timeouts' = timeouts
    BY <1>6 DEF HandlePreVoteReply, PreVoteInv, preVoteStepDown, vars, bounds
  <2>2. m.from \in Node /\ m.to \in Node /\ m.round \in 1..timeouts /\ m.round \in Round
    BY <1>2, <2>1, SMTT(30) DEF PreMessageSound, Round
  <2>3. CASE UNCHANGED <<preVotes, starting>>
    <3>1. /\ \A p \in preMsgs : PreMessageSound(p)'
          /\ \A s \in starting : SpawnSound(s)'
      BY <1>1, <1>2, <2>1, <2>3, OldStaysSound, SMTT(30) DEF PreVoteInv
    <3>2. QED
      BY <2>1, <2>3, <3>1 DEF PreVoteInv
  <2>4. CASE /\ preVotes' = [preVotes EXCEPT ![m.round] = @ \cup {m.from}]
             /\ starting' = IF preVoteSucceeds(m)
                            THEN starting \cup {[node |-> m.to, round |-> m.round]}
                            ELSE starting
    <3> DEFINE s == [node |-> m.to, round |-> m.round]
    <3>1. /\ preVotes' \in [Round -> SUBSET Node]
          /\ preVotes'[m.round] = preVotes[m.round] \cup {m.from}
          /\ \A r \in Round : preVotes[r] \subseteq preVotes'[r]
      BY <2>2, <2>4 DEF PreVoteInv
    <3>2. \A r \in 1..timeouts : preVotes[r] \subseteq preVotes'[r]
      BY <1>2, <3>1, SMTT(30) DEF Round
    <3>3. /\ \A p \in preMsgs : PreMessageSound(p)'
          /\ \A t \in starting : SpawnSound(t)'
      BY <1>1, <1>2, <2>1, <3>1, <3>2, OldStaysSound, SMTT(30)
    <3>4. ASSUME preVoteSucceeds(m) PROVE SpawnNext(s)
      <4>1. IsQuorum(preVotes'[m.round])
        BY <3>1, <3>4 DEF preVoteSucceeds
      <4>2. QED
        BY <2>1, <2>2, <4>1
    <3>5. starting' \subseteq starting \cup {s} /\ (~preVoteSucceeds(m) => starting' = starting)
      BY <2>4
    <3> HIDE DEF s, SpawnNext
    <3>6. \A t \in starting' : SpawnSound(t)'
      BY <1>a, <3>3, <3>4, <3>5
    <3>7. QED
      BY <2>1, <3>1, <3>3, <3>6 DEF PreVoteInv
  <2>5. QED
    BY <1>6, <2>3, <2>4 DEF HandlePreVoteReply
<1>7. ASSUME NEW s \in starting, StartElection(s) PROVE PreVoteInv'
  <2>1. starting' \subseteq starting /\ UNCHANGED <<preMsgs, preVotes>> /\ timeouts' = timeouts
    BY <1>7 DEF StartElection, startElection, vars, bounds
  <2>2. /\ \A p \in preMsgs : PreMessageSound(p)'
        /\ \A t \in starting : SpawnSound(t)'
    BY <1>1, <1>2, <2>1, OldStaysSound, SMTT(30) DEF PreVoteInv
  <2>3. QED
    BY <2>1, <2>2 DEF PreVoteInv
<1>8. CASE RealStep
  <2>1. timeouts' = timeouts
    BY <1>8 DEF RealStep, SaveTermAndVote, resumeElection, resumeAfterStepDown, resumeVote,
                resumeAppend, handleRequestVote, handleVoteReply, processAppendEntries,
                handleAppendReply, sendHeartbeatOnce, sendHeartbeats, bounds
  <2>2. QED
    BY <1>3, <1>8, <2>1 DEF RealStep
<1>9. CASE UNCHANGED pvVars
  BY <1>3, <1>9 DEF pvVars, vars, bounds
<1>10. QED
  BY <1>4, <1>5, <1>6, <1>7, <1>8, <1>9 DEF PreVoteNext

-----------------------------------------------------------------------------
(* Facts about finite sets, for the majorities.                            *)
INSTANCE FiniteSetTheorems

\* Two majorities of the cluster configuration share a node, because
\* ClusterConfig.Majority is Size/2 + 1.
LEMMA QuorumsIntersect ==
    ASSUME NEW S \in SUBSET Node, NEW T \in SUBSET Node, IsQuorum(S), IsQuorum(T)
    PROVE  S \cap T # {}
<1>1. /\ Cardinality(Node) \in Nat
      /\ Cardinality(S) \in Nat
      /\ Cardinality(T) \in Nat
  BY NodeAssumption, FS_CardinalityType, FS_Subset
<1>2. Cardinality(S) + Cardinality(T) > Cardinality(Node)
  <2> DEFINE n == Cardinality(Node)
  <2>1. 2 * ((n \div 2) + 1) > n
    BY <1>1, SMTT(30)
  <2>2. QED
    BY <1>1, <2>1, SMTT(30) DEF IsQuorum, Majority
<1>3. QED
  BY <1>2, NodeAssumption, FS_MajoritiesIntersect


\* The majorities of ClusterConfig are what elections need.
LEMMA QuorumsHold == QuorumsWork
<1>1. ASSUME NEW S \in SUBSET Node, NEW T \in SUBSET Node, S \subseteq T, IsQuorum(S)
      PROVE  IsQuorum(T)
  <2>1. IsFiniteSet(T) /\ IsFiniteSet(Node)
    BY NodeAssumption, FS_Subset
  <2>2. Cardinality(S) <= Cardinality(T)
    BY <1>1, <2>1, FS_Subset
  <2>3. Cardinality(S) \in Nat /\ Cardinality(T) \in Nat /\ Cardinality(Node) \in Nat
    BY <1>1, <2>1, FS_Subset, FS_CardinalityType
  <2>4. QED
    BY <1>1, <2>2, <2>3, SMTT(30) DEF IsQuorum, Majority
<1>2. ASSUME NEW i \in Node, Majority <= 1 PROVE IsQuorum({i})
  <2>1. Cardinality({i}) = 1 /\ Cardinality(Node) \in Nat
    BY NodeAssumption, FS_Singleton, FS_CardinalityType
  <2>2. QED
    BY <1>2, <2>1 DEF IsQuorum, Majority
<1>3. QED
  BY <1>1, <1>2, QuorumsIntersect DEF QuorumsWork

-----------------------------------------------------------------------------
\* The steps of a running cluster keep the invariant of the election.
LEMMA ElectionInvStep ==
    ASSUME TypeOK, TypeOK', ElectionInv, [Next]_vars
    PROVE  ElectionInv'
<1>1. TermsAndVotesStable
  BY StableStep
<1>2. ClaimsAreRemembered' /\ ClaimsAgree'
  BY <1>1, ClaimsAreFresh, ClaimsInvariant DEF ElectionInv
<1>3. WindowsSound'
  BY <1>1, WindowsStep DEF ElectionInv
<1>4. GrantsAreBallots'
  BY GrantsStep DEF ElectionInv
<1>5. CountedVotesAreBallots'
  BY CountedStep DEF ElectionInv
<1>6. ElectedByMajority'
  BY QuorumsHold, ElectedStep DEF ElectionInv
<1>7. QED
  BY <1>2, <1>3, <1>4, <1>5, <1>6 DEF ElectionInv

\* The inductive invariant holds in every state, of a cluster whose processes die
\* and restart as well: a vote that was given away is in the file before the reply
\* leaves, so that newPersistentState brings it back.
THEOREM ElectionInvariant == CrashSpec => [](TypeOK /\ ElectionInv /\ CrashInv)
<1>1. Init => ElectionInv
  BY DEF Init, ElectionInv, ClaimsAreRemembered, ClaimsAgree, Claims, WindowsSound,
         GrantsAreBallots, CountedVotesAreBallots, ElectedByMajority
<1>2. Init => CrashInv
  BY SMTT(30) DEF Init, CrashInv, BallotsOnDisk, DiskIsBehind, WindowsAreBehind, Precedes
<1>3. TypeOK /\ TypeOK' /\ ElectionInv /\ CrashInv /\ [CrashNext]_vars
      => ElectionInv' /\ CrashInv'
  <2> SUFFICES ASSUME TypeOK, TypeOK', ElectionInv, CrashInv, [CrashNext]_vars
               PROVE  ElectionInv' /\ CrashInv'
    OBVIOUS
  <2>1. CASE [Next]_vars
    BY <2>1, ElectionInvStep, RunDurable DEF ElectionInv
  <2>2. CASE \E i \in Node \ lost : crash(i)
    BY <2>2, CrashRestarts, CrashDurable
  <2>3. QED
    BY <2>1, <2>2 DEF CrashNext
<1>4. QED
  BY <1>1, <1>2, <1>3, TypeCorrect, PTL DEF CrashSpec

\* At most one node wins the election of a term: two majorities of ballots would
\* share a voter, whose two ballots of that term agree.
THEOREM ElectionIsSafe == CrashSpec => []ElectionSafety
<1>1. TypeOK /\ ElectionInv => ElectionSafety
  <2> SUFFICES ASSUME TypeOK, ElectionInv, NEW e \in elections, NEW f \in elections,
                      e[1] = f[1]
               PROVE  e[2] = f[2]
    BY DEF ElectionSafety
  <2> DEFINE V(x) == {v \in Node : <<x[1], v, x[2]>> \in ballots}
  <2>1. IsQuorum(V(e)) /\ IsQuorum(V(f))
    BY DEF ElectionInv, ElectedByMajority
  <2>2. V(e) \cap V(f) # {}
    BY <2>1, QuorumsIntersect
  <2>3. PICK v \in Node : <<e[1], v, e[2]>> \in ballots /\ <<f[1], v, f[2]>> \in ballots
    BY <2>2
  <2>4. <<e[1], v, e[2]>> \in Claims /\ <<f[1], v, f[2]>> \in Claims
    BY <2>3 DEF Claims
  <2>5. QED
    BY <2>4 DEF ElectionInv, ClaimsAgree
<1>2. QED
  BY <1>1, ElectionInvariant, PTL

\* A node votes once in a term, over all its restarts: it has no memory of a vote
\* but what SaveTermAndVote has written.
THEOREM VotesSurviveCrashes == CrashSpec => []OneVotePerTerm
<1>1. ElectionInv => OneVotePerTerm
  BY DEF ElectionInv, ClaimsAgree, Claims, OneVotePerTerm
<1>2. QED
  BY <1>1, ElectionInvariant, PTL

\* When an election is won, a majority has reached its term: the voters have,
\* and terms never go back.
THEOREM ElectedTermIsReached == CrashSpec => []ElectedTermReachesMajority
<1>1. TypeOK /\ ElectionInv => ElectedTermReachesMajority
  <2> SUFFICES ASSUME TypeOK, ElectionInv, NEW e \in elections
               PROVE  IsQuorum({v \in Node : currentTerm[v] >= e[1]})
    BY DEF ElectedTermReachesMajority
  <2> DEFINE V == {v \in Node : <<e[1], v, e[2]>> \in ballots}
             R == {v \in Node : currentTerm[v] >= e[1]}
  <2>1. IsQuorum(V)
    BY DEF ElectionInv, ElectedByMajority
  <2>2. ASSUME NEW v \in V PROVE v \in R
    <3>1. <<e[1], v, e[2]>> \in Claims
      BY <2>2 DEF Claims
    <3>2. e[1] < currentTerm[v] \/ e[1] = currentTerm[v]
      BY <3>1 DEF ElectionInv, ClaimsAreRemembered
    <3>3. e[1] \in Nat /\ currentTerm[v] \in Nat
      BY DEF TypeOK
    <3>4. QED
      BY <3>2, <3>3, SMTT(30)
  <2>3. V \subseteq R
    BY <2>2
  <2>4. QED
    BY <2>1, <2>3, QuorumGrows, QuorumsHold
<1>2. QED
  BY <1>1, ElectionInvariant, PTL

\* The leader that a node names to its clients has won an election of a term that
\* the node has reached, although sendHeartbeatOnce reads the term after the role
\* was checked, and processAppendEntries goes on without looking at the term again.
THEOREM KnownLeaderIsElected == CrashSpec => []KnownLeaderWasElected
<1>1. Init => LeadersWereElected
  BY DEF Init, LeadersWereElected, KnownLeaderWasElected
<1>2. /\ TypeOK /\ TypeOK' /\ ElectionInv /\ LeadersWereElected /\ [CrashNext]_vars
      => LeadersWereElected'
  <2> SUFFICES ASSUME TypeOK, TypeOK', ElectionInv, LeadersWereElected, [CrashNext]_vars
               PROVE  LeadersWereElected'
    OBVIOUS
  <2>1. CASE [Next]_vars
    BY <2>1, StableStep, HistoryGrows, NewLeaderIDStep, NewHeartbeatsStep, NewHandlersStep,
       NewBeatsStep, LeadersStep DEF ElectionInv
  <2>2. CASE \E i \in Node \ lost : crash(i)
    BY <2>2, CrashRestarts, CrashLeaders
  <2>3. QED
    BY <2>1, <2>2 DEF CrashNext
<1>3. LeadersWereElected => KnownLeaderWasElected
  BY DEF LeadersWereElected
<1>4. QED
  BY <1>1, <1>2, <1>3, ElectionInvariant, PTL DEF CrashSpec

-----------------------------------------------------------------------------
\* The invariant of the pre-vote phase.
THEOREM PreVoteInvariant == PreVoteSpec => [](TypeOK /\ PreVoteInv)
<1>1. PreVoteInit => TypeOK
  BY NodeAssumption, BoundAssumption, SMTT(30) DEF PreVoteInit, Init, TypeOK, Role, Follower, Vote
<1>2. PreVoteInit => PreVoteInv
  BY DEF PreVoteInit, PreVoteInv
<1>3. TypeOK /\ PreVoteInv /\ [PreVoteNext]_pvVars => TypeOK' /\ PreVoteInv'
  BY PreVoteStepIsElectionStep, TypeStep, PreVoteInvStep, QuorumsHold
<1>4. QED
  BY <1>1, <1>2, <1>3, PTL DEF PreVoteSpec

\* The pre-vote RPCs implement the abstract pre-vote phase, so everything that is
\* proved about Spec of Election holds of the code with pre-votes.
THEOREM PreVoteRefinesElection == PreVoteSpec => ImplementsElection
<1>1. PreVoteInit => Init
  BY DEF PreVoteInit
<1>2. TypeOK /\ PreVoteInv /\ [PreVoteNext]_pvVars => [Next]_vars
  BY PreVoteStepIsElectionStep
<1>3. QED
  BY <1>1, <1>2, PreVoteInvariant, PTL DEF PreVoteSpec, ImplementsElection, Spec

-----------------------------------------------------------------------------
\* What a step may do to a term when an election starts.
StartsWithPreVotes ==
    \A i \in Node : started' > started /\ currentTerm'[i] > currentTerm[i]
        => \E s \in starting : s.node = i /\ IsQuorum(preVotes[s.round])

\* A node raises its term for an election only after a majority, itself included,
\* has granted it a pre-vote.
THEOREM ElectionsHavePreVotes == PreVoteSpec => ElectionNeedsPreVotes
<1>1. TypeOK /\ PreVoteInv /\ [PreVoteNext]_pvVars => [StartsWithPreVotes]_pvVars
  <2> SUFFICES ASSUME TypeOK, PreVoteInv, PreVoteNext, NEW i \in Node,
                      started' > started, currentTerm'[i] > currentTerm[i]
               PROVE  \E s \in starting : s.node = i /\ IsQuorum(preVotes[s.round])
    BY DEF StartsWithPreVotes
  <2>1. started \in Nat /\ currentTerm[i] \in Nat
    BY SMTT(30) DEF TypeOK
  <2>2. started' # started /\ currentTerm'[i] # currentTerm[i]
    BY <2>1, SMTT(30)
  <2>3. ASSUME NEW s \in starting, StartElection(s)
        PROVE  s.node = i /\ IsQuorum(preVotes[s.round])
    <3>1. s.node \in Node /\ IsQuorum(preVotes[s.round])
      BY DEF PreVoteInv, SpawnSound
    <3>2. startElection(s.node)
      BY <2>2, <2>3 DEF StartElection, vars, bounds
    <3>3. \A j \in Node \ {s.node} : currentTerm'[j] = currentTerm[j]
      BY <3>1, <3>2 DEF startElection, TypeOK
    <3>4. QED
      BY <2>2, <3>1, <3>3
  <2>4. ~ \E j \in Node : StartPreVote(j)
    BY <2>2 DEF StartPreVote, startPreVote
  <2>5. ~ \E m \in preMsgs, recent, upToDate \in BOOLEAN : HandlePreVote(m, recent, upToDate)
    BY <2>2 DEF HandlePreVote, vars, bounds
  <2>6. ~ \E m \in preMsgs : HandlePreVoteReply(m)
    BY <2>2 DEF HandlePreVoteReply, preVoteStepDown, vars, bounds
  <2>7. ~ RealStep
    BY <2>2 DEF RealStep, SaveTermAndVote, resumeElection, resumeAfterStepDown, resumeVote,
                resumeAppend, handleRequestVote, handleVoteReply, processAppendEntries,
                handleAppendReply, sendHeartbeatOnce, sendHeartbeats, bounds
  <2>8. QED
    BY <2>3, <2>4, <2>5, <2>6, <2>7 DEF PreVoteNext
<1>2. QED
  BY <1>1, PreVoteInvariant, PTL DEF PreVoteSpec, ElectionNeedsPreVotes, StartsWithPreVotes
=============================================================================
