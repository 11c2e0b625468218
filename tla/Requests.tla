------------------------------ MODULE Requests ------------------------------
(***************************************************************************)
(* Requests on their way through the servers: the handlers of              *)
(* kv_handler.go with their forwarding, Propose, batchLoop and the waiters *)
(* of raft.go, and ReadIndex and waitForApply of replication.go.           *)
(*                                                                         *)
(* Below them stands Raft as the modules Election, Replication and         *)
(* Snapshot describe it, with coarser steps: elect is a whole election,    *)
(* replicate a whole exchange of replicateTo.  Terms change, leaders are   *)
(* deposed without knowing it, and logs diverge as they do there.          *)
(*                                                                         *)
(* stepDown is two steps.  It changes the role and releases r.mu for its   *)
(* save; only then does it tell the waiters.  In between the node takes    *)
(* the entries of the new leader and applies them, and applyEntriesLoop    *)
(* tells a waiter of the entry at its index, whosever it is.  What the     *)
(* handler of the message does after its stepDown is left to a later       *)
(* message of the same leader.  A follower on which no request waits       *)
(* applies what it learns to be committed in the same step: no request     *)
(* looks at its state before it leads and has applied its noop.            *)
(*                                                                         *)
(* A request is the record handler[id] of its handler; a forwarded request *)
(* moves with it to the next node.  The command that a write proposes is   *)
(* its id.  What a read returns is the set of the commands that its node   *)
(* has applied.  A handler runs on when its caller has stopped waiting:    *)
(* Propose has no timeout.  The state machine accepts every command, and   *)
(* storage does not fail here.                                             *)
(***************************************************************************)
EXTENDS Integers, Sequences, FiniteSets, FiniteSetsExt

CONSTANTS Node,         \* the servers
          Nil,          \* no node
          Noop,         \* the command of the entry that a new leader appends
          Request,      \* the ids of requests
          ProposeSlots, \* the capacity of proposeCh
          MaxTerm       \* bound on terms

ASSUME RequestsAssumption ==
    /\ Nil \notin Node /\ Noop \notin Request
    /\ ProposeSlots \in Nat \ {0} /\ MaxTerm \in Nat \ {0}

VARIABLES currentTerm, state, leaderID, log, commitIndex, lastApplied, noopCommitted,
          telling,  \* how many stepDowns of each node have not yet told the waiters
          flush,    \* batchLoop of each node: the batch that is being flushed
          handler,  \* the handler of each request
          late      \* history: the requests whose waiters were told of an applied entry by
                    \* a node that no longer led

raftVars == <<currentTerm, state, leaderID, log, commitIndex, lastApplied, noopCommitted, telling>>
requestVars == <<raftVars, flush, handler, late>>

-----------------------------------------------------------------------------
Majority(S) == 2 * Cardinality(S) > Cardinality(Node)
Commands(n, k) == {log[n][i].cmd : i \in 1..k}
Applied(n) == Commands(n, lastApplied[n])

\* A request waits on n for what n applies.
Watched(n) == \E id \in Request : /\ handler[id].node = n
                                  /\ handler[id].pc \in {"waiter", "told", "confirm", "waitForApply"}
LastTerm(n) == IF log[n] = <<>> THEN 0 ELSE log[n][Len(log[n])].term

NoHandler == [pc |-> "none", kind |-> "write", node |-> Nil, awaited |-> TRUE, forwarded |-> FALSE,
              index |-> 0, term |-> 0, yes |-> {}, no |-> {}, code |-> "OK", seen |-> {}]
NoFlush == [pc |-> "idle", batch |-> <<>>, index |-> 0, term |-> 0]

\* A handler answers its caller, if that still waits.
reply(h, code) ==
    IF h.awaited THEN [NoHandler EXCEPT !.pc = "replied", !.kind = h.kind, !.code = code,
                                        !.seen = h.seen]
    ELSE NoHandler

\* stepDown of the nodes in S, to the save: the waiters are still registered.
stepDown(S) ==
    /\ noopCommitted' = [n \in Node |-> IF n \in S THEN FALSE ELSE noopCommitted[n]]
    /\ telling' = [n \in Node |-> IF n \in S THEN telling[n] + 1 ELSE telling[n]]

\* The end of stepDown, after the save: every waiter is told ErrNotLeader.
tellWaiters(n) ==
    /\ telling[n] > 0
    /\ telling' = [telling EXCEPT ![n] = @ - 1]
    /\ handler' = [id \in Request |->
                     IF handler[id].pc = "waiter" /\ handler[id].node = n
                     THEN reply(handler[id], "FailedPrecondition") ELSE handler[id]]
    /\ UNCHANGED <<currentTerm, state, leaderID, log, commitIndex, lastApplied, noopCommitted,
                   flush, late>>

InitRequests ==
    /\ \E l \in Node :
          /\ state = [n \in Node |-> IF n = l THEN "Leader" ELSE "Follower"]
          /\ leaderID = [n \in Node |-> IF n = l THEN l ELSE Nil]
          /\ log = [n \in Node |-> IF n = l THEN <<[term |-> 1, cmd |-> Noop]>> ELSE <<>>]
    /\ currentTerm = [n \in Node |-> 1]
    /\ commitIndex = [n \in Node |-> 0] /\ lastApplied = [n \in Node |-> 0]
    /\ noopCommitted = [n \in Node |-> FALSE] /\ telling = [n \in Node |-> 0]
    /\ flush = [n \in Node |-> NoFlush]
    /\ handler = [id \in Request |-> NoHandler] /\ late = {}

-----------------------------------------------------------------------------
\* Node n wins an election with the votes of Q.
elect(n, Q) ==
    LET term == currentTerm[n] + 1
    IN  /\ state[n] # "Leader" /\ term <= MaxTerm
        /\ n \in Q /\ Majority(Q)
        /\ \A q \in Q \ {n} :
              /\ currentTerm[q] < term /\ state[q] # "Leader"
              /\ \/ LastTerm(n) > LastTerm(q)
                 \/ LastTerm(n) = LastTerm(q) /\ Len(log[n]) >= Len(log[q])
        /\ currentTerm' = [q \in Node |-> IF q \in Q THEN term ELSE currentTerm[q]]
        /\ state' = [q \in Node |-> IF q = n THEN "Leader"
                                    ELSE IF q \in Q THEN "Follower" ELSE state[q]]
        /\ leaderID' = [q \in Node |-> IF q = n THEN n ELSE IF q \in Q THEN Nil ELSE leaderID[q]]
        /\ log' = [log EXCEPT ![n] = @ \o <<[term |-> term, cmd |-> Noop]>>]
        /\ stepDown(Q \ {n})
        /\ UNCHANGED <<commitIndex, lastApplied, flush, handler, late>>

\* A message or an answer of this term makes n a follower.
mustFollow(n, term) == term > currentTerm[n] \/ (term = currentTerm[n] /\ state[n] # "Follower")

\* n hears of the term in a message of a leader, or in the answer to its own.
hear(n, term) ==
    /\ currentTerm' = [currentTerm EXCEPT ![n] = term]
    /\ state' = [state EXCEPT ![n] = "Follower"]
    /\ leaderID' = [leaderID EXCEPT ![n] = Nil]
    /\ stepDown({n})
    /\ UNCHANGED <<log, commitIndex, lastApplied, flush, handler, late>>

\* replicateTo of leader l: n takes its log, and l commits what a majority holds.
replicate(l, n) ==
    LET merged == IF Len(log[n]) >= Len(log[l]) /\ SubSeq(log[n], 1, Len(log[l])) = log[l]
                  THEN log[n] ELSE log[l]
        holding(k) == {l, n} \cup {q \in Node : Len(log[q]) >= k /\ SubSeq(log[q], 1, k)
                                                                  = SubSeq(log[l], 1, k)}
        stored == {k \in 1..Len(log[l]) : log[l][k].term = currentTerm[l] /\ Majority(holding(k))}
    IN  /\ state[l] = "Leader" /\ n # l
        /\ IF currentTerm[n] > currentTerm[l] THEN hear(l, currentTerm[n])
           ELSE IF mustFollow(n, currentTerm[l]) THEN hear(n, currentTerm[l])
           ELSE /\ leaderID' = [leaderID EXCEPT ![n] = l]
                /\ log' = [log EXCEPT ![n] = merged]
                /\ commitIndex' = [commitIndex EXCEPT ![n] = Max({@, commitIndex[l]}),
                                                      ![l] = Max({@} \cup stored)]
                /\ lastApplied' = [lastApplied EXCEPT ![n] = IF Watched(n) THEN @
                                                             ELSE commitIndex'[n]]
                /\ UNCHANGED <<currentTerm, state, noopCommitted, telling, flush, handler, late>>

-----------------------------------------------------------------------------
\* applyEntriesLoop looks for the waiter of the entry it has applied.
wakes(h, n, k) == h.pc = "waiter" /\ h.node = n /\ h.index = k

\* Propose returns.  Incr and Decr go on to read the value, the others answer.
told(h) == IF h.kind = "incr" THEN [h EXCEPT !.pc = "told", !.index = 0] ELSE reply(h, "OK")

\* applyEntriesLoop: the next entry is applied, and its waiter is told.
apply(n) ==
    LET k == lastApplied[n] + 1
    IN  /\ commitIndex[n] > lastApplied[n]
        /\ lastApplied' = [lastApplied EXCEPT ![n] = k]
        /\ noopCommitted' = [noopCommitted EXCEPT
              ![n] = @ \/ (log[n][k].cmd = Noop /\ state[n] = "Leader"
                                               /\ log[n][k].term = currentTerm[n])]
        /\ handler' = [id \in Request |-> IF wakes(handler[id], n, k)
                                          THEN told(handler[id]) ELSE handler[id]]
        /\ late' = late \cup {id \in Request : state[n] # "Leader" /\ wakes(handler[id], n, k)}
        /\ UNCHANGED <<currentTerm, state, leaderID, log, commitIndex, telling, flush>>

-----------------------------------------------------------------------------
\* LeaderAddr
LeaderAddr(n) == IF state[n] = "Leader" THEN Nil ELSE leaderID[n]

\* forwardWrite and getLeaderClient
forwardWrite(h) ==
    IF LeaderAddr(h.node) = Nil THEN reply(h, "FailedPrecondition")
    ELSE IF ~h.awaited THEN NoHandler
    ELSE [h EXCEPT !.node = LeaderAddr(h.node)]

\* forwardRead, at most once.
forwardRead(h) ==
    IF h.forwarded \/ LeaderAddr(h.node) = Nil THEN reply(h, "Unavailable")
    ELSE [h EXCEPT !.node = LeaderAddr(h.node), !.forwarded = TRUE,
                   !.pc = "start", !.yes = {}, !.no = {}, !.index = 0, !.term = 0]

\* Only the handler of request id moves.
step(id, h) == handler' = [handler EXCEPT ![id] = h] /\ UNCHANGED <<raftVars, flush, late>>

\* The write handlers: Set, Delete, Incr, HSet, LPush, LPop, ...
handleWrite(id) ==
    LET h == handler[id]
    IN  /\ h.pc = "start" /\ h.kind # "read"
        /\ step(id, IF state[h.node] # "Leader" THEN forwardWrite(h)
                    ELSE [h EXCEPT !.pc = IF h.kind = "pop" THEN "ReadIndex" ELSE "Propose"])

\* Propose: the check, and the place in proposeCh.
Propose(id) ==
    LET h == handler[id]
        queued == {r \in Request : handler[r].pc = "queued" /\ handler[r].node = h.node}
    IN  /\ h.pc = "Propose"
        /\ step(id, IF state[h.node] # "Leader" THEN reply(h, "FailedPrecondition")
                    ELSE IF Cardinality(queued) >= ProposeSlots THEN reply(h, "ResourceExhausted")
                    ELSE [h EXCEPT !.pc = "queued"])

\* Incr and Decr read the value that their node has now; it may have gone.
proposed(id) ==
    LET h == handler[id]
    IN  /\ h.pc = "told"
        /\ \E code \in {"OK", "NotFound"} : step(id, reply([h EXCEPT !.seen = Applied(h.node)], code))

-----------------------------------------------------------------------------
\* Every member of batch b answers code.
fail(b, code) ==
    handler' = [id \in Request |-> IF \E k \in DOMAIN b : b[k] = id
                                   THEN reply(handler[id], code) ELSE handler[id]]

\* flush of batchLoop, up to the release of r.mu.
flushBuild(n, b) ==
    /\ flush[n].pc = "idle" /\ b # <<>>
    /\ \A k \in DOMAIN b : handler[b[k]].pc = "queued" /\ handler[b[k]].node = n
    /\ IF state[n] # "Leader" THEN fail(b, "FailedPrecondition") /\ UNCHANGED flush
       ELSE /\ flush' = [flush EXCEPT ![n] = [pc |-> "append", batch |-> b,
                                              index |-> Len(log[n]) + 1, term |-> currentTerm[n]]]
            /\ handler' = [id \in Request |-> IF \E k \in DOMAIN b : b[k] = id
                                              THEN [handler[id] EXCEPT !.pc = "batch"]
                                              ELSE handler[id]]
    /\ UNCHANGED <<raftVars, late>>

\* log.Append without r.mu: it refuses entries that do not continue the log.
flushAppend(n) ==
    LET f == flush[n]
        fits == f.index = Len(log[n]) + 1
    IN  /\ f.pc = "append"
        /\ log' = [log EXCEPT ![n] = IF fits THEN @ \o [k \in DOMAIN f.batch |->
                                                     [term |-> f.term, cmd |-> f.batch[k]]]
                                     ELSE @]
        /\ flush' = [flush EXCEPT ![n].pc = IF fits THEN "appended" ELSE "refused"]
        /\ UNCHANGED <<currentTerm, state, leaderID, commitIndex, lastApplied, noopCommitted, telling,
                       handler, late>>

\* A wrong end of flush: the waiters are told that the entries are in the log.
registeredDone(h, k) == told(h)

\* The waiter of index k; one that nobody waits for is left out.
registered(h, k) == IF h.awaited THEN [h EXCEPT !.pc = "waiter", !.index = k] ELSE NoHandler

\* The end of flush: errors are passed on, or the waiters registered.
flushEnd(n) ==
    LET f == flush[n]
    IN  /\ f.pc \in {"appended", "refused"}
        /\ IF state[n] # "Leader" THEN fail(f.batch, "FailedPrecondition")
           ELSE IF f.pc = "refused" THEN fail(f.batch, "Internal")
           ELSE handler' = [id \in Request |->
                   IF \E k \in DOMAIN f.batch : f.batch[k] = id
                   THEN registered(handler[id],
                                   f.index - 1 + CHOOSE k \in DOMAIN f.batch : f.batch[k] = id)
                   ELSE handler[id]]
        /\ flush' = [flush EXCEPT ![n] = NoFlush]
        /\ UNCHANGED <<raftVars, late>>

-----------------------------------------------------------------------------
\* A wrong ReadIndex: it does not wait for the noop of the leader's term.
readyAtOnce(n) == state[n] = "Leader"

\* ReadIndex is for a leader whose noop is applied.
ready(n) == state[n] = "Leader" /\ noopCommitted[n]

\* ReadIndex fails: a read is forwarded, LPop and RPop return the error as it is.
readFails(h) == IF h.kind = "read" THEN forwardRead(h) ELSE reply(h, "Unknown")

\* The read handlers, Get, HGet, LRange, ZRank, ..., and those of LPop and RPop call
\* ReadIndex, which notes the commit index and the term.
ReadIndex(id) ==
    LET h == handler[id]
    IN  /\ h.pc = "ReadIndex" \/ (h.pc = "start" /\ h.kind = "read")
        /\ step(id, IF ~ready(h.node) THEN readFails(h)
                    ELSE [h EXCEPT !.pc = "confirm", !.index = commitIndex[h.node],
                                   !.term = currentTerm[h.node], !.yes = {h.node}])

\* The loop of ReadIndex over the answers.
decide(h) ==
    IF Majority(h.yes) THEN [h EXCEPT !.pc = "waitForApply"]
    ELSE IF Majority(Node \ h.no) THEN h ELSE readFails(h)

\* A peer is asked, with an empty AppendEntries of the noted term.
confirm(id, p) ==
    LET h == handler[id]
        n == h.node
    IN  /\ h.pc = "confirm" /\ p \notin h.yes \cup h.no
        /\ IF currentTerm[p] > h.term
           THEN step(id, decide([h EXCEPT !.no = @ \cup {p}]))
           ELSE IF mustFollow(p, h.term) THEN hear(p, h.term)
           ELSE /\ leaderID' = [leaderID EXCEPT ![p] = n]
                /\ handler' = [handler EXCEPT ![id] = decide([h EXCEPT !.yes = @ \cup {p}])]
                /\ UNCHANGED <<currentTerm, state, log, commitIndex, lastApplied, noopCommitted,
                               telling, flush, late>>

\* A peer does not answer.
confirmFails(id, p) ==
    /\ handler[id].pc = "confirm" /\ p \notin handler[id].yes \cup handler[id].no
    /\ step(id, decide([handler[id] EXCEPT !.no = @ \cup {p}]))

\* waitForApply ends, and the store is read; LPop and RPop then propose, unless the
\* list is empty.
readLocal(id) ==
    LET h == handler[id]
        h2 == [h EXCEPT !.seen = Applied(h.node), !.index = 0, !.term = 0, !.yes = {}, !.no = {}]
    IN  /\ h.pc = "waitForApply" /\ lastApplied[h.node] >= h.index
        /\ IF h.kind = "read" THEN step(id, reply(h2, "OK"))
           ELSE \E empty \in BOOLEAN :
                   step(id, IF empty THEN reply(h2, "NotFound") ELSE [h2 EXCEPT !.pc = "Propose"])

\* The votes of a smallest majority decide an election.
Quorums == {Q \in SUBSET Node : Majority(Q) /\ \A q \in Q : ~Majority(Q \ {q})}

\* A batch of one or two requests.
Batches(n) ==
    LET queued == {id \in Request : handler[id].pc = "queued" /\ handler[id].node = n}
    IN  {<<id>> : id \in queued} \cup {b \in queued \X queued : b[1] # b[2]}
=============================================================================
