------------------------------- MODULE Client -------------------------------
(***************************************************************************)
(* Calls of the client library against the servers of Requests: doWrite    *)
(* and doRead of sdk/client.go with their candidates, retries and          *)
(* timeouts, the methods on top of them, and the HTTP gateway that calls   *)
(* these methods.                                                          *)
(*                                                                         *)
(* The calls share one Client, and so its cached leader.  Each attempt of  *)
(* a call is a request of its own, <<call, attempt>>.  The order of the    *)
(* addresses in c.nodes is left open.  Back-off times are left out.        *)
(***************************************************************************)
EXTENDS Requests, TLC

CONSTANTS Call,        \* the calls
          Endpoints,   \* c.nodes
          MaxRetries,  \* maxRetries of doWrite and doRead, for each method
          After,       \* the calls that begin when another one has succeeded
          CallMethods  \* the methods that each call may be of

ASSUME ClientAssumption ==
    /\ Endpoints \subseteq Node /\ Endpoints # {}
    /\ \A c \in Call : \A m \in CallMethods[c] :
          {c} \X (1..(MaxRetries[m] * Cardinality(Endpoints))) \subseteq Request

VARIABLES call,    \* the calls in progress
          leader,  \* c.leader
          known    \* history: the commands that finished calls have told of

vars == <<requestVars, call, leader, known>>

-----------------------------------------------------------------------------
\* What the handler of a method does: it proposes a command, reads, proposes and
\* then reads, or reads and then proposes.
StringHandlers == [Set |-> "write", Get |-> "read", Delete |-> "write",
                   Incr |-> "incr", Decr |-> "incr"]
HashHandlers == [HSet |-> "write", HGet |-> "read", HDelete |-> "write",
                 HGetAll |-> "read", HExists |-> "read"]
ListHandlers == [LPush |-> "write", RPush |-> "write", LPop |-> "pop", RPop |-> "pop",
                 LRange |-> "read", LLen |-> "read"]
ZSetHandlers == [ZAdd |-> "write", ZScore |-> "read", ZRank |-> "read", ZRange |-> "read",
                 ZRevRange |-> "read", ZRem |-> "write"]
Handlers == StringHandlers @@ HashHandlers @@ ListHandlers @@ ZSetHandlers

\* Which loop a method of the client library uses.
StringMethods == [Set |-> "doWrite", Get |-> "doRead", Delete |-> "doWrite",
                  Incr |-> "doWrite", Decr |-> "doWrite"]
HashMethods == [HSet |-> "doWrite", HDelete |-> "doWrite", HGet |-> "doRead",
                HGetAll |-> "doRead", HExists |-> "doRead"]
ListMethods == [LPush |-> "doWrite", RPush |-> "doWrite", LPop |-> "doWrite",
                LRange |-> "doRead", RPop |-> "doWrite", LLen |-> "doRead"]
ZSetMethods == [ZAdd |-> "doWrite", ZRange |-> "doRead", ZScore |-> "doRead",
                ZRank |-> "doRead", ZRevRange |-> "doRead", ZRem |-> "doWrite"]
Methods == StringMethods @@ HashMethods @@ ListMethods @@ ZSetMethods

\* What the gateway answers when a method returns an error.
StringErrors == [Set |-> 500, Get |-> 404, Delete |-> 500, Incr |-> 500, Decr |-> 500]
HashErrors == [HSet |-> 500, HGet |-> 404, HGetAll |-> 404]
ListErrors == [LPush |-> 500, RPush |-> 500, LPop |-> 500, LRange |-> 404]
ZSetErrors == [ZAdd |-> 500, ZRange |-> 404]
GatewayErrors == StringErrors @@ HashErrors @@ ListErrors @@ ZSetErrors
gatewayStatus(m, code) == IF code = "OK" THEN 200 ELSE GatewayErrors[m]

\* The errors after which doWrite tries the next candidate.
retryWrite == {"FailedPrecondition", "Unavailable", "DeadlineExceeded", "Canceled"}

\* isRetryableReadError
isRetryableReadError == {"Unavailable", "DeadlineExceeded"}

retryable(m, code) == code \in IF Methods[m] = "doWrite" THEN retryWrite ELSE isRetryableReadError

-----------------------------------------------------------------------------
NoCall == [pc |-> "idle", method |-> "Set", attempt |-> 0, addr |-> Nil, tried |-> {}, before |-> {},
           seen |-> {}, code |-> "OK", status |-> 0]

InitClient == call = [c \in Call |-> NoCall] /\ leader = Nil /\ known = {}
Init == InitRequests /\ InitClient

\* The gateway refuses a request that it cannot decode or that lacks a field.
badRequest(c) ==
    /\ call[c].pc = "idle"
    /\ call' = [call EXCEPT ![c] = [NoCall EXCEPT !.pc = "done", !.code = "InvalidArgument",
                                                  !.status = 400]]
    /\ UNCHANGED <<requestVars, leader, known>>

\* A method is called.
begin(c, m) ==
    /\ call[c].pc = "idle" /\ \A d \in After[c] : call[d].status = 200
    /\ call' = [call EXCEPT ![c] = [NoCall EXCEPT !.pc = "next", !.method = m, !.before = known]]
    /\ UNCHANGED <<requestVars, leader, known>>

\* The leader known when a round begins comes first, then the others.
candidates(tried) == IF leader # Nil /\ tried = {} THEN {leader} ELSE Endpoints \ tried

\* The rounds are used up.
exhausted(c) ==
    call[c].tried = Endpoints /\ call[c].attempt = MaxRetries[call[c].method] * Cardinality(Endpoints)

\* The next candidate of doWrite or doRead is called; the next round begins when
\* all of them have failed.
send(c, n) ==
    LET k == call[c]
        tried == IF k.tried = Endpoints THEN {} ELSE k.tried
        id == <<c, k.attempt + 1>>
    IN  /\ k.pc = "next" /\ ~exhausted(c) /\ n \in candidates(tried)
        /\ call' = [call EXCEPT ![c] = [@ EXCEPT !.pc = "sent", !.attempt = @ + 1, !.addr = n,
                                                 !.tried = tried \cup {n}]]
        /\ handler' = [handler EXCEPT ![id] = [NoHandler EXCEPT !.pc = "start", !.node = n,
                                                                !.kind = Handlers[k.method]]]
        /\ UNCHANGED <<raftVars, flush, late, leader, known>>

\* The method returns to the gateway, which answers.
returned(k, code, seen) ==
    [k EXCEPT !.pc = "done", !.code = code, !.seen = seen, !.tried = {}, !.addr = Nil,
              !.status = gatewayStatus(k.method, code)]

\* An answer: doWrite remembers who gave a good one.
receive(c) ==
    LET k == call[c]
        id == <<c, k.attempt>>
        h == handler[id]
    IN  /\ k.pc = "sent" /\ h.pc = "replied"
        /\ handler' = [handler EXCEPT ![id] = NoHandler]
        /\ call' = [call EXCEPT ![c] =
              IF h.code = "OK" THEN returned(k, "OK", h.seen)
              ELSE IF retryable(k.method, h.code) THEN [k EXCEPT !.pc = "next"]
              ELSE returned(k, h.code, {})]
        /\ known' = known \cup IF h.code # "OK" THEN {}
                               ELSE h.seen \cup IF h.kind = "read" THEN {} ELSE {id}
        /\ leader' = IF h.code = "OK" /\ Methods[k.method] = "doWrite" THEN k.addr ELSE leader
        /\ UNCHANGED <<raftVars, flush, late>>

\* The context of rpcTimeout expires before the answer: the next candidate follows.  The context ends what runs under it,
\* but not a Propose, nor the way of a handler to it.
timeout(c) ==
    LET k == call[c]
        id == <<c, k.attempt>>
        h == handler[id]
    IN  /\ k.pc = "sent" /\ h.pc # "replied"
        /\ call' = [call EXCEPT ![c].pc = "next"]
        /\ handler' = [handler EXCEPT ![id] =
              IF h.pc \in {"Propose", "queued", "batch"} \/ (h.pc = "start" /\ h.kind \in {"write", "incr"})
              THEN [h EXCEPT !.awaited = FALSE] ELSE NoHandler]
        /\ UNCHANGED <<raftVars, flush, late, leader, known>>

\* The rounds are over.
giveUp(c) ==
    /\ call[c].pc = "next" /\ exhausted(c)
    /\ call' = [call EXCEPT ![c] = returned(@, "Unavailable", {})]
    /\ UNCHANGED <<requestVars, leader, known>>

clientStep(c) == (\E n \in Endpoints : send(c, n)) \/ receive(c) \/ timeout(c) \/ giveUp(c)
clientWaits == UNCHANGED <<call, leader, known>>

Next ==
    \/ \E c \in Call : badRequest(c)
    \/ \E c \in Call : \E m \in CallMethods[c] : begin(c, m)
    \/ \E c \in Call : clientStep(c)
    \/ \E n \in Node, Q \in Quorums : elect(n, Q) /\ clientWaits
    \/ \E l, n \in Node : replicate(l, n) /\ clientWaits
    \/ \E n \in Node : tellWaiters(n) /\ clientWaits
    \/ \E n \in Node : apply(n) /\ clientWaits
    \/ \E id \in Request : handleWrite(id) /\ clientWaits
    \/ \E id \in Request : Propose(id) /\ clientWaits
    \/ \E id \in Request : proposed(id) /\ clientWaits
    \/ \E n \in Node : \E b \in Batches(n) : flushBuild(n, b) /\ clientWaits
    \/ \E n \in Node : flushAppend(n) /\ clientWaits
    \/ \E n \in Node : flushEnd(n) /\ clientWaits
    \/ \E id \in Request : ReadIndex(id) /\ clientWaits
    \/ \E id \in Request, p \in Node : confirm(id, p) /\ clientWaits
    \/ \E id \in Request, p \in Node : confirmFails(id, p) /\ clientWaits
    \/ \E id \in Request : readLocal(id) /\ clientWaits

Spec == Init /\ [][Next]_vars

-----------------------------------------------------------------------------
\* The commands that are committed, on whichever node.
Committed == UNION {Commands(n, commitIndex[n]) : n \in Node}

\* When a call of a write returns without an error, the command of its last attempt
\* is committed, unless its waiter was still registered on a node that had stepped
\* down: stepDown saves the term before it tells the waiters, and applyEntriesLoop may
\* then tell one of them of the entry that another leader put at its index.
\* (batchLoop, applyEntriesLoop, stepDown, KVHandler.propose, doWrite)
AcknowledgedIsCommitted ==
    \A c \in Call : call[c].pc = "done" /\ call[c].code = "OK" /\ Methods[call[c].method] = "doWrite"
                   => <<c, call[c].attempt>> \in Committed \cup late

\* A value that a call returns comes from a state in which every command is applied
\* that was acknowledged, or seen by another call, before this call began: reads are
\* linearizable, on whichever server they end.  Acknowledgements by a node that had
\* stepped down are left out: they promise nothing.  (ReadIndex, waitForApply,
\* KVHandler.Get, Incr, LPop)
ReadsAreFresh ==
    \A c \in Call : call[c].pc = "done" /\ call[c].code = "OK" /\ Handlers[call[c].method] # "write"
                   => \/ call[c].before \ late \subseteq call[c].seen
                      \/ <<c, call[c].attempt>> \in late
=============================================================================
