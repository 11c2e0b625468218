------------------------------- MODULE KVStore -------------------------------
(***************************************************************************)
(* The state machine of package kvstore for one key, on several replicas   *)
(* that apply the same log: Apply of store.go with the String, Hash, List  *)
(* and SortedSet stores, the TTLManager with its background cleanup, the   *)
(* deletions that reads of an expired key make, Snapshot and Restore.      *)
(* Keys share nothing, so one stands for all; other keys are only present  *)
(* or not (OtherKeys).                                                     *)
(*                                                                         *)
(* A command is one step: the Raft layer applies one at a time.  Its locks *)
(* are released between the test of the expiry, the data and SetAbsolute,  *)
(* and the cleanup or a read that begins there is taken to begin before or *)
(* after the command.  The deletion of a key by the cleanup or by a read   *)
(* is cut where it releases its locks.  Hash fields and sorted-set members are Items; a hash and a  *)
(* sorted set both map items to values, since the skip list orders what    *)
(* its dict holds.                                                         *)
(***************************************************************************)
EXTENDS Integers, Sequences, FiniteSets

CONSTANTS Replicas,
          Background,   \* the replicas on which reads and the cleanup delete keys
          Items,        \* hash fields, sorted-set members and list elements
          Text,         \* a string that is not a number
          Absent,       \* no data
          MixedTypes,   \* clients use the key with several types
          OtherKeys,    \* the store holds other keys
          MaxCommands, MaxTime

ASSUME KVStoreAssumption ==
    /\ Background \subseteq Replicas /\ IsFiniteSet(Items)
    /\ Text \notin Int /\ Absent \notin Int \cup {Text} \cup Seq(Items)
    /\ \A S \in SUBSET Items : Absent \notin [S -> {1, 2}]
    /\ MixedTypes \in BOOLEAN /\ OtherKeys \in BOOLEAN
    /\ MaxCommands \in Nat /\ MaxTime \in Nat

Types == {"string", "hash", "list", "zset"}
Workers == {"cleaner", "reader"}

VARIABLES now,       \* the clock, which the replicas share
          kind,      \* the type with which clients use the key
          log,       \* the committed commands
          applied,   \* how many of them a replica has applied
          store,     \* keyTypes, the four stores and ttl.expiry of each replica
          job,       \* deletions in progress
          snapshot   \* the last snapshot

vars == <<now, kind, log, applied, store, job, snapshot>>

NoType == "none"
Empty == [type |-> NoType, data |-> [t \in Types |-> Absent], expiry |-> 0]
NoJob == [pc |-> "idle", type |-> NoType]

\* The commands that the handlers build, with the expiry that the leader computes.
\* The field sets tells whether Apply calls SetAbsolute.
Expiries == 0..(MaxTime - 1)
StringCommands ==
    [op: {"SET"}, type: {"string"}, arg: {0, Text}, sets: {TRUE}, expiry: Expiries]
    \cup [op: {"DEL", "INCR", "DECR"}, type: {"string"}, arg: {0}, sets: {FALSE}, expiry: {0}]
HashCommands ==
    [op: {"HSET"}, type: {"hash"}, arg: Items \X {1}, sets: {TRUE}, expiry: Expiries]
    \cup [op: {"HDEL"}, type: {"hash"}, arg: Items, sets: {FALSE}, expiry: {0}]
AllItems ==   \* in some order
    CHOOSE s \in [1..Cardinality(Items) -> Items] : Items = {s[k] : k \in DOMAIN s}
ListCommands ==
    [op: {"LPUSH", "RPUSH"}, type: {"list"}, arg: {<<>>, AllItems}, sets: {TRUE}, expiry: Expiries]
    \cup [op: {"LPOP", "RPOP"}, type: {"list"}, arg: {<<>>}, sets: {FALSE}, expiry: {0}]
ZSetCommands ==
    [op: {"ZADD"}, type: {"zset"}, arg: Items \X {1, 2}, sets: {TRUE}, expiry: Expiries]
    \cup [op: {"ZREM"}, type: {"zset"}, arg: Items, sets: {FALSE}, expiry: {0}]
CommandsOf(t) == CASE t = "string" -> StringCommands
                   [] t = "hash" -> HashCommands
                   [] t = "list" -> ListCommands
                   [] t = "zset" -> ZSetCommands
UsedTypes == IF MixedTypes THEN Types ELSE {kind}

-----------------------------------------------------------------------------
\* TTLManager.IsExpired.
isExpired(s, time) == s.expiry # 0 /\ time > s.expiry

\* StringStore.Delete, and deleteKey of the other stores: the data of one type, the
\* expiry and the type.
deleteKey(s, t) == [type |-> NoType, data |-> [s.data EXCEPT ![t] = Absent], expiry |-> 0]

orEmpty(v) == IF v = Absent THEN <<>> ELSE v

\* The data operations of the four stores, on the data v of the key.
addValue(v, delta) == IF v = Absent THEN delta ELSE IF v = Text THEN v ELSE v + delta
HSet(v, field, x) ==
    [f \in DOMAIN orEmpty(v) \cup {field} |-> IF f = field THEN x ELSE v[f]]
HDelete(v, field) == [f \in DOMAIN v \ {field} |-> v[f]]
LPush(v, values) == [k \in DOMAIN values |-> values[Len(values) + 1 - k]] \o orEmpty(v)
RPush(v, values) == orEmpty(v) \o values
LPop(v) == Tail(v)
RPop(v) == SubSeq(v, 1, Len(v) - 1)
ZAdd(v, member, score) ==
    [m \in DOMAIN orEmpty(v) \cup {member} |-> IF m = member THEN score ELSE v[m]]
ZRem(v, member) == [m \in DOMAIN v \ {member} |-> v[m]]

\* What the command c that writes makes of the data v of its type.
written(c, v) ==
    CASE c.op = "SET" -> c.arg
      [] c.op = "INCR" -> addValue(v, 1)
      [] c.op = "DECR" -> addValue(v, -1)
      [] c.op = "HSET" -> HSet(v, c.arg[1], c.arg[2])
      [] c.op = "LPUSH" -> LPush(v, c.arg)
      [] c.op = "RPUSH" -> RPush(v, c.arg)
      [] c.op = "ZADD" -> ZAdd(v, c.arg[1], c.arg[2])

\* The command c that removes finds something to remove in data v.
removes(c, v) ==
    v # Absent /\ IF c.op \in {"HDEL", "ZREM"} THEN c.arg \in DOMAIN v ELSE v # <<>>

\* What it leaves; data that became empty is deleted.
removed(c, v) ==
    LET left == CASE c.op = "HDEL" -> HDelete(v, c.arg)
                  [] c.op = "LPOP" -> LPop(v)
                  [] c.op = "RPOP" -> RPop(v)
                  [] c.op = "ZREM" -> ZRem(v, c.arg)
    IN  IF DOMAIN left = {} THEN Absent ELSE left

isRemoval(c) == c.op \in {"HDEL", "LPOP", "RPOP", "ZREM"}

\* A wrong write: it does not look whether the key has expired.
currentUnchecked(s, t, time) == s

\* What a write finds: an expired key is deleted first.
current(s, t, time) == IF isExpired(s, time) THEN deleteKey(s, t) ELSE s

\* A wrong SetAbsolute: the time is taken for a duration.
expiryAfterNow(c, s, time) == IF c.sets THEN time + c.expiry ELSE s.expiry

\* TTLManager.SetAbsolute after the commands that carry an expiry.
expiryAfter(c, s, time) == IF c.sets THEN c.expiry ELSE s.expiry

\* Apply of a write: CheckAndSetType, the data, and SetAbsolute.
write(c, s, time) ==
    LET f == current(s, c.type, time)
    IN  IF f.type \notin {NoType, c.type} THEN f
        ELSE [type |-> c.type,
              data |-> [f.data EXCEPT ![c.type] = written(c, @)],
              expiry |-> expiryAfter(c, f, time)]

\* A wrong removal: the type and the expiry of emptied data stay.
removeForgets(c, s, time) ==
    IF s.type \notin {NoType, c.type} THEN s
    ELSE IF isExpired(s, time) THEN deleteKey(s, c.type)
    ELSE IF ~removes(c, s.data[c.type]) THEN s
    ELSE [s EXCEPT !.data[c.type] = removed(c, @)]

\* Apply of a removal: CheckType, the expiry, and the data.
remove(c, s, time) ==
    IF s.type \notin {NoType, c.type} THEN s
    ELSE IF isExpired(s, time) THEN deleteKey(s, c.type)
    ELSE IF ~removes(c, s.data[c.type]) THEN s
    ELSE IF removed(c, s.data[c.type]) = Absent THEN deleteKey(s, c.type)
    ELSE [s EXCEPT !.data[c.type] = removed(c, @)]

Result(c, s, time) ==
    CASE c.op = "DEL" -> deleteKey(s, "string")
      [] isRemoval(c) -> remove(c, s, time)
      [] OTHER -> write(c, s, time)

-----------------------------------------------------------------------------
\* A wrong read: it does not look at the expiry.
outcomeStale(s, t, time) ==
    CASE s.type \notin {NoType, t} -> "ErrWrongType"
      [] s.data[t] = Absent -> "ErrKeyNotFound"
      [] OTHER -> "ok"

\* How a read with the operations of type t ends: CheckType, IsExpired and the data.
outcome(s, t, time) ==
    CASE s.type \notin {NoType, t} -> "ErrWrongType"
      [] isExpired(s, time) \/ s.data[t] = Absent -> "ErrKeyNotFound"
      [] OTHER -> "ok"

\* What a method of the KVReader returns: a value or an error.
answer(end, v) == IF end = "ok" THEN [error |-> "ok", value |-> v] ELSE [error |-> end]

\* The reads of the KVReader.
Get(s, time) == answer(outcome(s, "string", time), s.data["string"])
HGet(s, field, time) ==
    LET end == outcome(s, "hash", time)
        known == end = "ok" /\ field \in DOMAIN s.data["hash"]
    IN  answer(IF end # "ok" \/ known THEN end ELSE "ErrKeyNotFound",
               IF known THEN s.data["hash"][field] ELSE Absent)
HGetAll(s, time) == answer(outcome(s, "hash", time), s.data["hash"])
HExists(s, field, time) ==
    LET end == outcome(s, "hash", time)
    IN  answer(end, end = "ok" /\ field \in DOMAIN s.data["hash"])
LLen(s, time) ==
    LET end == outcome(s, "list", time)
    IN  answer(IF end = "ErrKeyNotFound" THEN "ok" ELSE end,
               IF end = "ok" THEN Len(s.data["list"]) ELSE 0)

\* A negative index of LRange counts from the end.
fromEnd(i, length) == IF i >= 0 THEN i ELSE IF length + i < 0 THEN 0 ELSE length + i

\* The loop of LRange takes the elements from start to stop.
walk(v, start, stop) == [k \in 1..(stop - start + 1) |-> v[start + k]]

LRange(s, i, j, time) ==
    LET end == outcome(s, "list", time)
        v == s.data["list"]
        start == fromEnd(i, Len(v))
        stop == IF fromEnd(j, Len(v)) >= Len(v) THEN Len(v) - 1 ELSE fromEnd(j, Len(v))
    IN  IF end # "ok" THEN answer(end, <<>>)
        ELSE IF v = <<>> THEN answer("ErrEmptyList", <<>>)
        ELSE answer("ok", IF start >= Len(v) \/ start > stop THEN <<>> ELSE walk(v, start, stop))

-----------------------------------------------------------------------------
Init ==
    /\ now = 0 /\ kind \in Types /\ log = <<>>
    /\ applied = [r \in Replicas |-> 0]
    /\ store = [r \in Replicas |-> Empty]
    /\ job = [r \in Replicas |-> [w \in Workers |-> NoJob]]
    /\ snapshot = [applied |-> 0, store |-> Empty]

\* A handler of the leader proposes a command, and it is committed.  An expiry is
\* the time of the leader plus a positive TTL; 0 stands for none.
propose ==
    /\ Len(log) < MaxCommands
    /\ \E t \in UsedTypes : \E c \in CommandsOf(t) :
          /\ c.expiry = 0 \/ c.expiry > now
          /\ log' = Append(log, c)
    /\ UNCHANGED <<now, kind, applied, store, job, snapshot>>

tick ==
    /\ now < MaxTime
    /\ now' = now + 1
    /\ UNCHANGED <<kind, log, applied, store, job, snapshot>>

\* KVStore.Apply of the next command.
Apply(r) ==
    /\ applied[r] < Len(log)
    /\ applied' = [applied EXCEPT ![r] = @ + 1]
    /\ store' = [store EXCEPT ![r] = Result(log[applied[r] + 1], @, now)]
    /\ UNCHANGED <<now, kind, log, job, snapshot>>

\* TTLManager.cleanup under its lock.
cleanup(r) ==
    /\ job[r]["cleaner"].pc = "idle" /\ isExpired(store[r], now)
    /\ store' = [store EXCEPT ![r].expiry = 0]
    /\ job' = [job EXCEPT ![r]["cleaner"].pc = "type"]
    /\ UNCHANGED <<now, kind, log, applied, snapshot>>

\* A wrong onExpire: it does not know the sorted sets.
expiredTypeUnknown(t) == IF t = "zset" THEN NoType ELSE t

\* The store that onExpire calls for a key of type t.
expiredType(t) == t

\* KVStore.deleteKey, the callback onExpire: it reads the type.
onExpire(r) ==
    LET t == expiredType(store[r].type)
    IN  /\ job[r]["cleaner"].pc = "type"
        /\ job' = [job EXCEPT ![r]["cleaner"] =
                     IF t = NoType THEN NoJob ELSE [pc |-> "data", type |-> t]]
        /\ UNCHANGED <<now, kind, log, applied, store, snapshot>>

\* A read with the operations of type t finds the key expired and deletes it.
readExpired(r, t) ==
    /\ job[r]["reader"].pc = "idle"
    /\ store[r].type \in {NoType, t} /\ isExpired(store[r], now)
    /\ job' = [job EXCEPT ![r]["reader"] = [pc |-> "data", type |-> t]]
    /\ UNCHANGED <<now, kind, log, applied, store, snapshot>>

\* Another worker is in StringStore.Delete, which holds the lock of the strings.
stringsAreLocked(r, w) ==
    \E x \in Workers \ {w} : job[r][x].type = "string" /\ job[r][x].pc \in {"expiry", "end"}

\* The deletion by worker w: the data, the expiry, the type.
deleteData(r, w) ==
    /\ job[r][w].pc = "data"
    /\ job[r][w].type = "string" => ~stringsAreLocked(r, w)
    /\ store' = [store EXCEPT ![r].data[job[r][w].type] = Absent]
    /\ job' = [job EXCEPT ![r][w].pc = "expiry"]
    /\ UNCHANGED <<now, kind, log, applied, snapshot>>

deleteExpiry(r, w) ==
    /\ job[r][w].pc = "expiry"
    /\ store' = [store EXCEPT ![r].expiry = 0]
    /\ job' = [job EXCEPT ![r][w].pc = "end"]
    /\ UNCHANGED <<now, kind, log, applied, snapshot>>

DeleteType(r, w) ==
    /\ job[r][w].pc = "end"
    /\ store' = [store EXCEPT ![r].type = NoType]
    /\ job' = [job EXCEPT ![r][w] = NoJob]
    /\ UNCHANGED <<now, kind, log, applied, snapshot>>

\* KVStore.Snapshot on replica r, which has applied more than the last one holds.
Snapshot(r) ==
    /\ applied[r] > snapshot.applied
    /\ snapshot' = [applied |-> applied[r], store |-> store[r]]
    /\ UNCHANGED <<now, kind, log, applied, store, job>>

\* KVStore.Restore of a snapshot that is ahead of replica r.  The snapshot of a
\* store without keys has no bytes, and Restore returns without doing anything.
Restore(r) ==
    /\ snapshot.applied > applied[r]
    /\ applied' = [applied EXCEPT ![r] = snapshot.applied]
    /\ store' = [store EXCEPT ![r] =
                   IF snapshot.store = Empty /\ ~OtherKeys THEN @ ELSE snapshot.store]
    /\ UNCHANGED <<now, kind, log, job, snapshot>>

Next ==
    \/ propose
    \/ tick
    \/ \E r \in Replicas : Apply(r)
    \/ \E r \in Background : cleanup(r)
    \/ \E r \in Background : onExpire(r)
    \/ \E r \in Background, t \in UsedTypes : readExpired(r, t)
    \/ \E r \in Background, w \in Workers : deleteData(r, w)
    \/ \E r \in Background, w \in Workers : deleteExpiry(r, w)
    \/ \E r \in Background, w \in Workers : DeleteType(r, w)
    \/ \E r \in Replicas : Snapshot(r)
    \/ \E r \in Replicas : Restore(r)

Spec == Init /\ [][Next]_vars

\* No worker deletes the key of replica r.
AtRest(r) == \A w \in Workers : job[r][w].pc = "idle"

\* The behaviours in which a deletion in the background is not overtaken by a
\* command, a snapshot or a restore: nothing in the code sees to it.
DeletionsAreAlone ==
    /\ \A r \in Replicas : ~AtRest(r) => applied'[r] = applied[r]
    /\ snapshot' # snapshot =>
          \E r \in Replicas : AtRest(r) /\ snapshot' = [applied |-> applied[r], store |-> store[r]]
AloneSpec == Init /\ [][Next /\ DeletionsAreAlone]_vars

\* The goroutine of TTLManager.Start runs on.
Fairness ==
    \A r \in Background :
        /\ WF_vars(cleanup(r)) /\ WF_vars(onExpire(r))
        /\ \A w \in Workers :
              WF_vars(deleteData(r, w)) /\ WF_vars(deleteExpiry(r, w)) /\ WF_vars(DeleteType(r, w))
FairSpec == AloneSpec /\ Fairness

-----------------------------------------------------------------------------
\* Every variable has its type.
TypeOK ==
    /\ now \in 0..MaxTime /\ kind \in Types /\ Len(log) <= MaxCommands
    /\ applied \in [Replicas -> 0..Len(log)]
    /\ \A r \in Replicas :
          /\ store[r].type \in Types \cup {NoType} /\ DOMAIN store[r].data = Types
          /\ store[r].expiry \in 0..MaxTime
          /\ job[r] \in [Workers -> [pc: {"idle", "type", "data", "expiry", "end"},
                                     type: Types \cup {NoType}]]
    /\ snapshot.applied \in 0..Len(log)

\* keyTypes, the stores and the TTL map tell the same story of a key that nobody is
\* deleting: it has a type exactly when that store holds data, and an expiry only
\* then.
TypeFollowsData ==
    \A r \in Replicas : AtRest(r) =>
        /\ \A t \in Types : store[r].type = t <=> store[r].data[t] # Absent
        /\ store[r].type = NoType => store[r].expiry = 0

\* The value after command c on a value v, without types and expiries.
Effect(c, v) ==
    CASE c.op = "DEL" -> Absent
      [] isRemoval(c) -> IF removes(c, v) THEN removed(c, v) ELSE v
      [] OTHER -> written(c, v)

\* What is left of a store at this moment: nothing of an expired key.
Visible(s, e) == IF isExpired(s, now) THEN e ELSE s

\* The place that an index of list v names, counted from the first element, which is 0.
place(v, i) == IF i < 0 THEN Len(v) + i ELSE i

\* The elements of list v that LRANGE i j names.
Named(v, i, j) == {k \in DOMAIN v : place(v, i) <= k - 1 /\ k - 1 <= place(v, j)}

\* List l is what LRANGE i j names, in the order of v.
isNamedRow(l, v, i, j) ==
    /\ Len(l) = Cardinality(Named(v, i, j))
    /\ \A k \in DOMAIN l :
          l[k] = v[k + Cardinality({q \in DOMAIN v : \A x \in Named(v, i, j) : q < x})]

\* What the reads of a key with the visible value v, or none, return.
StringShown(s, v) == Get(s, now) = answer(IF v # Absent THEN "ok" ELSE "ErrKeyNotFound", v)
HashShown(s, v) ==
    /\ HGetAll(s, now).error = IF v # Absent THEN "ok" ELSE "ErrKeyNotFound"
    /\ \A f \in Items :
          IF v # Absent /\ f \in DOMAIN v
          THEN /\ HGet(s, f, now) = answer("ok", v[f])
               /\ HExists(s, f, now).value /\ HGetAll(s, now).value[f] = v[f]
          ELSE HGet(s, f, now).error = "ErrKeyNotFound"
RangeShown(s, v, i, j) ==
    IF v = Absent \/ v = <<>> THEN LRange(s, i, j, now).error # "ok"
    ELSE place(v, j) >= 0 => isNamedRow(LRange(s, i, j, now).value, v, i, j)
ListShown(s, v) ==
    /\ LLen(s, now).value = IF v # Absent THEN Len(v) ELSE 0
    /\ \A i, j \in -3..3 : RangeShown(s, v, i, j)

Shown(s, v) ==
    /\ kind = "string" => StringShown(s, v)
    /\ kind = "hash" => HashShown(s, v)
    /\ kind = "list" => ListShown(s, v)

\* What ExpiringKey sees: the key that is visible, and none while it is being deleted.
keyOf(s) == [value |-> Visible(s, Empty).data[kind], expiry |-> Visible(s, Empty).expiry]
keyValue == [r \in Replicas |-> IF AtRest(r) THEN keyOf(store[r]).value ELSE Absent]
keyExpiry == [r \in Replicas |-> IF AtRest(r) THEN keyOf(store[r]).expiry ELSE 0]
keySnapshot == [applied |-> snapshot.applied,
                value |-> keyOf(snapshot.store).value, expiry |-> keyOf(snapshot.store).expiry]

Key == INSTANCE ExpiringKey WITH
    Kinds <- Types, value <- keyValue, expiry <- keyExpiry, snapshot <- keySnapshot

\* What the reads return is what the key of ExpiringKey holds: a value, its fields, its
\* length, and for every pair of indices the elements between them in their order; a
\* stop before the first element is left out, which LRange takes for the first.  An
\* expired key is not there, whether or not it has been deleted yet, with one
\* exception: the cleanup drops the expiry before the data, and until the data is gone
\* a read returns the expired value, whole.  (The reads of string.go, hash.go and
\* list.go, and TTLManager.cleanup)
ReadsShowVisible ==
    \A r \in Replicas :
        LET s == store[r]
        IN  \/ Shown(s, IF AtRest(r) THEN Key!At(now, s.data[kind], s.expiry).value ELSE Absent)
            \/ job[r]["cleaner"].pc \in {"type", "data"} /\ Shown(s, s.data[kind])

\* A key that clients use with one type is a plain expiring key: the lazy deletions
\* of Apply and of reads, the cleanup of the TTLManager and the transfer in a
\* snapshot neither lose a value, nor shorten or lengthen its life, nor let a command,
\* a snapshot or a finished deletion bring an expired one back.  What reads see of a
\* key that is being deleted is the matter of ReadsShowVisible: here it is gone.
ImplementsExpiringKey == Key!Spec

\* The memory of an expired key is given back, even if nobody reads it.
ExpiredIsReclaimed ==
    \A r \in Background, n \in 0..MaxCommands :
        (isExpired(store[r], now) /\ applied[r] = n)
            ~> (store[r].data[kind] = Absent \/ applied[r] # n)
=============================================================================
