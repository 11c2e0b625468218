--------------------------- MODULE KVStoreProofs ---------------------------
(***************************************************************************)
(* What the state machine of KVStore promises, for any replicas, items,    *)
(* commands and times: keyTypes, the stores and the TTL map agree on every *)
(* key that nobody is deleting, reads show the visible value, and a key    *)
(* that is used with one type is an expiring key of ExpiringKey.           *)
(***************************************************************************)
EXTENDS KVStore, FiniteSetTheorems, TLAPS

\* The data that a store of each type can hold for the key.
Maps(V) == UNION {[S -> V] : S \in SUBSET Items}
Held(t) == CASE t = "string" -> Int \cup {Text}
             [] t = "hash" -> Maps({1, 2})
             [] t = "list" -> Seq(Items)
             [] t = "zset" -> Maps({1, 2})
Values(t) == Held(t) \cup {Absent}
AllValues == UNION {Values(t) : t \in Types}

Store ==
    {s \in [type : Types \cup {NoType}, data : [Types -> AllValues], expiry : 0..MaxTime] :
        \A t \in Types : s.data[t] \in Values(t)}
Command == UNION {CommandsOf(t) : t \in Types}
Deleting == {"data", "expiry", "end"}
Job ==
    {j \in [pc : {"idle", "type"} \cup Deleting, type : Types \cup {NoType}] :
        j.pc \in Deleting => j.type \in Types}

KVTypes ==
    /\ now \in 0..MaxTime /\ kind \in Types
    /\ log \in Seq(Command) /\ Len(log) <= MaxCommands
    /\ applied \in [Replicas -> 0..Len(log)]
    /\ store \in [Replicas -> Store]
    /\ job \in [Replicas -> [Workers -> Job]]
    /\ snapshot \in [applied : 0..Len(log), store : Store]

\* What a store says of a key that is used with its kind only.  A key without a type
\* has neither data nor an expiry.
Single(s) ==
    /\ s.type \in {NoType, kind}
    /\ \A t \in Types \ {kind} : s.data[t] = Absent
    /\ s.type = NoType => s.data[kind] = Absent /\ s.expiry = 0

\* The same, where no deletion is half done: a key without data has no type.
Agreed(s) == Single(s) /\ (s.data[kind] = Absent => s.type = NoType)

\* How far the deletions on replica r have come.  The cleanup takes the expiry away
\* first, and a deletion the data before the expiry and the type.
JobInv(r) ==
    /\ \A w \in Workers :
          /\ job[r][w].pc \in Deleting => job[r][w].type = kind
          /\ job[r][w].pc \in {"expiry", "end"} => store[r].data[kind] = Absent
          /\ job[r][w].pc = "end" => store[r].expiry = 0
    /\ job[r]["cleaner"].pc # "idle" => store[r].expiry = 0

ReplicaInv(r) == Single(store[r]) /\ (AtRest(r) => Agreed(store[r])) /\ JobInv(r)

KVInv ==
    /\ KVTypes
    /\ log \in Seq(CommandsOf(kind))
    /\ \A r \in Replicas : ReplicaInv(r)
    /\ Agreed(snapshot.store)

-----------------------------------------------------------------------------
(* Data.                                                                   *)
USE ZenonT(30)

\* No data that is held is Absent.
LEMMA HeldIsThere ==
    ASSUME NEW t \in Types
    PROVE  Absent \notin Held(t)
<1>1. CASE t = "string"
  BY <1>1, KVStoreAssumption DEF Held
<1>2. CASE t \in {"hash", "zset"}
  BY <1>2, KVStoreAssumption DEF Held, Maps
<1>3. CASE t = "list"
  BY <1>3, KVStoreAssumption DEF Held
<1>4. QED
  BY <1>1, <1>2, <1>3 DEF Types

\* The items can be put in a row.
LEMMA ItemsInARow == AllItems \in Seq(Items)
<1>1. IsFiniteSet(Items)
  BY KVStoreAssumption
<1>2. Cardinality(Items) \in Nat /\ ExistsBijection(1..Cardinality(Items), Items)
  BY <1>1, FS_CardinalityType
<1>3. PICK f \in [1..Cardinality(Items) -> Items] : \A i \in Items : \E k \in DOMAIN f : f[k] = i
  BY <1>2 DEF ExistsBijection, Bijection, Surjection
<1>4. Items = {f[k] : k \in DOMAIN f}
  BY <1>3
<1>5. AllItems \in [1..Cardinality(Items) -> Items]
  BY <1>4 DEF AllItems
<1>6. QED
  BY <1>2, <1>5, SMTT(30)

\* The parts of a command.
LEMMA CommandParts ==
    ASSUME NEW t \in Types, NEW c \in CommandsOf(t)
    PROVE  /\ c.type = t /\ c.sets \in BOOLEAN /\ c.expiry \in 0..MaxTime
           /\ isRemoval(c) => ~c.sets
           /\ c.op = "DEL" => t = "string" /\ ~isRemoval(c) /\ ~c.sets
<1>0. 0 \in 0..MaxTime /\ \A e \in Expiries : e \in 0..MaxTime
  BY KVStoreAssumption, SMTT(30) DEF Expiries
<1>1. CASE t = "string"
  BY <1>0, <1>1 DEF CommandsOf, StringCommands, isRemoval
<1>2. CASE t = "hash"
  BY <1>0, <1>2 DEF CommandsOf, HashCommands, isRemoval
<1>3. CASE t = "list"
  BY <1>0, <1>3 DEF CommandsOf, ListCommands, isRemoval
<1>4. CASE t = "zset"
  BY <1>0, <1>4 DEF CommandsOf, ZSetCommands, isRemoval
<1>5. QED
  BY <1>1, <1>2, <1>3, <1>4 DEF Types

\* A map with one more item, and one without an item.
LEMMA MapWith ==
    ASSUME NEW v \in Maps({1, 2}) \cup {Absent}, NEW i \in Items, NEW x \in {1, 2}
    PROVE  [f \in DOMAIN orEmpty(v) \cup {i} |-> IF f = i THEN x ELSE v[f]] \in Maps({1, 2})
<1>1. DOMAIN orEmpty(v) \in SUBSET Items /\ \A f \in DOMAIN orEmpty(v) : v[f] \in {1, 2}
  <2>1. CASE v = Absent
    <3>1. DOMAIN orEmpty(v) = {}
      BY <2>1, SMTT(30) DEF orEmpty
    <3>2. QED
      BY <3>1
  <2>2. CASE v # Absent
    BY <2>2 DEF orEmpty, Maps
  <2>3. QED
    BY <2>1, <2>2
<1>2. [f \in DOMAIN orEmpty(v) \cup {i} |-> IF f = i THEN x ELSE v[f]]
         \in [DOMAIN orEmpty(v) \cup {i} -> {1, 2}]
  BY <1>1
<1>3. DOMAIN orEmpty(v) \cup {i} \in SUBSET Items
  BY <1>1
<1>4. QED
  BY <1>2, <1>3 DEF Maps

\* A map without one of its items, as HDelete and ZRem leave it.
LEMMA MapWithout ==
    ASSUME NEW v \in Maps({1, 2}), NEW i
    PROVE  [f \in DOMAIN v \ {i} |-> v[f]] \in Maps({1, 2})
<1>1. PICK S \in SUBSET Items : v \in [S -> {1, 2}]
  BY DEF Maps
<1>2. [f \in S \ {i} |-> v[f]] \in [S \ {i} -> {1, 2}] /\ S \ {i} \in SUBSET Items
  BY <1>1
<1>3. QED
  BY <1>1, <1>2 DEF Maps

\* A write leaves data of its type.
LEMMA WrittenData ==
    ASSUME NEW t \in Types, NEW c \in CommandsOf(t), ~isRemoval(c), c.op # "DEL",
           NEW v \in Values(t)
    PROVE  written(c, v) \in Held(t)
<1>1. CASE t = "string"
  <2>1. c.op \in {"SET", "INCR", "DECR"} /\ (c.op = "SET" => c.arg \in {0, Text})
    BY <1>1 DEF CommandsOf, StringCommands
  <2>2. v \in Int \cup {Text, Absent} /\ Held(t) = Int \cup {Text}
    BY <1>1 DEF Values, Held
  <2>3. \A d \in {1, -1} : addValue(v, d) \in Int \cup {Text}
    BY <2>2, KVStoreAssumption, SMTT(30) DEF addValue
  <2>4. addValue(v, 1) \in Int \cup {Text} /\ addValue(v, -1) \in Int \cup {Text}
    BY <2>3
  <2>5. 0 \in Int
    BY SMTT(30)
  <2>6. QED
    BY <2>1, <2>2, <2>4, <2>5 DEF written
<1>2. CASE t = "hash"
  <2>1. c.op = "HSET" /\ c.arg \in Items \X {1}
    BY <1>2 DEF CommandsOf, HashCommands, isRemoval
  <2>2. c.arg[1] \in Items /\ c.arg[2] \in {1, 2}
    BY <2>1, SMTT(30)
  <2>3. v \in Maps({1, 2}) \cup {Absent} /\ Held(t) = Maps({1, 2})
    BY <1>2 DEF Values, Held
  <2>4. HSet(v, c.arg[1], c.arg[2]) \in Maps({1, 2})
    BY <2>2, <2>3, MapWith DEF HSet
  <2>5. QED
    BY <2>1, <2>3, <2>4 DEF written
<1>3. CASE t = "list"
  <2>1. c.op \in {"LPUSH", "RPUSH"} /\ c.arg \in {<<>>, AllItems}
    BY <1>3 DEF CommandsOf, ListCommands, isRemoval
  <2>2. c.arg \in Seq(Items)
    <3>1. <<>> \in Seq(Items)
      BY SMTT(30)
    <3>2. QED
      BY <2>1, <3>1, ItemsInARow
  <2>3. v \in Seq(Items) \cup {Absent} /\ Held(t) = Seq(Items)
    BY <1>3 DEF Values, Held
  <2>4. orEmpty(v) \in Seq(Items)
    BY <2>3, SMTT(30) DEF orEmpty
  <2>5. \A p, q \in Seq(Items) :
           p \o q \in Seq(Items) /\ [k \in DOMAIN p |-> p[Len(p) + 1 - k]] \in Seq(Items)
    BY SMTT(30)
  <2>6. LPush(v, c.arg) \in Seq(Items) /\ RPush(v, c.arg) \in Seq(Items)
    BY <2>2, <2>4, <2>5 DEF LPush, RPush
  <2>7. QED
    BY <2>1, <2>3, <2>6 DEF written
<1>4. CASE t = "zset"
  <2>1. c.op = "ZADD" /\ c.arg \in Items \X {1, 2}
    BY <1>4 DEF CommandsOf, ZSetCommands, isRemoval
  <2>2. c.arg[1] \in Items /\ c.arg[2] \in {1, 2}
    BY <2>1, SMTT(30)
  <2>3. v \in Maps({1, 2}) \cup {Absent} /\ Held(t) = Maps({1, 2})
    BY <1>4 DEF Values, Held
  <2>4. ZAdd(v, c.arg[1], c.arg[2]) \in Maps({1, 2})
    BY <2>2, <2>3, MapWith DEF ZAdd
  <2>5. QED
    BY <2>1, <2>3, <2>4 DEF written
<1>5. QED
  BY <1>1, <1>2, <1>3, <1>4 DEF Types

\* A removal leaves data of its type, or none.
LEMMA RemovedData ==
    ASSUME NEW t \in Types, NEW c \in CommandsOf(t), isRemoval(c),
           NEW v \in Values(t), removes(c, v)
    PROVE  removed(c, v) \in Values(t)
<1>0. t # "string" /\ v \in Held(t)
  BY DEF isRemoval, removes, CommandsOf, StringCommands, Values
<1>1. CASE t \in {"hash", "zset"}
  <2>1. c.op \in {"HDEL", "ZREM"}
    BY <1>1 DEF CommandsOf, HashCommands, ZSetCommands, isRemoval
  <2>2. Held(t) = Maps({1, 2})
    BY <1>1 DEF Held
  <2>3. HDelete(v, c.arg) \in Maps({1, 2}) /\ ZRem(v, c.arg) \in Maps({1, 2})
    BY <1>0, <2>2, MapWithout DEF HDelete, ZRem
  <2>4. QED
    BY <2>1, <2>2, <2>3 DEF removed, Values
<1>2. CASE t = "list"
  <2>1. c.op \in {"LPOP", "RPOP"}
    BY <1>2 DEF CommandsOf, ListCommands, isRemoval
  <2>2. Held(t) = Seq(Items)
    BY <1>2 DEF Held
  <2>3. v \in Seq(Items) /\ v # <<>>
    BY <1>0, <2>1, <2>2 DEF removes
  <2>4. LPop(v) \in Seq(Items) /\ RPop(v) \in Seq(Items)
    BY <2>3, SMTT(30) DEF LPop, RPop
  <2>5. QED
    BY <2>1, <2>2, <2>4 DEF removed, Values
<1>3. QED
  BY <1>0, <1>1, <1>2 DEF Types

-----------------------------------------------------------------------------
(* Stores.                                                                 *)

\* The fields of a store.
LEMMA StoreParts ==
    ASSUME NEW s \in Store
    PROVE  /\ s.type \in Types \cup {NoType} /\ s.data \in [Types -> AllValues]
           /\ s.expiry \in 0..MaxTime
           /\ \A t \in Types : s.data[t] \in Values(t)
           /\ s = [type |-> s.type, data |-> s.data, expiry |-> s.expiry]
BY DEF Store

\* A store with other data of one type.
LEMMA DataWith ==
    ASSUME NEW s \in Store, NEW t \in Types, NEW v \in Values(t)
    PROVE  /\ [s.data EXCEPT ![t] = v] \in [Types -> AllValues]
           /\ \A x \in Types : [s.data EXCEPT ![t] = v][x] \in Values(x)
<1>1. s.data \in [Types -> AllValues] /\ v \in AllValues
  BY StoreParts DEF AllValues
<1>2. [s.data EXCEPT ![t] = v] \in [Types -> AllValues]
  BY <1>1
<1>3. \A x \in Types : [s.data EXCEPT ![t] = v][x] \in Values(x)
  BY <1>1, StoreParts
<1>4. QED
  BY <1>2, <1>3

\* A store with other data of one type, another type and expiry.
LEMMA StoreWith ==
    ASSUME NEW s \in Store, NEW u \in Types \cup {NoType}, NEW t \in Types,
           NEW v \in Values(t), NEW e \in 0..MaxTime
    PROVE  [type |-> u, data |-> [s.data EXCEPT ![t] = v], expiry |-> e] \in Store
BY DataWith DEF Store

\* NewKVStore makes a store.
LEMMA EmptyStore == Empty \in Store
<1>1. 0 \in 0..MaxTime
  BY KVStoreAssumption, SMTT(30)
<1>2. \A t \in Types : Absent \in Values(t)
  BY DEF Values
<1>3. [t \in Types |-> Absent] \in [Types -> AllValues]
  BY <1>2 DEF AllValues
<1>4. QED
  BY <1>1, <1>2, <1>3 DEF Empty, Store

\* deleteKey leaves a store.
LEMMA DeletedStore ==
    ASSUME NEW s \in Store, NEW t \in Types
    PROVE  deleteKey(s, t) \in Store
<1>1. 0 \in 0..MaxTime /\ Absent \in Values(t)
  BY KVStoreAssumption, SMTT(30) DEF Values
<1>2. QED
  BY <1>1, StoreWith DEF deleteKey

\* A store without an expiry, and one without a type.
LEMMA StoreWithout ==
    ASSUME NEW s \in Store
    PROVE  /\ [s EXCEPT !.expiry = 0] \in Store
           /\ [s EXCEPT !.type = NoType] \in Store
           /\ \A t \in Types : [s EXCEPT !.data[t] = Absent] \in Store
<1>0. 0 \in 0..MaxTime
  BY KVStoreAssumption, SMTT(30)
<1>1. [s EXCEPT !.expiry = 0] \in Store
  BY <1>0 DEF Store
<1>2. [s EXCEPT !.type = NoType] \in Store
  BY DEF Store
<1>3. ASSUME NEW t \in Types PROVE [s EXCEPT !.data[t] = Absent] \in Store
  <2>. DEFINE d == [s.data EXCEPT ![t] = Absent]
  <2>1. [s EXCEPT !.data[t] = Absent] = [s EXCEPT !.data = d]
    OBVIOUS
  <2>2. d \in [Types -> AllValues] /\ \A x \in Types : d[x] \in Values(x)
    BY DataWith DEF Values
  <2>. HIDE DEF d
  <2>3. [s EXCEPT !.data = d] \in Store
    BY <2>2 DEF Store
  <2>4. QED
    BY <2>1, <2>3
<1>4. QED
  BY <1>1, <1>2, <1>3

\* A store in which a removal has changed the data of its type.
LEMMA StoreAfterRemoval ==
    ASSUME NEW s \in Store, NEW t \in Types, NEW v \in Values(t)
    PROVE  /\ [s EXCEPT !.data[t] = v] \in Store
           /\ [s EXCEPT !.data[t] = v]
                = [type |-> s.type, data |-> [s.data EXCEPT ![t] = v], expiry |-> s.expiry]
<1>. DEFINE d == [s.data EXCEPT ![t] = v]
<1>1. [s EXCEPT !.data[t] = v] = [s EXCEPT !.data = d]
  OBVIOUS
<1>2. [type |-> s.type, data |-> d, expiry |-> s.expiry] \in Store
  BY StoreParts, StoreWith
<1>. HIDE DEF d
<1>3. [s EXCEPT !.data = d] = [type |-> s.type, data |-> d, expiry |-> s.expiry]
  <2>1. s = [type |-> s.type, data |-> s.data, expiry |-> s.expiry]
    BY StoreParts
  <2>2. \A u, x, e : s = [type |-> u, data |-> x, expiry |-> e]
           => [s EXCEPT !.data = d] = [type |-> u, data |-> d, expiry |-> e]
    BY SMTT(30)
  <2>3. QED
    BY <2>1, <2>2
<1>4. QED
  BY <1>1, <1>2, <1>3 DEF d

\* A command makes a store of a store.
LEMMA CurrentStore ==
    ASSUME NEW s \in Store, NEW t \in Types, NEW time
    PROVE  current(s, t, time) \in Store
BY DeletedStore DEF current

\* A command that writes leaves a store.
LEMMA WriteStore ==
    ASSUME NEW t \in Types, NEW c \in CommandsOf(t), ~isRemoval(c), c.op # "DEL",
           NEW s \in Store, NEW time
    PROVE  write(c, s, time) \in Store
<1>. DEFINE f == current(s, t, time)
<1>0. c.type = t
  BY CommandParts
<1>1. f \in Store
  BY CurrentStore
<1>. HIDE DEF f
<1>2. written(c, f.data[t]) \in Values(t)
  BY <1>1, StoreParts, WrittenData DEF Values
<1>3. expiryAfter(c, f, time) \in 0..MaxTime
  BY <1>1, StoreParts, CommandParts DEF expiryAfter
<1>4. [type |-> t, data |-> [f.data EXCEPT ![t] = written(c, f.data[t])],
       expiry |-> expiryAfter(c, f, time)] \in Store
  BY <1>1, <1>2, <1>3, StoreWith
<1>5. QED
  BY <1>0, <1>1, <1>4 DEF write, f

\* So does a command that removes,
LEMMA RemoveStore ==
    ASSUME NEW t \in Types, NEW c \in CommandsOf(t), isRemoval(c),
           NEW s \in Store, NEW time
    PROVE  remove(c, s, time) \in Store
<1>0. c.type = t /\ deleteKey(s, t) \in Store
  BY CommandParts, DeletedStore
<1>1. ASSUME removes(c, s.data[t])
      PROVE  [s EXCEPT !.data[t] = removed(c, s.data[t])] \in Store
  <2>1. removed(c, s.data[t]) \in Values(t)
    BY <1>1, StoreParts, RemovedData
  <2>2. QED
    BY <2>1, StoreAfterRemoval
<1>2. QED
  BY <1>0, <1>1 DEF remove

\* and so does every command that KVStore.Apply takes.
LEMMA ResultStore ==
    ASSUME NEW c \in Command, NEW s \in Store, NEW time
    PROVE  Result(c, s, time) \in Store
<1>1. PICK t \in Types : c \in CommandsOf(t)
  BY DEF Command
<1>2. CASE c.op = "DEL"
  <2>1. deleteKey(s, "string") \in Store
    BY DeletedStore DEF Types
  <2>2. Result(c, s, time) = deleteKey(s, "string")
    BY <1>2 DEF Result, isRemoval
  <2>3. QED
    BY <2>1, <2>2
<1>3. CASE c.op # "DEL" /\ isRemoval(c)
  BY <1>1, <1>3, RemoveStore DEF Result
<1>4. CASE c.op # "DEL" /\ ~isRemoval(c)
  BY <1>1, <1>4, WriteStore DEF Result
<1>5. QED
  BY <1>2, <1>3, <1>4

-----------------------------------------------------------------------------
(* Types.                                                                  *)

\* The types hold at the start, and each action keeps them.
LEMMA InitTypes ==
    ASSUME Init
    PROVE  KVTypes
<1>1. log \in Seq(Command) /\ Len(log) <= MaxCommands /\ 0 \in 0..Len(log) /\ now \in 0..MaxTime
  BY KVStoreAssumption, SMTT(30) DEF Init
<1>2. NoJob \in Job
  BY DEF NoJob, Job, Deleting
<1>3. QED
  BY <1>1, <1>2, EmptyStore DEF Init, KVTypes

\* A command is appended to the log.
LEMMA ProposeTypes ==
    ASSUME KVTypes, propose
    PROVE  KVTypes'
<1>1. PICK c \in Command : log' = Append(log, c)
  BY DEF propose, Command, UsedTypes, KVTypes
<1>2. log' \in Seq(Command) /\ Len(log') = Len(log) + 1 /\ Len(log) \in Nat
  BY <1>1, SMTT(30) DEF KVTypes
<1>3. Len(log) < MaxCommands /\ Len(log) <= MaxCommands
  BY DEF propose, KVTypes
<1>4. Len(log') <= MaxCommands /\ \A n \in 0..Len(log) : n \in 0..Len(log')
  BY <1>2, <1>3, KVStoreAssumption, SMTT(30)
<1>5. applied' \in [Replicas -> 0..Len(log')] /\ snapshot' \in [applied : 0..Len(log'), store : Store]
  BY <1>4 DEF propose, KVTypes
<1>6. QED
  BY <1>2, <1>4, <1>5 DEF propose, KVTypes

\* The clock moves.
LEMMA TickTypes ==
    ASSUME KVTypes, tick
    PROVE  KVTypes'
<1>1. now' \in 0..MaxTime
  BY KVStoreAssumption, SMTT(30) DEF tick, KVTypes
<1>2. QED
  BY <1>1 DEF tick, KVTypes

\* KVStore.Apply.
LEMMA ApplyTypes ==
    ASSUME KVTypes, NEW r \in Replicas, Apply(r)
    PROVE  KVTypes'
<1>1. applied[r] + 1 \in 0..Len(log) /\ log[applied[r] + 1] \in Command
  <2>1. applied[r] \in 0..Len(log) /\ applied[r] < Len(log)
    BY DEF KVTypes, Apply
  <2>2. QED
    BY <2>1, SMTT(30) DEF KVTypes
<1>2. Result(log[applied[r] + 1], store[r], now) \in Store
  BY <1>1, ResultStore DEF KVTypes
<1>3. applied' \in [Replicas -> 0..Len(log)]
  BY <1>1 DEF KVTypes, Apply
<1>4. store' \in [Replicas -> Store]
  BY <1>2 DEF KVTypes, Apply
<1>5. QED
  BY <1>3, <1>4 DEF KVTypes, Apply

\* TTLManager.cleanup.
LEMMA CleanupTypes ==
    ASSUME KVTypes, NEW r \in Replicas, cleanup(r)
    PROVE  KVTypes'
<1>1. [store[r] EXCEPT !.expiry = 0] \in Store
  BY StoreWithout DEF KVTypes
<1>2. store' \in [Replicas -> Store]
  BY <1>1 DEF KVTypes, cleanup
<1>3. [job[r]["cleaner"] EXCEPT !.pc = "type"] \in Job /\ job[r] \in [Workers -> Job]
  <2>1. job[r] \in [Workers -> Job]
    BY DEF KVTypes
  <2>2. job[r]["cleaner"] \in Job
    BY <2>1 DEF Workers
  <2>3. QED
    BY <2>1, <2>2 DEF Job, Deleting
<1>4. [job[r] EXCEPT !["cleaner"].pc = "type"] \in [Workers -> Job]
  BY <1>3
<1>5. job' \in [Replicas -> [Workers -> Job]]
  BY <1>4 DEF KVTypes, cleanup
<1>6. QED
  BY <1>2, <1>5 DEF KVTypes, cleanup

\* The callback of the cleanup.
LEMMA OnExpireTypes ==
    ASSUME KVTypes, NEW r \in Replicas, onExpire(r)
    PROVE  KVTypes'
<1>1. store[r].type \in Types \cup {NoType}
  BY StoreParts DEF KVTypes
<1>2. PICK j \in Job : job' = [job EXCEPT ![r]["cleaner"] = j]
  <2>1. ASSUME store[r].type \in Types PROVE [pc |-> "data", type |-> store[r].type] \in Job
    BY <2>1 DEF Job, Deleting
  <2>2. NoJob \in Job
    BY DEF NoJob, Job, Deleting
  <2>3. CASE store[r].type = NoType
    BY <2>2, <2>3 DEF onExpire, expiredType
  <2>4. CASE store[r].type # NoType
    BY <1>1, <2>1, <2>4 DEF onExpire, expiredType
  <2>5. QED
    BY <2>3, <2>4
<1>3. [job[r] EXCEPT !["cleaner"] = j] \in [Workers -> Job]
  BY DEF KVTypes
<1>4. job' \in [Replicas -> [Workers -> Job]]
  BY <1>2, <1>3 DEF KVTypes
<1>5. QED
  BY <1>4 DEF KVTypes, onExpire

\* A read of an expired key starts to delete it.
LEMMA ReadExpiredTypes ==
    ASSUME KVTypes, NEW r \in Replicas, NEW t \in UsedTypes, readExpired(r, t)
    PROVE  KVTypes'
<1>1. PICK j \in Job : job' = [job EXCEPT ![r]["reader"] = j]
  <2>1. [pc |-> "data", type |-> t] \in Job
    BY DEF UsedTypes, KVTypes, Job, Deleting
  <2>2. QED
    BY <2>1 DEF readExpired
<1>2. [job[r] EXCEPT !["reader"] = j] \in [Workers -> Job]
  BY DEF KVTypes
<1>3. job' \in [Replicas -> [Workers -> Job]]
  BY <1>1, <1>2 DEF KVTypes
<1>4. QED
  BY <1>3 DEF KVTypes, readExpired

\* A worker goes one step further.
LEMMA JobTypes ==
    ASSUME KVTypes, NEW r \in Replicas, NEW w \in Workers,
           job[r][w].pc \in Deleting, NEW p \in Deleting
    PROVE  /\ [job EXCEPT ![r][w].pc = p] \in [Replicas -> [Workers -> Job]]
           /\ [job EXCEPT ![r][w] = NoJob] \in [Replicas -> [Workers -> Job]]
<1>1. job[r] \in [Workers -> Job] /\ NoJob \in Job
  BY DEF KVTypes, Job, NoJob, Deleting
<1>2. [job[r][w] EXCEPT !.pc = p] \in Job
  <2>1. job[r][w] \in Job
    BY <1>1
  <2>2. QED
    BY <2>1 DEF Job
<1>3. [job[r] EXCEPT ![w].pc = p] \in [Workers -> Job] /\ [job[r] EXCEPT ![w] = NoJob] \in [Workers -> Job]
  BY <1>1, <1>2
<1>4. QED
  BY <1>3 DEF KVTypes

\* It deletes the data,
LEMMA DeleteDataTypes ==
    ASSUME KVTypes, NEW r \in Replicas, NEW w \in Workers, deleteData(r, w)
    PROVE  KVTypes'
<1>0. job[r][w] \in Job
  BY DEF KVTypes
<1>1. [store[r] EXCEPT !.data[job[r][w].type] = Absent] \in Store
  BY <1>0, StoreWithout DEF KVTypes, deleteData, Job, Deleting
<1>2. store' \in [Replicas -> Store]
  BY <1>1 DEF KVTypes, deleteData
<1>3. job' \in [Replicas -> [Workers -> Job]]
  BY JobTypes DEF deleteData, Deleting
<1>4. QED
  BY <1>2, <1>3 DEF KVTypes, deleteData

\* the expiry
LEMMA DeleteExpiryTypes ==
    ASSUME KVTypes, NEW r \in Replicas, NEW w \in Workers, deleteExpiry(r, w)
    PROVE  KVTypes'
<1>1. [store[r] EXCEPT !.expiry = 0] \in Store
  BY StoreWithout DEF KVTypes
<1>2. store' \in [Replicas -> Store]
  BY <1>1 DEF KVTypes, deleteExpiry
<1>3. job' \in [Replicas -> [Workers -> Job]]
  BY JobTypes DEF deleteExpiry, Deleting
<1>4. QED
  BY <1>2, <1>3 DEF KVTypes, deleteExpiry

\* and the type.
LEMMA DeleteTypeTypes ==
    ASSUME KVTypes, NEW r \in Replicas, NEW w \in Workers, DeleteType(r, w)
    PROVE  KVTypes'
<1>1. [store[r] EXCEPT !.type = NoType] \in Store
  BY StoreWithout DEF KVTypes
<1>2. store' \in [Replicas -> Store]
  BY <1>1 DEF KVTypes, DeleteType
<1>3. job' \in [Replicas -> [Workers -> Job]]
  BY JobTypes DEF DeleteType, Deleting
<1>4. QED
  BY <1>2, <1>3 DEF KVTypes, DeleteType

\* KVStore.Snapshot.
LEMMA SnapshotTypes ==
    ASSUME KVTypes, NEW r \in Replicas, Snapshot(r)
    PROVE  KVTypes'
<1>1. snapshot' \in [applied : 0..Len(log), store : Store]
  BY DEF KVTypes, Snapshot
<1>2. QED
  BY <1>1 DEF KVTypes, Snapshot

\* KVStore.Restore.
LEMMA RestoreTypes ==
    ASSUME KVTypes, NEW r \in Replicas, Restore(r)
    PROVE  KVTypes'
<1>1. snapshot.applied \in 0..Len(log) /\ snapshot.store \in Store
  BY DEF KVTypes
<1>2. applied' \in [Replicas -> 0..Len(log)]
  BY <1>1 DEF KVTypes, Restore
<1>3. store' \in [Replicas -> Store]
  BY <1>1 DEF KVTypes, Restore
<1>4. QED
  BY <1>2, <1>3 DEF KVTypes, Restore

\* Every step keeps the types.
LEMMA NextTypes ==
    ASSUME KVTypes, [Next]_vars
    PROVE  KVTypes'
<1>1. CASE Next
  <2>1. Background \subseteq Replicas
    BY KVStoreAssumption
  <2>2. QED
    BY <1>1, <2>1, ProposeTypes, TickTypes, ApplyTypes, CleanupTypes, OnExpireTypes, ReadExpiredTypes,
       DeleteDataTypes, DeleteExpiryTypes, DeleteTypeTypes, SnapshotTypes, RestoreTypes DEF Next
<1>2. CASE UNCHANGED vars
  BY <1>2 DEF vars, KVTypes
<1>3. QED
  BY <1>1, <1>2

\* KVTypes says more than the type invariant of the run.
LEMMA TypesImplyTypeOK ==
    ASSUME KVTypes
    PROVE  TypeOK
<1>1. \A r \in Replicas : /\ store[r].type \in Types \cup {NoType} /\ DOMAIN store[r].data = Types
                          /\ store[r].expiry \in 0..MaxTime
  BY StoreParts DEF KVTypes
<1>2. \A r \in Replicas : job[r] \in [Workers -> [pc: {"idle", "type", "data", "expiry", "end"},
                                                  type: Types \cup {NoType}]]
  BY DEF KVTypes, Job, Deleting
<1>3. QED
  BY <1>1, <1>2 DEF KVTypes, TypeOK

\* Every variable of the state machine keeps its type, whatever the types with which
\* clients use the key and however deletions, commands and snapshots overlap.
THEOREM KVTypeCorrect == Spec => []TypeOK
<1>1. Init => KVTypes
  BY InitTypes
<1>2. KVTypes /\ [Next]_vars => KVTypes'
  BY NextTypes
<1>3. KVTypes => TypeOK
  BY TypesImplyTypeOK
<1>4. QED
  BY <1>1, <1>2, <1>3, PTL DEF Spec

-----------------------------------------------------------------------------
(* Commands on a key of one kind.                                          *)

\* Store s holds value v of the kind, with expiry e.
Holds(s, v, e) == Agreed(s) /\ s.data[kind] = v /\ s.expiry = e

\* A key after deleteKey holds nothing.
LEMMA HoldsDeleted ==
    ASSUME kind \in Types, NEW s \in Store, Single(s)
    PROVE  Holds(deleteKey(s, kind), Absent, 0)
<1>1. s.data \in [Types -> AllValues]
  BY StoreParts
<1>2. PICK d : d = [s.data EXCEPT ![kind] = Absent]
  OBVIOUS
<1>3. d[kind] = Absent /\ \A t \in Types \ {kind} : d[t] = Absent
  BY <1>1, <1>2 DEF Single
<1>4. deleteKey(s, kind) = [type |-> NoType, data |-> d, expiry |-> 0]
  BY <1>2 DEF deleteKey
<1>5. PICK k : k = deleteKey(s, kind)
  OBVIOUS
<1>6. k.type = NoType /\ k.data = d /\ k.expiry = 0
  BY <1>4, <1>5, SMTT(30)
<1>7. QED
  BY <1>3, <1>5, <1>6 DEF Holds, Agreed, Single

\* A value that is put into a store.
LEMMA HoldsValue ==
    ASSUME kind \in Types, NEW s \in Store, Single(s), NEW v, v # Absent, NEW e
    PROVE  Holds([type |-> kind, data |-> [s.data EXCEPT ![kind] = v], expiry |-> e], v, e)
<1>1. s.data \in [Types -> AllValues] /\ kind # NoType
  BY StoreParts DEF Types, NoType
<1>2. PICK d : d = [s.data EXCEPT ![kind] = v]
  OBVIOUS
<1>3. d[kind] = v /\ \A t \in Types \ {kind} : d[t] = Absent
  BY <1>1, <1>2 DEF Single
<1>4. QED
  BY <1>1, <1>2, <1>3 DEF Holds, Agreed, Single

\* The key of store s at the given time.
AtTime(s, time) == IF isExpired(s, time) THEN Empty ELSE s

EffectExpiry(c, v, e) == IF v = Absent THEN 0 ELSE IF c.sets THEN c.expiry ELSE e

\* A key after a command that writes holds the new value with its expiry.
LEMMA WriteHolds ==
    ASSUME kind \in Types, NEW c \in CommandsOf(kind), ~isRemoval(c), c.op # "DEL",
           NEW s \in Store, Agreed(s), NEW time,
           NEW v, v = Effect(c, AtTime(s, time).data[kind])
    PROVE  Holds(Result(c, s, time), v, EffectExpiry(c, v, AtTime(s, time).expiry))
<1>. DEFINE f == current(s, kind, time)
<1>0. c.type = kind /\ Result(c, s, time) = write(c, s, time)
  BY CommandParts DEF Result
<1>1. f \in Store /\ Single(f)
  BY CurrentStore, HoldsDeleted DEF current, Holds, Agreed
<1>2. f.data[kind] = AtTime(s, time).data[kind] /\ f.expiry = AtTime(s, time).expiry
  <2>1. CASE isExpired(s, time)
    <3>1. f.data[kind] = Absent /\ f.expiry = 0
      BY <2>1, HoldsDeleted DEF current, Holds, Agreed
    <3>2. QED
      BY <2>1, <3>1 DEF AtTime, Empty
  <2>2. CASE ~isExpired(s, time)
    BY <2>2 DEF AtTime, current
  <2>3. QED
    BY <2>1, <2>2
<1>. HIDE DEF f
<1>3. v = written(c, f.data[kind]) /\ v # Absent
  <2>1. v = written(c, f.data[kind])
    BY <1>2 DEF Effect
  <2>2. written(c, f.data[kind]) \in Held(kind)
    BY <1>1, StoreParts, WrittenData
  <2>3. QED
    BY <2>1, <2>2, HeldIsThere
<1>4. expiryAfter(c, f, time) = EffectExpiry(c, v, AtTime(s, time).expiry)
  BY <1>2, <1>3 DEF expiryAfter, EffectExpiry
<1>5. write(c, s, time) = [type |-> kind, data |-> [f.data EXCEPT ![kind] = v], expiry |-> expiryAfter(c, f, time)]
  <2>1. f.type \in {NoType, c.type}
    BY <1>0, <1>1 DEF Single
  <2>2. QED
    BY <1>0, <1>3, <2>1 DEF write, f
<1>6. QED
  BY <1>0, <1>1, <1>3, <1>4, <1>5, HoldsValue

\* A key after a command that removes holds what is left.
LEMMA RemovalHolds ==
    ASSUME kind \in Types, NEW c \in CommandsOf(kind), isRemoval(c), c.op # "DEL",
           NEW s \in Store, Agreed(s), NEW time,
           NEW v, v = Effect(c, AtTime(s, time).data[kind])
    PROVE  Holds(Result(c, s, time), v, EffectExpiry(c, v, AtTime(s, time).expiry))
<1>0. c.type = kind /\ Result(c, s, time) = remove(c, s, time) /\ ~c.sets /\ s.type \in {NoType, c.type}
  BY CommandParts DEF Result, Agreed, Single
<1>1. CASE isExpired(s, time)
  <2>1. Result(c, s, time) = deleteKey(s, kind)
    BY <1>0, <1>1 DEF remove
  <2>2. v = Absent
    BY <1>1 DEF AtTime, Empty, Effect, removes
  <2>3. QED
    BY <2>1, <2>2, HoldsDeleted DEF Agreed, EffectExpiry
<1>2. CASE ~isExpired(s, time) /\ ~removes(c, s.data[kind])
  <2>1. Result(c, s, time) = s
    BY <1>0, <1>2 DEF remove
  <2>2. v = s.data[kind] /\ AtTime(s, time) = s
    BY <1>2 DEF AtTime, Effect
  <2>3. EffectExpiry(c, v, s.expiry) = s.expiry
    BY <1>0, <2>2 DEF EffectExpiry, Agreed, Single
  <2>4. QED
    BY <2>1, <2>2, <2>3 DEF Holds
<1>3. CASE ~isExpired(s, time) /\ removes(c, s.data[kind])
  <2>1. v = removed(c, s.data[kind]) /\ AtTime(s, time) = s
    BY <1>3 DEF AtTime, Effect
  <2>2. CASE v = Absent
    <3>1. Result(c, s, time) = deleteKey(s, kind)
      BY <1>0, <1>3, <2>1, <2>2 DEF remove
    <3>2. QED
      BY <2>2, <3>1, HoldsDeleted DEF Agreed, EffectExpiry
  <2>3. CASE v # Absent
    <3>1. Result(c, s, time) = [s EXCEPT !.data[kind] = v]
      BY <1>0, <1>3, <2>1, <2>3 DEF remove
    <3>2. v \in Values(kind)
      BY <1>3, <2>1, StoreParts, RemovedData
    <3>3. s.type = kind
      BY <1>3 DEF removes, Agreed, Single
    <3>4. Result(c, s, time) = [type |-> kind, data |-> [s.data EXCEPT ![kind] = v], expiry |-> s.expiry]
      BY <3>1, <3>2, <3>3, StoreAfterRemoval
    <3>5. EffectExpiry(c, v, s.expiry) = s.expiry
      BY <1>0, <2>3 DEF EffectExpiry
    <3>6. QED
      BY <2>1, <2>3, <3>4, <3>5, HoldsValue DEF Agreed
  <2>4. QED
    BY <2>2, <2>3
<1>4. QED
  BY <1>1, <1>2, <1>3

\* Apply of a command does to a key of one kind what the command does to a plain value
\* with an expiry.
LEMMA ResultHolds ==
    ASSUME kind \in Types, NEW c \in CommandsOf(kind),
           NEW s \in Store, Agreed(s), NEW time,
           NEW v, v = Effect(c, AtTime(s, time).data[kind])
    PROVE  Holds(Result(c, s, time), v, EffectExpiry(c, v, AtTime(s, time).expiry))
<1>1. CASE c.op = "DEL"
  <2>1. kind = "string"
    BY <1>1, CommandParts
  <2>2. Result(c, s, time) = deleteKey(s, kind) /\ v = Absent
    BY <1>1, <2>1 DEF Result, Effect, isRemoval
  <2>3. QED
    BY <2>2, HoldsDeleted DEF Agreed, EffectExpiry
<1>2. CASE c.op # "DEL" /\ isRemoval(c)
  BY <1>2, RemovalHolds
<1>3. CASE c.op # "DEL" /\ ~isRemoval(c)
  BY <1>3, WriteHolds
<1>4. QED
  BY <1>1, <1>2, <1>3

-----------------------------------------------------------------------------
(* A key of one kind.                                                      *)

\* A replica whose store and jobs a step leaves alone keeps its invariant.
LEMMA Untouched ==
    ASSUME NEW q \in Replicas, ReplicaInv(q), kind' = kind,
           store'[q] = store[q], job'[q] = job[q]
    PROVE  ReplicaInv(q)'
<1>1. Single(store[q])' /\ (AtRest(q) => Agreed(store[q]))'
  BY DEF ReplicaInv, Single, Agreed, AtRest
<1>2. JobInv(q)'
  BY DEF ReplicaInv, JobInv
<1>3. QED
  BY <1>1, <1>2 DEF ReplicaInv

\* A store that is replaced while nobody is deleting the key.
LEMMA Replaced ==
    ASSUME NEW r \in Replicas, AtRest(r), kind' = kind, job'[r] = job[r], Agreed(store'[r])
    PROVE  ReplicaInv(r)'
<1>1. Single(store[r])' /\ Agreed(store[r])'
  BY DEF Single, Agreed
<1>2. JobInv(r)'
  BY DEF AtRest, JobInv, Deleting, Workers
<1>3. QED
  BY <1>1, <1>2 DEF ReplicaInv

\* The invariant holds at the start, and each action keeps it.
LEMMA InitInv ==
    ASSUME Init
    PROVE  KVInv
<1>1. log \in Seq(CommandsOf(kind))
  BY SMTT(30) DEF Init
<1>2. kind \in Types /\ \A t \in Types : Empty.data[t] = Absent
  BY DEF Init, Empty
<1>3. Empty.type = NoType /\ Empty.expiry = 0
  BY DEF Empty
<1>4. Agreed(Empty)
  BY <1>2, <1>3 DEF Agreed, Single
<1>5. ASSUME NEW r \in Replicas PROVE ReplicaInv(r)
  <2>1. store[r] = Empty /\ \A w \in Workers : job[r][w] = NoJob
    BY DEF Init
  <2>2. NoJob.pc = "idle" /\ "cleaner" \in Workers
    BY DEF NoJob, Workers
  <2>3. JobInv(r)
    BY <2>1, <2>2 DEF JobInv, Deleting
  <2>4. QED
    BY <1>4, <2>1, <2>3 DEF ReplicaInv, Agreed
<1>6. Agreed(snapshot.store)
  BY <1>4 DEF Init
<1>7. QED
  BY <1>1, <1>5, <1>6, InitTypes DEF KVInv

\* Clients use the key with its kind only.
LEMMA ProposeInv ==
    ASSUME ~MixedTypes, KVInv, propose
    PROVE  KVInv'
<1>1. PICK c \in CommandsOf(kind) : log' = Append(log, c)
  BY DEF propose, UsedTypes
<1>2. log' \in Seq(CommandsOf(kind))
  BY <1>1, SMTT(30) DEF KVInv
<1>3. kind' = kind /\ store' = store /\ job' = job /\ snapshot' = snapshot
  BY DEF propose
<1>4. (log \in Seq(CommandsOf(kind)))' /\ Agreed(snapshot.store)'
  BY <1>2, <1>3 DEF KVInv, Agreed, Single, CommandsOf
<1>5. \A r \in Replicas : ReplicaInv(r)'
  BY <1>3, Untouched DEF KVInv
<1>6. QED
  BY <1>4, <1>5, ProposeTypes DEF KVInv

\* The clock is no part of it.
LEMMA TickInv ==
    ASSUME KVInv, tick
    PROVE  KVInv'
<1>1. kind' = kind /\ log' = log /\ store' = store /\ job' = job /\ snapshot' = snapshot
  BY DEF tick
<1>2. (log \in Seq(CommandsOf(kind)))' /\ Agreed(snapshot.store)'
  BY <1>1 DEF KVInv, Agreed, Single, CommandsOf
<1>3. \A r \in Replicas : ReplicaInv(r)'
  BY <1>1, Untouched DEF KVInv
<1>4. QED
  BY <1>2, <1>3, TickTypes DEF KVInv

\* The parts of the invariant that a step of one replica does not touch.
LEMMA OneReplica ==
    ASSUME KVInv, KVTypes', NEW r \in Replicas, ReplicaInv(r)',
           kind' = kind, log' = log, snapshot' = snapshot,
           \A q \in Replicas \ {r} : store'[q] = store[q] /\ job'[q] = job[q]
    PROVE  KVInv'
<1>1. (log \in Seq(CommandsOf(kind)))' /\ Agreed(snapshot.store)'
  BY DEF KVInv, Agreed, Single, CommandsOf
<1>2. \A q \in Replicas \ {r} : ReplicaInv(q)'
  BY Untouched DEF KVInv
<1>3. QED
  BY <1>1, <1>2 DEF KVInv

\* KVStore.Apply on a replica at rest.
LEMMA ApplyInv ==
    ASSUME KVInv, NEW r \in Replicas, Apply(r), DeletionsAreAlone
    PROVE  KVInv'
<1>1. applied[r] \in Nat /\ applied[r] < Len(log) /\ applied'[r] = applied[r] + 1
  <2>1. applied[r] \in 0..Len(log) /\ applied[r] < Len(log)
    BY DEF KVInv, KVTypes, Apply
  <2>2. applied'[r] = applied[r] + 1
    BY DEF KVInv, KVTypes, Apply
  <2>3. QED
    BY <2>1, <2>2, SMTT(30) DEF KVInv
<1>2. AtRest(r) /\ log[applied[r] + 1] \in CommandsOf(kind)
  <2>1. applied'[r] # applied[r] /\ log[applied[r] + 1] \in CommandsOf(kind)
    BY <1>1, SMTT(30) DEF KVInv
  <2>2. QED
    BY <2>1 DEF DeletionsAreAlone
<1>3. store[r] \in Store /\ Agreed(store[r]) /\ kind \in Types
  BY <1>2 DEF KVInv, KVTypes, ReplicaInv
<1>4. Agreed(Result(log[applied[r] + 1], store[r], now))
  <2>1. PICK c \in CommandsOf(kind) : c = log[applied[r] + 1]
    BY <1>2
  <2>2. PICK v : v = Effect(c, AtTime(store[r], now).data[kind])
    OBVIOUS
  <2>3. Holds(Result(c, store[r], now), v, EffectExpiry(c, v, AtTime(store[r], now).expiry))
    BY <1>3, <2>2, ResultHolds
  <2>4. QED
    BY <2>1, <2>3 DEF Holds
<1>5. store'[r] = Result(log[applied[r] + 1], store[r], now)
      /\ \A q \in Replicas \ {r} : store'[q] = store[q]
  BY DEF Apply, KVInv, KVTypes
<1>6. kind' = kind /\ log' = log /\ snapshot' = snapshot /\ job' = job
  BY DEF Apply
<1>7. ReplicaInv(r)'
  BY <1>2, <1>4, <1>5, <1>6, Replaced
<1>8. QED
  BY <1>5, <1>6, <1>7, ApplyTypes, OneReplica DEF KVInv

\* KVStore.Restore brings the agreed store of the snapshot.
LEMMA RestoreInv ==
    ASSUME KVInv, NEW r \in Replicas, Restore(r), DeletionsAreAlone
    PROVE  KVInv'
<1>1. AtRest(r)
  <2>1. snapshot.applied \in 0..Len(log) /\ applied[r] \in 0..Len(log) /\ snapshot.applied > applied[r]
    BY DEF KVInv, KVTypes, Restore
  <2>2. applied'[r] = snapshot.applied
    BY DEF KVInv, KVTypes, Restore
  <2>3. applied'[r] # applied[r]
    BY <2>1, <2>2, SMTT(30)
  <2>4. QED
    BY <2>3 DEF DeletionsAreAlone
<1>2. Agreed(store'[r]) /\ \A q \in Replicas \ {r} : store'[q] = store[q]
  BY <1>1 DEF Restore, KVInv, KVTypes, ReplicaInv
<1>3. kind' = kind /\ log' = log /\ snapshot' = snapshot /\ job' = job
  BY DEF Restore
<1>4. ReplicaInv(r)'
  BY <1>1, <1>2, <1>3, Replaced
<1>5. QED
  BY <1>2, <1>3, <1>4, RestoreTypes, OneReplica DEF KVInv

\* KVStore.Snapshot takes the store of a replica at rest.
LEMMA SnapshotInv ==
    ASSUME KVInv, NEW r \in Replicas, Snapshot(r), DeletionsAreAlone
    PROVE  KVInv'
<1>1. kind' = kind /\ log' = log /\ store' = store /\ job' = job
  BY DEF Snapshot
<1>2. Agreed(snapshot'.store)
  <2>1. CASE snapshot' = snapshot
    BY <2>1 DEF KVInv
  <2>2. CASE snapshot' # snapshot
    <3>1. PICK q \in Replicas : AtRest(q) /\ snapshot' = [applied |-> applied[q], store |-> store[q]]
      BY <2>2 DEF DeletionsAreAlone
    <3>2. Agreed(store[q]) /\ snapshot'.store = store[q]
      BY <3>1 DEF KVInv, ReplicaInv
    <3>3. QED
      BY <3>2
  <2>3. QED
    BY <2>1, <2>2
<1>3. Agreed(snapshot.store)' /\ (log \in Seq(CommandsOf(kind)))'
  BY <1>1, <1>2 DEF KVInv, Agreed, Single, CommandsOf
<1>4. \A q \in Replicas : ReplicaInv(q)'
  BY <1>1, Untouched DEF KVInv
<1>5. QED
  BY <1>3, <1>4, SnapshotTypes DEF KVInv

\* The cleanup sees an expired key, so it has a type and data.
LEMMA CleanupInv ==
    ASSUME KVInv, NEW r \in Replicas, cleanup(r)
    PROVE  KVInv'
<1>1. /\ store[r] \in Store /\ job[r] \in [Workers -> Job] /\ ReplicaInv(r)
      /\ "cleaner" \in Workers /\ job[r]["cleaner"].pc = "idle"
  BY DEF KVInv, KVTypes, Workers, cleanup
<1>2. store[r].type # NoType
  BY <1>1 DEF cleanup, isExpired, ReplicaInv, Single
<1>3. /\ store'[r] = [store[r] EXCEPT !.expiry = 0]
      /\ \A q \in Replicas \ {r} : store'[q] = store[q] /\ job'[q] = job[q]
      /\ job'[r] = [job[r] EXCEPT !["cleaner"].pc = "type"]
  BY DEF cleanup, KVInv, KVTypes
<1>4. store'[r].type = store[r].type /\ store'[r].data = store[r].data /\ store'[r].expiry = 0
  BY <1>1, <1>3 DEF Store
<1>5. job'[r]["cleaner"].pc = "type" /\ \A w \in Workers \ {"cleaner"} : job'[r][w] = job[r][w]
  <2>1. job[r]["cleaner"] \in Job
    BY <1>1
  <2>2. [job[r]["cleaner"] EXCEPT !.pc = "type"].pc = "type"
    BY <2>1 DEF Job
  <2>3. QED
    BY <1>1, <1>3, <2>2
<1>6. kind' = kind /\ log' = log /\ snapshot' = snapshot
  BY DEF cleanup
<1>7. ~AtRest(r)' /\ Single(store[r])'
  <2>1. ~AtRest(r)'
    BY <1>1, <1>5 DEF AtRest
  <2>2. Single(store[r])'
    BY <1>1, <1>2, <1>4, <1>6 DEF ReplicaInv, Single
  <2>3. QED
    BY <2>1, <2>2
<1>8. JobInv(r)'
  <2>1. ASSUME NEW w \in Workers \ {"cleaner"}
        PROVE  /\ job'[r][w].pc \in Deleting => job'[r][w].type = kind
               /\ job'[r][w].pc \in {"expiry", "end"} => store'[r].data[kind] = Absent
    BY <1>1, <1>4, <1>5 DEF ReplicaInv, JobInv
  <2>2. job'[r]["cleaner"].pc \notin Deleting /\ Deleting = {"data", "expiry", "end"}
    BY <1>5 DEF Deleting
  <2>3. QED
    BY <1>4, <1>6, <2>1, <2>2 DEF JobInv
<1>9. QED
  BY <1>3, <1>6, <1>7, <1>8, CleanupTypes, OneReplica DEF KVInv, ReplicaInv

\* The callback gives up when there is no type: then there is nothing to delete.
LEMMA OnExpireInv ==
    ASSUME KVInv, NEW r \in Replicas, onExpire(r)
    PROVE  KVInv'
<1>1. /\ store[r] \in Store /\ job[r] \in [Workers -> Job] /\ ReplicaInv(r)
      /\ "cleaner" \in Workers /\ job[r]["cleaner"].pc = "type"
  BY DEF KVInv, KVTypes, Workers, onExpire
<1>2. store' = store /\ kind' = kind /\ log' = log /\ snapshot' = snapshot
  BY DEF onExpire
<1>3. /\ store[r].type = NoType => job'[r] = [job[r] EXCEPT !["cleaner"] = NoJob]
      /\ store[r].type # NoType =>
            job'[r] = [job[r] EXCEPT !["cleaner"] = [pc |-> "data", type |-> store[r].type]]
      /\ \A q \in Replicas \ {r} : job'[q] = job[q]
  BY DEF onExpire, expiredType, KVInv, KVTypes
<1>4. /\ store[r].type = NoType => job'[r]["cleaner"] = NoJob
      /\ store[r].type # NoType => job'[r]["cleaner"] = [pc |-> "data", type |-> store[r].type]
      /\ \A w \in Workers \ {"cleaner"} : job'[r][w] = job[r][w]
  BY <1>1, <1>3
<1>5. /\ store[r].type = NoType => job'[r]["cleaner"].pc = "idle"
      /\ store[r].type # NoType => job'[r]["cleaner"].pc = "data" /\ job'[r]["cleaner"].type = kind
  <2>1. NoJob.pc = "idle" /\ \A t : LET j == [pc |-> "data", type |-> t] IN j.pc = "data" /\ j.type = t
    BY DEF NoJob
  <2>2. store[r].type # NoType => store[r].type = kind
    BY <1>1 DEF ReplicaInv, Single
  <2>3. QED
    BY <1>4, <2>1, <2>2
<1>6. Single(store[r])' /\ (AtRest(r) => Agreed(store[r]))'
  <2>1. CASE store[r].type = NoType
    BY <1>1, <1>2, <2>1 DEF ReplicaInv, Single, Agreed
  <2>2. CASE store[r].type # NoType
    BY <1>1, <1>2, <1>5, <2>2 DEF ReplicaInv, Single, AtRest
  <2>3. QED
    BY <2>1, <2>2
<1>7. JobInv(r)'
  BY <1>1, <1>2, <1>4, <1>5 DEF ReplicaInv, JobInv, Deleting
<1>8. QED
  BY <1>2, <1>3, <1>6, <1>7, OnExpireTypes, OneReplica DEF KVInv, ReplicaInv

\* A read of an expired key starts to delete its kind.
LEMMA ReadExpiredInv ==
    ASSUME ~MixedTypes, KVInv, NEW r \in Replicas, NEW t \in UsedTypes, readExpired(r, t)
    PROVE  KVInv'
<1>0. t = kind
  BY DEF UsedTypes
<1>1. /\ job[r] \in [Workers -> Job] /\ ReplicaInv(r)
      /\ "reader" \in Workers /\ "cleaner" \in Workers \ {"reader"}
  BY DEF KVInv, KVTypes, Workers
<1>2. store' = store /\ kind' = kind /\ log' = log /\ snapshot' = snapshot
  BY DEF readExpired
<1>3. /\ job'[r] = [job[r] EXCEPT !["reader"] = [pc |-> "data", type |-> kind]]
      /\ \A q \in Replicas \ {r} : job'[q] = job[q]
  BY <1>0 DEF readExpired, KVInv, KVTypes
<1>4. /\ job'[r]["reader"] = [pc |-> "data", type |-> kind]
      /\ \A w \in Workers \ {"reader"} : job'[r][w] = job[r][w]
  BY <1>1, <1>3
<1>5. job'[r]["reader"].pc = "data" /\ job'[r]["reader"].type = kind
  BY <1>4, SMTT(30)
<1>6. ~AtRest(r)' /\ Single(store[r])'
  BY <1>1, <1>2, <1>5 DEF ReplicaInv, Single, AtRest
<1>7. JobInv(r)'
  BY <1>1, <1>2, <1>4, <1>5 DEF ReplicaInv, JobInv, Deleting
<1>8. QED
  BY <1>2, <1>3, <1>6, <1>7, ReadExpiredTypes, OneReplica DEF KVInv, ReplicaInv

\* The steps of a deletion by worker w.
LEMMA JobStep ==
    ASSUME NEW j \in Job, NEW p
    PROVE  [j EXCEPT !.pc = p].pc = p /\ [j EXCEPT !.pc = p].type = j.type
BY DEF Job

\* The worker deletes the data first,
LEMMA DataDeleted ==
    ASSUME KVInv, NEW r \in Replicas, NEW w \in Workers, deleteData(r, w)
    PROVE  KVInv'
<1>1. /\ store[r] \in Store /\ job[r] \in [Workers -> Job] /\ ReplicaInv(r) /\ kind \in Types
      /\ job[r][w].pc = "data" /\ "cleaner" \in Workers
  BY DEF KVInv, KVTypes, Workers, deleteData
<1>2. job[r][w].type = kind
  BY <1>1 DEF ReplicaInv, JobInv, Deleting
<1>3. /\ store'[r] = [store[r] EXCEPT !.data[kind] = Absent]
      /\ \A q \in Replicas \ {r} : store'[q] = store[q] /\ job'[q] = job[q]
      /\ job'[r] = [job[r] EXCEPT ![w].pc = "expiry"]
  BY <1>2 DEF deleteData, KVInv, KVTypes
<1>4. store'[r] = [type |-> store[r].type, data |-> [store[r].data EXCEPT ![kind] = Absent],
                   expiry |-> store[r].expiry]
  BY <1>1, <1>3, StoreAfterRemoval DEF Values
<1>5. /\ store'[r].type = store[r].type /\ store'[r].expiry = store[r].expiry
      /\ store'[r].data[kind] = Absent
      /\ \A t \in Types \ {kind} : store'[r].data[t] = store[r].data[t]
  <2>1. /\ store'[r].type = store[r].type /\ store'[r].expiry = store[r].expiry
        /\ store'[r].data = [store[r].data EXCEPT ![kind] = Absent]
    BY <1>4, SMTT(30)
  <2>2. store[r].data \in [Types -> AllValues]
    BY <1>1, StoreParts
  <2>3. QED
    BY <1>1, <2>1, <2>2
<1>6. /\ job'[r][w].pc = "expiry" /\ job'[r][w].type = job[r][w].type
      /\ \A x \in Workers \ {w} : job'[r][x] = job[r][x]
  <2>1. job[r][w] \in Job
    BY <1>1
  <2>2. PICK j : j = [job[r][w] EXCEPT !.pc = "expiry"] /\ j.pc = "expiry" /\ j.type = job[r][w].type
    BY <2>1, JobStep
  <2>3. job'[r][w] = j /\ \A x \in Workers \ {w} : job'[r][x] = job[r][x]
    BY <1>1, <1>3, <2>2
  <2>4. QED
    BY <2>2, <2>3
<1>7. kind' = kind /\ log' = log /\ snapshot' = snapshot
  BY DEF deleteData
<1>8. ~AtRest(r)' /\ Single(store[r])'
  <2>1. ~AtRest(r)'
    BY <1>6 DEF AtRest
  <2>2. Single(store[r])'
    BY <1>1, <1>5, <1>7 DEF ReplicaInv, Single
  <2>3. QED
    BY <2>1, <2>2
<1>9. JobInv(r)'
  <2>1. ASSUME NEW x \in Workers
        PROVE  /\ job'[r][x].pc \in Deleting => job'[r][x].type = kind
               /\ job'[r][x].pc = "end" => store'[r].expiry = 0
    BY <1>1, <1>2, <1>5, <1>6 DEF ReplicaInv, JobInv
  <2>2. job'[r]["cleaner"].pc # "idle" => store'[r].expiry = 0
    BY <1>1, <1>5, <1>6 DEF ReplicaInv, JobInv
  <2>3. QED
    BY <1>5, <1>7, <2>1, <2>2 DEF JobInv
<1>10. QED
  BY <1>3, <1>7, <1>8, <1>9, DeleteDataTypes, OneReplica DEF KVInv, ReplicaInv

\* then the expiry, when the data is gone,
LEMMA ExpiryDeleted ==
    ASSUME KVInv, NEW r \in Replicas, NEW w \in Workers, deleteExpiry(r, w)
    PROVE  KVInv'
<1>1. /\ store[r] \in Store /\ job[r] \in [Workers -> Job] /\ ReplicaInv(r)
      /\ job[r][w].pc = "expiry"
  BY DEF KVInv, KVTypes, deleteExpiry
<1>2. /\ store'[r] = [store[r] EXCEPT !.expiry = 0]
      /\ \A q \in Replicas \ {r} : store'[q] = store[q] /\ job'[q] = job[q]
      /\ job'[r] = [job[r] EXCEPT ![w].pc = "end"]
  BY DEF deleteExpiry, KVInv, KVTypes
<1>3. store'[r].type = store[r].type /\ store'[r].data = store[r].data /\ store'[r].expiry = 0
  BY <1>1, <1>2 DEF Store
<1>4. /\ job'[r][w].pc = "end" /\ job'[r][w].type = job[r][w].type
      /\ \A x \in Workers \ {w} : job'[r][x] = job[r][x]
  <2>1. job[r][w] \in Job
    BY <1>1
  <2>2. PICK j : j = [job[r][w] EXCEPT !.pc = "end"] /\ j.pc = "end" /\ j.type = job[r][w].type
    BY <2>1, JobStep
  <2>3. job'[r][w] = j /\ \A x \in Workers \ {w} : job'[r][x] = job[r][x]
    BY <1>1, <1>2, <2>2
  <2>4. QED
    BY <2>2, <2>3
<1>5. kind' = kind /\ log' = log /\ snapshot' = snapshot
  BY DEF deleteExpiry
<1>6. ~AtRest(r)' /\ Single(store[r])'
  <2>1. ~AtRest(r)'
    BY <1>4 DEF AtRest
  <2>2. Single(store[r])'
    BY <1>1, <1>3, <1>5 DEF ReplicaInv, Single
  <2>3. QED
    BY <2>1, <2>2
<1>7. JobInv(r)'
  <2>1. job[r][w].type = kind /\ store[r].data[kind] = Absent
    BY <1>1 DEF ReplicaInv, JobInv, Deleting
  <2>2. ASSUME NEW x \in Workers
        PROVE  job'[r][x].pc \in Deleting => job'[r][x].type = kind
    BY <1>1, <1>4, <2>1 DEF ReplicaInv, JobInv
  <2>3. QED
    BY <1>3, <1>5, <2>1, <2>2 DEF JobInv
<1>8. QED
  BY <1>2, <1>5, <1>6, <1>7, DeleteExpiryTypes, OneReplica DEF KVInv, ReplicaInv

\* and the type last, which leaves nothing of the key.
LEMMA TypeDeleted ==
    ASSUME KVInv, NEW r \in Replicas, NEW w \in Workers, DeleteType(r, w)
    PROVE  KVInv'
<1>1. /\ store[r] \in Store /\ job[r] \in [Workers -> Job] /\ ReplicaInv(r)
      /\ job[r][w].pc = "end" /\ "cleaner" \in Workers
  BY DEF KVInv, KVTypes, Workers, DeleteType
<1>2. store[r].data[kind] = Absent /\ store[r].expiry = 0
  BY <1>1 DEF ReplicaInv, JobInv
<1>3. /\ store'[r] = [store[r] EXCEPT !.type = NoType]
      /\ \A q \in Replicas \ {r} : store'[q] = store[q] /\ job'[q] = job[q]
      /\ job'[r] = [job[r] EXCEPT ![w] = NoJob]
  BY DEF DeleteType, KVInv, KVTypes
<1>4. store'[r].type = NoType /\ store'[r].data = store[r].data /\ store'[r].expiry = 0
  BY <1>1, <1>2, <1>3 DEF Store
<1>5. job'[r][w].pc = "idle" /\ \A x \in Workers \ {w} : job'[r][x] = job[r][x]
  <2>1. job'[r][w] = NoJob /\ \A x \in Workers \ {w} : job'[r][x] = job[r][x]
    BY <1>1, <1>3
  <2>2. NoJob.pc = "idle"
    BY DEF NoJob
  <2>3. QED
    BY <2>1, <2>2
<1>6. kind' = kind /\ log' = log /\ snapshot' = snapshot
  BY DEF DeleteType
<1>7. Agreed(store[r])'
  BY <1>1, <1>2, <1>4, <1>6 DEF ReplicaInv, Single, Agreed
<1>8. JobInv(r)'
  <2>1. ASSUME NEW x \in Workers
        PROVE  job'[r][x].pc \in Deleting => job'[r][x].type = kind
    BY <1>1, <1>5 DEF ReplicaInv, JobInv, Deleting
  <2>2. QED
    BY <1>2, <1>4, <1>6, <2>1 DEF JobInv
<1>9. QED
  BY <1>3, <1>6, <1>7, <1>8, DeleteTypeTypes, OneReplica DEF KVInv, ReplicaInv, Agreed

\* Every step in which no deletion is overtaken keeps the invariant.
LEMMA NextInv ==
    ASSUME ~MixedTypes, KVInv, [Next /\ DeletionsAreAlone]_vars
    PROVE  KVInv'
<1>1. CASE Next /\ DeletionsAreAlone
  <2>1. Background \subseteq Replicas
    BY KVStoreAssumption
  <2>2. QED
    BY <1>1, <2>1, ProposeInv, TickInv, ApplyInv, CleanupInv, OnExpireInv, ReadExpiredInv,
       DataDeleted, ExpiryDeleted, TypeDeleted, SnapshotInv, RestoreInv DEF Next
<1>2. CASE UNCHANGED vars
  <2>1. KVTypes'
    BY <1>2, NextTypes DEF KVInv
  <2>2. kind' = kind /\ log' = log /\ snapshot' = snapshot /\ store' = store /\ job' = job
    BY <1>2 DEF vars
  <2>3. (log \in Seq(CommandsOf(kind)))' /\ Agreed(snapshot.store)'
    BY <2>2 DEF KVInv, Agreed, Single, CommandsOf
  <2>4. \A q \in Replicas : ReplicaInv(q)'
    BY <2>2, Untouched DEF KVInv
  <2>5. QED
    BY <2>1, <2>3, <2>4 DEF KVInv
<1>3. QED
  BY <1>1, <1>2

\* The inductive invariant: when clients use a key with one type, and no command,
\* snapshot or restore overtakes a deletion in the background (AloneSpec), a key
\* without a type has neither data nor expiry, and a key that nobody is deleting has a
\* type exactly when it has data, through commands, the cleanup of the TTLManager,
\* which takes the expiry first, reads that delete, Snapshot and Restore.  The code
\* ensures neither condition.
THEOREM KVInvariant ==
    ASSUME ~MixedTypes
    PROVE  AloneSpec => []KVInv
<1>1. Init => KVInv
  BY InitInv
<1>2. KVInv /\ [Next /\ DeletionsAreAlone]_vars => KVInv'
  BY NextInv
<1>3. QED
  BY <1>1, <1>2, PTL DEF AloneSpec

\* The property follows from what the invariant says at rest.
LEMMA AgreedTypeFollowsData ==
    ASSUME KVInv
    PROVE  TypeFollowsData
<1>1. kind \in Types /\ NoType \notin Types
  BY DEF KVInv, KVTypes, Types, NoType
<1>2. ASSUME NEW r \in Replicas, AtRest(r)
      PROVE  /\ \A t \in Types : store[r].type = t <=> store[r].data[t] # Absent
             /\ store[r].type = NoType => store[r].expiry = 0
  <2>1. Agreed(store[r])
    BY <1>2 DEF KVInv, ReplicaInv
  <2>2. QED
    BY <1>1, <2>1 DEF Agreed, Single
<1>3. QED
  BY <1>2 DEF TypeFollowsData

\* keyTypes, the stores and the TTL map tell the same story of a key that nobody is
\* deleting, for any replicas, commands and times, when clients use the key with one
\* type and nothing overtakes a deletion in the background (AloneSpec).  A DEL of a key
\* of another type breaks it.
THEOREM TypesFollowData ==
    ASSUME ~MixedTypes
    PROVE  AloneSpec => []TypeFollowsData
<1>1. KVInv => TypeFollowsData
  BY AgreedTypeFollowsData
<1>2. QED
  BY <1>1, KVInvariant, PTL

-----------------------------------------------------------------------------
(* The reads.                                                              *)

\* The first and the last index of LRANGE i j in list v.
Start(v, i) == fromEnd(i, Len(v))
lastOf(j, n) == IF fromEnd(j, n) >= n THEN n - 1 ELSE fromEnd(j, n)
Stop(v, j) == lastOf(j, Len(v))
Ranged(v, i, j) == IF Start(v, i) >= Len(v) \/ Start(v, i) > Stop(v, j) THEN <<>>
                   ELSE walk(v, Start(v, i), Stop(v, j))

\* Where LRange starts in a list of n elements: a start before the first is cut off.
LEMMA IndexFromEnd ==
    ASSUME NEW n \in Nat, NEW i \in Int
    PROVE  /\ fromEnd(i, n) \in Nat
           /\ \A k \in 1..n : (IF i < 0 THEN n + i ELSE i) <= k - 1 <=> k >= fromEnd(i, n) + 1
BY SMTT(30) DEF fromEnd

\* Where LRange stops: a stop beyond the end is cut off.
LEMMA LastIndex ==
    ASSUME NEW n \in Nat, n > 0, NEW j \in Int, (IF j < 0 THEN n + j ELSE j) >= 0
    PROVE  /\ lastOf(j, n) \in Nat /\ lastOf(j, n) < n
           /\ \A k \in 1..n : k - 1 <= (IF j < 0 THEN n + j ELSE j) <=> k <= lastOf(j, n) + 1
<1>1. CASE j >= 0
  BY <1>1, SMTT(30) DEF fromEnd, lastOf
<1>2. CASE j < 0
  BY <1>2, SMTT(30) DEF fromEnd, lastOf
<1>3. QED
  BY <1>1, <1>2, SMTT(30)

\* The indices before an interval.
LEMMA BeforeInterval ==
    ASSUME NEW n \in Nat, NEW a \in Nat, NEW b \in Nat, b < n, a <= b
    PROVE  1..a = {k \in 1..n : \A x \in (a + 1)..(b + 1) : k < x}
<1>1. ASSUME NEW k \in 1..a PROVE k \in 1..n /\ \A x \in (a + 1)..(b + 1) : k < x
  BY SMTT(30)
<1>2. ASSUME NEW k \in 1..n, \A x \in (a + 1)..(b + 1) : k < x PROVE k \in 1..a
  <2>1. a + 1 \in (a + 1)..(b + 1)
    BY SMTT(30)
  <2>2. k < a + 1
    BY <1>2, <2>1
  <2>3. QED
    BY <2>2, SMTT(30)
<1>3. QED
  BY <1>1, <1>2

\* The length of a row of w elements.
LEMMA LengthOfRow ==
    ASSUME NEW w \in Nat, NEW l, l = [k \in 1..w |-> l[k]]
    PROVE  Len(l) = w
BY SMTT(30)

\* The indices that count from both ends name an interval of the list.
LEMMA NamedIsInterval ==
    ASSUME NEW v \in Seq(Items), v # <<>>, NEW i \in Int, NEW j \in Int, place(v, j) >= 0
    PROVE  /\ Start(v, i) \in Nat /\ Stop(v, j) \in Nat /\ Stop(v, j) < Len(v)
           /\ Named(v, i, j) = (Start(v, i) + 1)..(Stop(v, j) + 1)
<1>1. PICK n : n = Len(v)
  OBVIOUS
<1>2. n \in Nat /\ n > 0 /\ DOMAIN v = 1..n
  BY <1>1, SMTT(30)
<1>3. PICK a, b : a = Start(v, i) /\ b = Stop(v, j)
  OBVIOUS
<1>4. a = fromEnd(i, n) /\ b = lastOf(j, n)
  BY <1>1, <1>3 DEF Start, Stop
<1>5. a \in Nat /\ \A k \in 1..n : place(v, i) <= k - 1 <=> k >= a + 1
  <2>1. /\ fromEnd(i, n) \in Nat
        /\ \A k \in 1..n : (IF i < 0 THEN n + i ELSE i) <= k - 1 <=> k >= fromEnd(i, n) + 1
    BY <1>2, IndexFromEnd
  <2>2. QED
    BY <1>1, <1>4, <2>1 DEF place
<1>6. /\ b \in Nat /\ b < n
      /\ \A k \in 1..n : k - 1 <= place(v, j) <=> k <= b + 1
  <2>0. (IF j < 0 THEN n + j ELSE j) >= 0
    BY <1>1 DEF place
  <2>1. /\ lastOf(j, n) \in Nat /\ lastOf(j, n) < n
        /\ \A k \in 1..n : k - 1 <= (IF j < 0 THEN n + j ELSE j) <=> k <= lastOf(j, n) + 1
    BY <1>2, <2>0, LastIndex
  <2>2. QED
    BY <1>1, <1>4, <2>1 DEF place
<1>7. Named(v, i, j) = {k \in 1..n : k >= a + 1 /\ k <= b + 1}
  BY <1>1, <1>2, <1>5, <1>6 DEF Named
<1>8. n \in Nat /\ a \in Nat /\ b \in Nat /\ b < n
  BY <1>2, <1>5, <1>6
<1>9. (a + 1)..(b + 1) = {k \in 1..n : k >= a + 1 /\ k <= b + 1}
  BY <1>8, SMTT(30)
<1>10. QED
  BY <1>1, <1>3, <1>7, <1>8, <1>9

\* The loop of LRange returns the elements that the indices name, in their order.
LEMMA RangeIsNamed ==
    ASSUME NEW v \in Seq(Items), v # <<>>, NEW i \in Int, NEW j \in Int,
           place(v, j) >= 0, NEW l, l = Ranged(v, i, j)
    PROVE  isNamedRow(l, v, i, j)
<1>. DEFINE before == {q \in DOMAIN v : \A x \in Named(v, i, j) : q < x}
<1>1. PICK a, b : a = Start(v, i) /\ b = Stop(v, j)
  OBVIOUS
<1>2. a \in Nat /\ b \in Nat /\ b < Len(v) /\ Named(v, i, j) = (a + 1)..(b + 1)
  BY <1>1, NamedIsInterval
<1>3. Len(v) \in Nat /\ DOMAIN v = 1..Len(v)
  BY SMTT(30)
<1>4. CASE a > b
  <2>1. l = <<>>
    BY <1>1, <1>4 DEF Ranged
  <2>2. a + 1 \in Int /\ b + 1 \in Int /\ a + 1 > b + 1
    BY <1>2, <1>4, SMTT(30)
  <2>3. Cardinality(Named(v, i, j)) = 0
    BY <1>2, <2>2, FS_Interval
  <2>4. Len(l) = 0 /\ DOMAIN l = {}
    BY <2>1, SMTT(30)
  <2>5. QED
    BY <2>3, <2>4 DEF isNamedRow
<1>5. CASE ~(a > b)
  <2>1. a <= b /\ a < Len(v) /\ a + 1 \in Int /\ b + 1 \in Int /\ ~(a + 1 > b + 1)
        /\ (b + 1) - (a + 1) + 1 = b - a + 1
    BY <1>2, <1>3, <1>5, SMTT(30)
  <2>2. l = walk(v, a, b)
    <3>1. ~(a >= Len(v))
      BY <1>2, <1>3, <2>1, SMTT(30)
    <3>2. QED
      BY <1>1, <1>5, <3>1 DEF Ranged
  <2>3. Len(l) = b - a + 1 /\ DOMAIN l = 1..(b - a + 1) /\ \A k \in DOMAIN l : l[k] = v[a + k]
    <3>1. b - a + 1 \in Nat
      BY <1>2, <2>1, SMTT(30)
    <3>2. DOMAIN l = 1..(b - a + 1) /\ (\A k \in DOMAIN l : l[k] = v[a + k])
          /\ l = [k \in 1..(b - a + 1) |-> l[k]]
      BY <2>2 DEF walk
    <3>3. QED
      BY <3>1, <3>2, LengthOfRow
  <2>4. Cardinality(Named(v, i, j)) = b - a + 1
    BY <1>2, <2>1, FS_Interval
  <2>5. before = 1..a
    <3>1. 1..a = {k \in 1..Len(v) : \A x \in (a + 1)..(b + 1) : k < x}
      BY <1>2, <1>3, <2>1, BeforeInterval
    <3>2. before = {k \in 1..Len(v) : \A x \in (a + 1)..(b + 1) : k < x}
      BY <1>2, <1>3
    <3>3. QED
      BY <3>1, <3>2
  <2>6. Cardinality(before) = a
    <3>1. 1 \in Int /\ a \in Int /\ a - 1 + 1 = a /\ (1 > a => a = 0)
      BY <1>2, SMTT(30)
    <3>2. Cardinality(1..a) = IF 1 > a THEN 0 ELSE a - 1 + 1
      BY <3>1, FS_Interval
    <3>3. QED
      BY <2>5, <3>1, <3>2
  <2>7. ASSUME NEW k \in DOMAIN l PROVE a + k = k + a
    BY <1>2, <2>1, <2>3, SMTT(30)
  <2>8. QED
    BY <2>3, <2>4, <2>6, <2>7 DEF isNamedRow
<1>6. QED
  BY <1>4, <1>5

\* A key that is not there.
LEMMA EmptyKey ==
    ASSUME kind \in Types
    PROVE  Empty.data[kind] = Absent /\ Empty.expiry = 0
BY DEF Empty

\* How a read of a key ends.
LEMMA ReadOutcome ==
    ASSUME kind \in Types, NEW s \in Store, Single(s), NEW v, v = Visible(s, Empty).data[kind]
    PROVE  /\ v = Absent => outcome(s, kind, now) = "ErrKeyNotFound"
           /\ v # Absent => outcome(s, kind, now) = "ok" /\ v = s.data[kind] /\ v \in Held(kind)
<1>1. s.type \in {NoType, kind}
  BY DEF Single
<1>2. CASE isExpired(s, now)
  <2>1. v = Absent
    BY <1>2, EmptyKey DEF Visible
  <2>2. outcome(s, kind, now) = "ErrKeyNotFound"
    BY <1>1, <1>2 DEF outcome
  <2>3. QED
    BY <2>1, <2>2
<1>3. CASE ~isExpired(s, now)
  <2>1. v = s.data[kind]
    BY <1>3 DEF Visible
  <2>2. v \in Values(kind)
    BY <2>1 DEF Store
  <2>3. v = Absent => outcome(s, kind, now) = "ErrKeyNotFound"
    BY <1>1, <2>1 DEF outcome
  <2>4. v # Absent => outcome(s, kind, now) = "ok"
    BY <1>1, <1>3, <2>1 DEF outcome
  <2>5. QED
    BY <2>1, <2>2, <2>3, <2>4 DEF Values
<1>4. QED
  BY <1>2, <1>3

\* The answer to a read that finds the key,
LEMMA FoundAnswer ==
    ASSUME NEW v
    PROVE  answer("ok", v).error = "ok" /\ answer("ok", v).value = v
BY SMTT(30) DEF answer

\* and to one that fails.
LEMMA ErrorAnswer ==
    ASSUME NEW e, e # "ok", NEW v
    PROVE  answer(e, v).error = e
BY SMTT(30) DEF answer

\* The reads of a hash.
LEMMA HashReads ==
    ASSUME NEW s, NEW v, v # Absent => v = s.data["hash"],
           v = Absent => outcome(s, "hash", now) = "ErrKeyNotFound",
           v # Absent => outcome(s, "hash", now) = "ok"
    PROVE  HashShown(s, v)
<1>1. CASE v = Absent
  <2>1. HGetAll(s, now) = answer("ErrKeyNotFound", s.data["hash"])
    BY <1>1 DEF HGetAll
  <2>2. ASSUME NEW f PROVE HGet(s, f, now) = answer("ErrKeyNotFound", Absent)
    BY <1>1 DEF HGet
  <2>3. /\ answer("ErrKeyNotFound", s.data["hash"]).error = "ErrKeyNotFound"
        /\ answer("ErrKeyNotFound", Absent).error = "ErrKeyNotFound"
    BY ErrorAnswer
  <2>4. HGetAll(s, now).error = "ErrKeyNotFound" /\ \A f : HGet(s, f, now).error = "ErrKeyNotFound"
    BY <2>1, <2>2, <2>3
  <2>5. QED
    BY <1>1, <2>4 DEF HashShown
<1>2. CASE v # Absent
  <2>1. HGetAll(s, now) = answer("ok", v)
    BY <1>2 DEF HGetAll
  <2>2. ASSUME NEW f, f \in DOMAIN v
        PROVE  HGet(s, f, now) = answer("ok", v[f]) /\ HExists(s, f, now) = answer("ok", TRUE)
    BY <1>2, <2>2 DEF HGet, HExists
  <2>3. ASSUME NEW f, f \notin DOMAIN v PROVE HGet(s, f, now) = answer("ErrKeyNotFound", Absent)
    BY <1>2, <2>3 DEF HGet
  <2>4. ASSUME NEW f, f \in DOMAIN v PROVE HExists(s, f, now).value
    <3>1. HExists(s, f, now) = answer("ok", TRUE)
      BY <2>2, <2>4
    <3>2. answer("ok", TRUE).value = TRUE
      BY FoundAnswer
    <3>3. QED
      BY <3>1, <3>2
  <2>5. HGetAll(s, now).error = "ok" /\ HGetAll(s, now).value = v
    <3>1. answer("ok", v).error = "ok" /\ answer("ok", v).value = v
      BY FoundAnswer
    <3>2. QED
      BY <2>1, <3>1
  <2>6. ASSUME NEW f, f \notin DOMAIN v PROVE HGet(s, f, now).error = "ErrKeyNotFound"
    <3>1. HGet(s, f, now) = answer("ErrKeyNotFound", Absent)
      BY <2>3, <2>6
    <3>2. answer("ErrKeyNotFound", Absent).error = "ErrKeyNotFound"
      BY ErrorAnswer
    <3>3. QED
      BY <3>1, <3>2
  <2>7. ASSUME NEW f \in Items
        PROVE  IF v # Absent /\ f \in DOMAIN v
               THEN /\ HGet(s, f, now) = answer("ok", v[f])
                    /\ HExists(s, f, now).value /\ HGetAll(s, now).value[f] = v[f]
               ELSE HGet(s, f, now).error = "ErrKeyNotFound"
    <3>1. CASE f \in DOMAIN v
      <4>1. HGet(s, f, now) = answer("ok", v[f]) /\ HExists(s, f, now).value
        BY <2>2, <2>4, <3>1
      <4>2. HGetAll(s, now).value[f] = v[f]
        BY <2>5
      <4>3. QED
        BY <1>2, <3>1, <4>1, <4>2
    <3>2. CASE f \notin DOMAIN v
      BY <2>6, <3>2
    <3>3. QED
      BY <3>1, <3>2
  <2>8. QED
    BY <1>2, <2>5, <2>7 DEF HashShown
<1>3. QED
  BY <1>1, <1>2

\* The reads of a list, for any two indices.
LEMMA ListReads ==
    ASSUME NEW s, NEW v, v # Absent => v = s.data["list"] /\ v \in Seq(Items),
           v = Absent => outcome(s, "list", now) = "ErrKeyNotFound",
           v # Absent => outcome(s, "list", now) = "ok"
    PROVE  /\ LLen(s, now).value = IF v # Absent THEN Len(v) ELSE 0
           /\ \A i, j \in Int : RangeShown(s, v, i, j)
<1>1. CASE v = Absent
  <2>1. LLen(s, now) = answer("ok", 0)
    BY <1>1 DEF LLen
  <2>2. answer("ok", 0).value = 0
    BY FoundAnswer
  <2>3. answer("ErrKeyNotFound", <<>>).error = "ErrKeyNotFound"
    BY ErrorAnswer
  <2>4. ASSUME NEW i \in Int, NEW j \in Int PROVE RangeShown(s, v, i, j)
    <3>1. LRange(s, i, j, now) = answer("ErrKeyNotFound", <<>>)
      BY <1>1 DEF LRange
    <3>2. LRange(s, i, j, now).error # "ok"
      BY <2>3, <3>1
    <3>3. QED
      BY <1>1, <3>2 DEF RangeShown
  <2>5. QED
    BY <1>1, <2>1, <2>2, <2>4
<1>2. CASE v # Absent
  <2>1. LLen(s, now) = answer("ok", Len(v))
    BY <1>2 DEF LLen
  <2>2. answer("ok", Len(v)).value = Len(v)
    BY FoundAnswer
  <2>3. ASSUME NEW i \in Int, NEW j \in Int PROVE RangeShown(s, v, i, j)
    <3>1. CASE v = <<>>
      <4>1. LRange(s, i, j, now) = answer("ErrEmptyList", <<>>)
        BY <1>2, <3>1 DEF LRange
      <4>2. answer("ErrEmptyList", <<>>).error = "ErrEmptyList"
        BY ErrorAnswer
      <4>3. LRange(s, i, j, now).error # "ok"
        BY <4>1, <4>2
      <4>4. QED
        BY <3>1, <4>3 DEF RangeShown
    <3>2. CASE v # <<>>
      <4>0. v \in Seq(Items) /\ v # <<>>
        BY <1>2, <3>2
      <4>1. PICK l : l = Ranged(v, i, j)
        OBVIOUS
      <4>2. LRange(s, i, j, now) = answer("ok", l)
        BY <1>2, <3>2, <4>1 DEF LRange, Ranged, Start, Stop, lastOf
      <4>3. answer("ok", l).value = l
        BY FoundAnswer
      <4>4. LRange(s, i, j, now).value = l
        BY <4>2, <4>3
      <4>5. place(v, j) >= 0 => isNamedRow(l, v, i, j)
        BY <4>0, <4>1, RangeIsNamed
      <4>6. QED
        BY <1>2, <3>2, <4>4, <4>5 DEF RangeShown
    <3>3. QED
      BY <3>1, <3>2
  <2>4. QED
    BY <1>2, <2>1, <2>2, <2>3
<1>3. QED
  BY <1>1, <1>2

\* ExpiringKey lets the key of a store expire as isExpired does.
LEMMA AtOfStore ==
    ASSUME kind \in Types, NEW s, NEW t
    PROVE  /\ Key!At(t, s.data[kind], s.expiry).value = AtTime(s, t).data[kind]
           /\ Key!At(t, s.data[kind], s.expiry).expiry = AtTime(s, t).expiry
<1>1. CASE isExpired(s, t)
  <2>1. Key!At(t, s.data[kind], s.expiry) = [value |-> Absent, expiry |-> 0]
    BY <1>1 DEF Key!At, isExpired
  <2>2. AtTime(s, t) = Empty
    BY <1>1 DEF AtTime
  <2>3. Key!At(t, s.data[kind], s.expiry).value = Absent /\ Key!At(t, s.data[kind], s.expiry).expiry = 0
    BY <2>1, SMTT(30)
  <2>4. QED
    BY <2>2, <2>3, EmptyKey
<1>2. CASE ~isExpired(s, t)
  <2>1. Key!At(t, s.data[kind], s.expiry) = [value |-> s.data[kind], expiry |-> s.expiry]
    BY <1>2 DEF Key!At, isExpired
  <2>2. AtTime(s, t) = s
    BY <1>2 DEF AtTime
  <2>3. /\ Key!At(t, s.data[kind], s.expiry).value = s.data[kind]
        /\ Key!At(t, s.data[kind], s.expiry).expiry = s.expiry
    BY <2>1, SMTT(30)
  <2>4. QED
    BY <2>2, <2>3
<1>3. QED
  BY <1>1, <1>2

\* The reads show what is left of a store.
LEMMA StoreIsShown ==
    ASSUME kind \in Types, NEW s \in Store, Single(s), NEW v, v = Visible(s, Empty).data[kind]
    PROVE  Shown(s, v)
<1>1. /\ v = Absent => outcome(s, kind, now) = "ErrKeyNotFound"
      /\ v # Absent => outcome(s, kind, now) = "ok" /\ v = s.data[kind] /\ v \in Held(kind)
  BY ReadOutcome, SMTT(30)
<1>2. ASSUME kind = "string" PROVE StringShown(s, v)
  <2>1. CASE v # Absent
    BY <1>1, <1>2, <2>1 DEF StringShown, Get
  <2>2. CASE v = Absent
    BY <1>1, <1>2, <2>2 DEF StringShown, Get, answer
  <2>3. QED
    BY <2>1, <2>2
<1>3. ASSUME kind = "hash" PROVE HashShown(s, v)
  BY <1>1, <1>3, HashReads
<1>4. ASSUME kind = "list" PROVE ListShown(s, v)
  <2>1. v # Absent => v = s.data["list"] /\ v \in Seq(Items)
    BY <1>1, <1>4 DEF Held
  <2>2. /\ LLen(s, now).value = IF v # Absent THEN Len(v) ELSE 0
        /\ \A i, j \in Int : RangeShown(s, v, i, j)
    BY <1>1, <1>4, <2>1, ListReads
  <2>3. -3..3 \subseteq Int
    BY SMTT(30)
  <2>4. QED
    BY <2>2, <2>3 DEF ListShown
<1>5. QED
  BY <1>2, <1>3, <1>4 DEF Shown

\* A read that deletes does so for an expired key, or finds that the cleanup was faster.
ReaderOK(r) ==
    /\ job[r]["reader"].pc # "type"
    /\ job[r]["reader"].pc = "data" /\ job[r]["cleaner"].pc = "idle"
          => isExpired(store[r], now) \/ store[r].data[kind] = Absent
ReaderInv == \A r \in Replicas : ReaderOK(r)

\* In every state of the invariants the reads show the visible value.
LEMMA InvariantShowsReads ==
    ASSUME KVInv, ReaderInv
    PROVE  ReadsShowVisible
<1>1. ASSUME NEW r \in Replicas, NEW s, s = store[r]
      PROVE  \/ Shown(s, IF AtRest(r) THEN Key!At(now, s.data[kind], s.expiry).value ELSE Absent)
             \/ job[r]["cleaner"].pc \in {"type", "data"} /\ Shown(s, s.data[kind])
  <2>1. kind \in Types /\ s \in Store /\ Single(s) /\ JobInv(r) /\ job[r] \in [Workers -> Job]
    BY <1>1 DEF KVInv, KVTypes, ReplicaInv
  <2>2. PICK v : v = Visible(s, Empty).data[kind]
    OBVIOUS
  <2>3. Shown(s, v)
    BY <2>1, <2>2, StoreIsShown
  <2>4. CASE AtRest(r)
    <3>1. Key!At(now, s.data[kind], s.expiry).value = AtTime(s, now).data[kind]
      BY <2>1, AtOfStore
    <3>2. Key!At(now, s.data[kind], s.expiry).value = v
      BY <2>2, <3>1 DEF AtTime, Visible
    <3>3. QED
      BY <2>3, <2>4, <3>2
  <2>5. CASE ~AtRest(r)
    <3>1. CASE v = Absent
      BY <2>3, <2>5, <3>1
    <3>2. CASE v # Absent
      <4>1. ~isExpired(s, now) /\ v = s.data[kind]
        BY <2>1, <2>2, <3>2, EmptyKey DEF Visible
      <4>2. PICK w \in Workers : job[r][w].pc # "idle"
        BY <2>5 DEF AtRest
      <4>3. \A x \in Workers : job[r][x].pc \notin {"expiry", "end"}
        BY <1>1, <2>1, <3>2, <4>1 DEF JobInv
      <4>4. \A x \in Workers : job[r][x].pc \in {"idle", "type", "data"}
        BY <2>1, <4>3 DEF Job, Deleting
      <4>5. job[r]["cleaner"].pc # "idle"
        <5>1. CASE w = "cleaner"
          BY <4>2, <5>1
        <5>2. CASE w = "reader"
          BY <1>1, <3>2, <4>1, <4>2, <4>4, <5>2 DEF ReaderInv, ReaderOK
        <5>3. QED
          BY <5>1, <5>2 DEF Workers
      <4>6. QED
        BY <2>3, <4>1, <4>4, <4>5 DEF Workers
    <3>3. QED
      BY <3>1, <3>2
  <2>6. QED
    BY <2>4, <2>5
<1>2. QED
  BY <1>1 DEF ReadsShowVisible

\* A replica that a step leaves alone,
LEMMA ReaderUntouched ==
    ASSUME NEW q \in Replicas, ReaderOK(q), kind' = kind, now' = now,
           store'[q] = store[q], job'[q] = job[q]
    PROVE  ReaderOK(q)'
BY DEF ReaderOK, isExpired

\* one that nobody deletes from,
LEMMA ReaderAtRest ==
    ASSUME NEW q \in Replicas, AtRest(q), job'[q] = job[q]
    PROVE  ReaderOK(q)'
BY DEF ReaderOK, AtRest, Workers

\* and the later time.
LEMMA TickReader ==
    ASSUME KVInv, NEW q \in Replicas, ReaderOK(q), tick
    PROVE  ReaderOK(q)'
<1>1. store' = store /\ job' = job /\ kind' = kind /\ now' = now + 1
  BY DEF tick
<1>2. store[q].expiry \in Nat /\ now \in Nat
  BY StoreParts, KVStoreAssumption, SMTT(30) DEF KVInv, KVTypes
<1>3. now > store[q].expiry => now + 1 > store[q].expiry
  BY <1>2, SMTT(30)
<1>4. isExpired(store[q], now) => isExpired(store[q], now)'
  BY <1>1, <1>3 DEF isExpired
<1>5. QED
  BY <1>1, <1>4 DEF ReaderOK

\* The cleanup and its callback.
LEMMA CleanerReader ==
    ASSUME KVInv, NEW r \in Replicas, ReaderOK(r), cleanup(r) \/ onExpire(r)
    PROVE  ReaderOK(r)'
<1>1. /\ job[r] \in [Workers -> Job] /\ Single(store[r]) /\ kind \in Types
      /\ "cleaner" \in Workers /\ "reader" \in Workers \ {"cleaner"}
  BY DEF KVInv, KVTypes, ReplicaInv, Workers
<1>2. job[r]["cleaner"] \in Job
  BY <1>1
<1>3. CASE cleanup(r)
  <2>1. job'[r] = [job[r] EXCEPT !["cleaner"].pc = "type"]
    BY <1>3 DEF cleanup, KVInv, KVTypes
  <2>2. [job[r]["cleaner"] EXCEPT !.pc = "type"].pc = "type"
    BY <1>2, JobStep
  <2>3. job'[r]["cleaner"].pc = "type" /\ job'[r]["reader"] = job[r]["reader"]
    BY <1>1, <2>1, <2>2
  <2>4. QED
    BY <2>3 DEF ReaderOK
<1>4. CASE onExpire(r)
  <2>1. /\ job'[r] = [job[r] EXCEPT !["cleaner"] =
                        IF store[r].type = NoType THEN NoJob ELSE [pc |-> "data", type |-> store[r].type]]
        /\ store' = store /\ kind' = kind
    BY <1>4 DEF onExpire, expiredType, KVInv, KVTypes
  <2>2. job'[r]["reader"] = job[r]["reader"]
    BY <1>1, <2>1
  <2>3. CASE store[r].type = NoType
    BY <1>1, <2>1, <2>2, <2>3 DEF ReaderOK, Single
  <2>4. CASE store[r].type # NoType
    <3>1. job'[r]["cleaner"] = [pc |-> "data", type |-> store[r].type]
      BY <1>1, <2>1, <2>4
    <3>2. job'[r]["cleaner"].pc = "data"
      BY <3>1, SMTT(30)
    <3>3. QED
      BY <2>2, <3>2 DEF ReaderOK
  <2>5. QED
    BY <2>3, <2>4
<1>5. QED
  BY <1>3, <1>4

\* A read that begins to delete.
LEMMA ReadExpiredReader ==
    ASSUME KVInv, NEW r \in Replicas, NEW t, readExpired(r, t)
    PROVE  ReaderOK(r)'
<1>1. job[r] \in [Workers -> Job] /\ "reader" \in Workers
  BY DEF KVInv, KVTypes, Workers
<1>2. job'[r] = [job[r] EXCEPT !["reader"] = [pc |-> "data", type |-> t]]
  BY DEF readExpired, KVInv, KVTypes
<1>3. job'[r]["reader"] = [pc |-> "data", type |-> t]
  BY <1>1, <1>2
<1>4. job'[r]["reader"].pc = "data"
  BY <1>3, SMTT(30)
<1>5. isExpired(store[r], now)'
  BY DEF readExpired, isExpired
<1>6. QED
  BY <1>4, <1>5 DEF ReaderOK

\* The steps of a deletion.
LEMMA DeletionReader ==
    ASSUME KVInv, NEW r \in Replicas, NEW w \in Workers, ReaderOK(r),
           deleteData(r, w) \/ deleteExpiry(r, w) \/ DeleteType(r, w)
    PROVE  ReaderOK(r)'
<1>1. job[r] \in [Workers -> Job] /\ store[r] \in Store /\ JobInv(r)
  BY DEF KVInv, KVTypes, ReplicaInv
<1>2. ASSUME NEW p, p \in {"expiry", "end"}, job'[r] = [job[r] EXCEPT ![w].pc = p]
      PROVE  ReaderOK(r)'
  <2>1. [job[r][w] EXCEPT !.pc = p].pc = p
    BY <1>1, JobStep
  <2>2. job'[r][w].pc = p /\ \A x \in Workers \ {w} : job'[r][x] = job[r][x]
    BY <1>1, <1>2, <2>1
  <2>3. QED
    BY <1>2, <2>2 DEF ReaderOK, Workers
<1>3. CASE deleteData(r, w)
  <2>1. job'[r] = [job[r] EXCEPT ![w].pc = "expiry"]
    BY <1>3 DEF deleteData, KVInv, KVTypes
  <2>2. QED
    BY <1>2, <2>1
<1>4. CASE deleteExpiry(r, w)
  <2>1. job'[r] = [job[r] EXCEPT ![w].pc = "end"]
    BY <1>4 DEF deleteExpiry, KVInv, KVTypes
  <2>2. QED
    BY <1>2, <2>1
<1>5. CASE DeleteType(r, w)
  <2>1. /\ job'[r] = [job[r] EXCEPT ![w] = NoJob] /\ kind' = kind
        /\ store'[r] = [store[r] EXCEPT !.type = NoType] /\ job[r][w].pc = "end"
    BY <1>5 DEF DeleteType, KVInv, KVTypes
  <2>2. store'[r].data = store[r].data
    BY <1>1, <2>1 DEF Store
  <2>3. store'[r].data[kind'] = Absent
    BY <1>1, <2>1, <2>2 DEF JobInv
  <2>4. job'[r][w] = NoJob /\ \A x \in Workers \ {w} : job'[r][x] = job[r][x]
    BY <1>1, <2>1
  <2>5. job'[r]["reader"].pc # "type"
    <3>1. NoJob.pc = "idle"
      BY DEF NoJob
    <3>2. CASE w = "reader"
      BY <2>4, <3>1, <3>2
    <3>3. CASE w # "reader"
      <4>1. job'[r]["reader"] = job[r]["reader"]
        BY <2>4, <3>3 DEF Workers
      <4>2. QED
        BY <4>1 DEF ReaderOK
    <3>4. QED
      BY <3>2, <3>3
  <2>6. QED
    BY <2>3, <2>5 DEF ReaderOK
<1>6. QED
  BY <1>3, <1>4, <1>5

\* The other replicas of a step of replica r.
LEMMA OtherReaders ==
    ASSUME KVInv, NEW r \in Replicas, NEW q \in Replicas \ {r}, ReaderOK(q),
           \/ cleanup(r) \/ onExpire(r)
           \/ \E t \in UsedTypes : readExpired(r, t)
           \/ \E w \in Workers : deleteData(r, w) \/ deleteExpiry(r, w) \/ DeleteType(r, w)
    PROVE  ReaderOK(q)'
<1>1. store'[q] = store[q] /\ job'[q] = job[q] /\ kind' = kind /\ now' = now
  BY DEF KVInv, KVTypes, cleanup, onExpire, readExpired, deleteData, deleteExpiry, DeleteType
<1>2. QED
  BY <1>1, ReaderUntouched

\* A command and a restore come to a replica at rest.
LEMMA AppliedReader ==
    ASSUME KVInv, NEW r \in Replicas, Apply(r) \/ Restore(r), DeletionsAreAlone,
           NEW q \in Replicas, ReaderOK(q)
    PROVE  ReaderOK(q)'
<1>1. job' = job /\ kind' = kind /\ now' = now
  BY DEF Apply, Restore
<1>2. CASE q = r
  <2>1. applied[r] \in Nat /\ snapshot.applied \in Nat
    BY SMTT(30) DEF KVInv, KVTypes
  <2>2. applied'[r] = applied[r] + 1 \/ (applied'[r] = snapshot.applied /\ snapshot.applied > applied[r])
    BY DEF Apply, Restore, KVInv, KVTypes
  <2>3. applied'[r] # applied[r]
    BY <2>1, <2>2, SMTT(30)
  <2>4. AtRest(r)
    BY <2>3 DEF DeletionsAreAlone
  <2>5. QED
    BY <1>1, <1>2, <2>4, ReaderAtRest
<1>3. CASE q # r
  <2>1. store'[q] = store[q]
    BY <1>3 DEF Apply, Restore, KVInv, KVTypes
  <2>2. QED
    BY <1>1, <2>1, ReaderUntouched
<1>4. QED
  BY <1>2, <1>3

\* Nobody deletes at first.
LEMMA InitReader == Init => ReaderInv
<1>1. ASSUME Init, NEW r \in Replicas PROVE ReaderOK(r)
  <2>1. job[r] = [w \in Workers |-> NoJob] /\ "reader" \in Workers
    BY <1>1 DEF Init, Workers
  <2>2. job[r]["reader"].pc = "idle"
    <3>1. job[r]["reader"] = NoJob
      BY <2>1
    <3>2. NoJob.pc = "idle"
      BY DEF NoJob
    <3>3. QED
      BY <3>1, <3>2
  <2>3. QED
    BY <2>2 DEF ReaderOK
<1>2. QED
  BY <1>1 DEF ReaderInv

\* Every step in which no deletion is overtaken keeps what the readers know.
LEMMA NextReader ==
    ASSUME KVInv, ReaderInv, [Next /\ DeletionsAreAlone]_vars
    PROVE  ReaderInv'
<1>0. Background \subseteq Replicas
  BY KVStoreAssumption
<1>1. ASSUME NEW q \in Replicas PROVE ReaderOK(q)'
  <2>0. ReaderOK(q)
    BY DEF ReaderInv
  <2>1. CASE propose \/ (\E r \in Replicas : Snapshot(r)) \/ UNCHANGED vars
    <3>1. store' = store /\ job' = job /\ kind' = kind /\ now' = now
      BY <2>1 DEF propose, Snapshot, vars
    <3>2. QED
      BY <2>0, <3>1, ReaderUntouched
  <2>2. CASE tick
    BY <2>0, <2>2, TickReader
  <2>3. ASSUME NEW r \in Replicas, Apply(r) \/ Restore(r), DeletionsAreAlone PROVE ReaderOK(q)'
    BY <2>0, <2>3, AppliedReader
  <2>4. ASSUME NEW r \in Background, cleanup(r) \/ onExpire(r) PROVE ReaderOK(q)'
    BY <1>0, <2>0, <2>4, CleanerReader, OtherReaders
  <2>5. ASSUME NEW r \in Background, NEW t \in UsedTypes, readExpired(r, t) PROVE ReaderOK(q)'
    BY <1>0, <2>0, <2>5, ReadExpiredReader, OtherReaders
  <2>6. ASSUME NEW r \in Background, NEW w \in Workers,
               deleteData(r, w) \/ deleteExpiry(r, w) \/ DeleteType(r, w)
        PROVE  ReaderOK(q)'
    BY <1>0, <2>0, <2>6, DeletionReader, OtherReaders
  <2>7. QED
    BY <2>1, <2>2, <2>3, <2>4, <2>5, <2>6 DEF Next
<1>2. QED
  BY <1>1 DEF ReaderInv

\* The reads of string.go, hash.go and list.go return what the key of ExpiringKey holds,
\* for lists of any length: LRANGE walks exactly the elements that its indices name,
\* for every stop that reaches into the list.  An expired value is read only between
\* the two halves of TTLManager.cleanup.  Clients use the key with one type, and no
\* command, snapshot or restore overtakes a deletion in the background (AloneSpec).
THEOREM ReadsAreVisible ==
    ASSUME ~MixedTypes
    PROVE  AloneSpec => []ReadsShowVisible
<1>1. Init => ReaderInv
  BY InitReader
<1>2. KVInv /\ ReaderInv /\ [Next /\ DeletionsAreAlone]_vars => ReaderInv'
  BY NextReader
<1>3. KVInv /\ ReaderInv => ReadsShowVisible
  BY InvariantShowsReads
<1>4. QED
  BY <1>1, <1>2, <1>3, KVInvariant, PTL DEF AloneSpec

-----------------------------------------------------------------------------
(* The refinement of ExpiringKey.                                          *)

\* The visible key at the time of a step.
LEMMA KeyNow ==
    ASSUME NEW s
    PROVE  /\ keyOf(s).value = AtTime(s, now).data[kind]
           /\ keyOf(s).expiry = AtTime(s, now).expiry
BY DEF keyOf, Visible, AtTime

\* A key grows older: what has expired stays expired.
LEMMA AtLater ==
    ASSUME kind \in Types, NEW s \in Store, NEW a \in Nat, NEW b \in Nat, a <= b
    PROVE  /\ Key!At(b, AtTime(s, a).data[kind], AtTime(s, a).expiry).value = AtTime(s, b).data[kind]
           /\ Key!At(b, AtTime(s, a).data[kind], AtTime(s, a).expiry).expiry = AtTime(s, b).expiry
<1>1. CASE isExpired(s, a)
  <2>1. s.expiry \in Nat
    BY StoreParts, KVStoreAssumption, SMTT(30)
  <2>2. isExpired(s, b)
    BY <1>1, <2>1, SMTT(30) DEF isExpired
  <2>3. AtTime(s, a) = Empty /\ AtTime(s, b) = Empty
    BY <1>1, <2>2 DEF AtTime
  <2>4. AtTime(Empty, b) = Empty
    BY DEF AtTime
  <2>5. /\ Key!At(b, Empty.data[kind], Empty.expiry).value = AtTime(Empty, b).data[kind]
        /\ Key!At(b, Empty.data[kind], Empty.expiry).expiry = AtTime(Empty, b).expiry
    BY AtOfStore
  <2>6. QED
    BY <2>3, <2>4, <2>5
<1>2. CASE ~isExpired(s, a)
  <2>1. AtTime(s, a) = s
    BY <1>2 DEF AtTime
  <2>2. QED
    BY <2>1, AtOfStore
<1>3. QED
  BY <1>1, <1>2

\* The initial states are those of ExpiringKey.
LEMMA InitKey ==
    ASSUME Init
    PROVE  Key!Init
<1>1. kind \in Types /\ ~isExpired(Empty, now)
  BY DEF Init, isExpired, Empty
<1>2. keyOf(Empty).value = Absent /\ keyOf(Empty).expiry = 0
  BY <1>1, KeyNow, EmptyKey DEF AtTime
<1>3. keyValue = [r \in Replicas |-> Absent] /\ keyExpiry = [r \in Replicas |-> 0]
  BY <1>2 DEF keyValue, keyExpiry, Init
<1>4. keySnapshot = [applied |-> 0, value |-> Absent, expiry |-> 0]
  BY <1>2 DEF keySnapshot, Init
<1>5. QED
  BY <1>3, <1>4 DEF Key!Init, Init

\* A proposed command is one of ExpiringKey.
LEMMA ProposeKey ==
    ASSUME ~MixedTypes, KVInv, propose
    PROVE  Key!Propose
<1>1. Len(log) < MaxCommands /\ \E c \in CommandsOf(kind) : log' = Append(log, c)
  BY DEF propose, UsedTypes
<1>2. UNCHANGED <<now, kind, applied, store, job, snapshot>>
  BY DEF propose
<1>3. keyValue' = keyValue /\ keyExpiry' = keyExpiry /\ keySnapshot' = keySnapshot
  BY <1>2 DEF keyValue, keyExpiry, keySnapshot, keyOf, Visible, AtRest, isExpired
<1>4. QED
  BY <1>1, <1>2, <1>3 DEF Key!Propose

\* The keys of all replicas and of the snapshot expire with the clock.
LEMMA TickKey ==
    ASSUME KVInv, tick
    PROVE  Key!Tick
<1>1. now \in Nat /\ now' \in Nat /\ now <= now' /\ now' = now + 1 /\ now < MaxTime /\ kind \in Types
  <2>1. now \in 0..MaxTime /\ now' = now + 1 /\ now < MaxTime /\ kind \in Types
    BY DEF KVInv, KVTypes, tick
  <2>2. QED
    BY <2>1, KVStoreAssumption, SMTT(30)
<1>2. UNCHANGED <<kind, log, applied, store, job, snapshot>>
  BY DEF tick
<1>3. ASSUME NEW s \in Store
      PROVE  /\ Key!At(now', keyOf(s).value, keyOf(s).expiry).value = AtTime(s, now').data[kind]
             /\ Key!At(now', keyOf(s).value, keyOf(s).expiry).expiry = AtTime(s, now').expiry
  <2>1. keyOf(s).value = AtTime(s, now).data[kind] /\ keyOf(s).expiry = AtTime(s, now).expiry
    BY KeyNow
  <2>2. /\ Key!At(now', AtTime(s, now).data[kind], AtTime(s, now).expiry).value = AtTime(s, now').data[kind]
        /\ Key!At(now', AtTime(s, now).data[kind], AtTime(s, now).expiry).expiry = AtTime(s, now').expiry
    BY <1>1, AtLater
  <2>3. QED
    BY <2>1, <2>2
<1>4. Key!At(now', Absent, 0).value = Absent /\ Key!At(now', Absent, 0).expiry = 0
  BY SMTT(30) DEF Key!At
<1>5. ASSUME NEW r \in Replicas
      PROVE  /\ keyValue'[r] = Key!At(now', keyValue[r], keyExpiry[r]).value
             /\ keyExpiry'[r] = Key!At(now', keyValue[r], keyExpiry[r]).expiry
  <2>1. store[r] \in Store /\ (AtRest(r)' <=> AtRest(r))
    BY <1>2 DEF KVInv, KVTypes, AtRest
  <2>2. CASE AtRest(r)
    <3>1. keyValue[r] = keyOf(store[r]).value /\ keyExpiry[r] = keyOf(store[r]).expiry
      BY <2>2 DEF keyValue, keyExpiry
    <3>2. keyValue'[r] = keyOf(store[r])'.value /\ keyExpiry'[r] = keyOf(store[r])'.expiry
      BY <2>1, <2>2 DEF keyValue, keyExpiry
    <3>3. /\ keyOf(store[r])'.value = AtTime(store[r], now').data[kind]
          /\ keyOf(store[r])'.expiry = AtTime(store[r], now').expiry
      BY <1>2 DEF keyOf, Visible, AtTime
    <3>4. /\ Key!At(now', keyOf(store[r]).value, keyOf(store[r]).expiry).value
                = AtTime(store[r], now').data[kind]
          /\ Key!At(now', keyOf(store[r]).value, keyOf(store[r]).expiry).expiry
                = AtTime(store[r], now').expiry
      BY <1>3, <2>1
    <3>5. QED
      BY <3>1, <3>2, <3>3, <3>4
  <2>3. CASE ~AtRest(r)
    <3>1. keyValue[r] = Absent /\ keyExpiry[r] = 0 /\ keyValue'[r] = Absent /\ keyExpiry'[r] = 0
      BY <2>1, <2>3 DEF keyValue, keyExpiry
    <3>2. QED
      BY <1>4, <3>1
  <2>4. QED
    BY <2>2, <2>3
<1>6. /\ keyValue' = [r \in Replicas |-> Key!At(now', keyValue[r], keyExpiry[r]).value]
      /\ keyExpiry' = [r \in Replicas |-> Key!At(now', keyValue[r], keyExpiry[r]).expiry]
  <2>1. keyValue' = [r \in Replicas |-> keyValue'[r]] /\ keyExpiry' = [r \in Replicas |-> keyExpiry'[r]]
    BY DEF keyValue, keyExpiry
  <2>2. QED
    BY <1>5, <2>1
<1>7. keySnapshot' = [applied |-> keySnapshot.applied,
                      value |-> Key!At(now', keySnapshot.value, keySnapshot.expiry).value,
                      expiry |-> Key!At(now', keySnapshot.value, keySnapshot.expiry).expiry]
  <2>1. snapshot.store \in Store
    BY DEF KVInv, KVTypes
  <2>2. /\ keySnapshot.applied = snapshot.applied /\ keySnapshot.value = keyOf(snapshot.store).value
        /\ keySnapshot.expiry = keyOf(snapshot.store).expiry
    BY DEF keySnapshot
  <2>3. keySnapshot' = [applied |-> snapshot.applied, value |-> keyOf(snapshot.store)'.value,
                        expiry |-> keyOf(snapshot.store)'.expiry]
    BY <1>2 DEF keySnapshot
  <2>4. /\ keyOf(snapshot.store)'.value = AtTime(snapshot.store, now').data[kind]
        /\ keyOf(snapshot.store)'.expiry = AtTime(snapshot.store, now').expiry
    BY <1>2 DEF keyOf, Visible, AtTime
  <2>5. /\ Key!At(now', keyOf(snapshot.store).value, keyOf(snapshot.store).expiry).value
              = AtTime(snapshot.store, now').data[kind]
        /\ Key!At(now', keyOf(snapshot.store).value, keyOf(snapshot.store).expiry).expiry
              = AtTime(snapshot.store, now').expiry
    BY <1>3, <2>1
  <2>6. QED
    BY <2>2, <2>3, <2>4, <2>5
<1>8. QED
  BY <1>1, <1>2, <1>6, <1>7 DEF Key!Tick

\* The keys of the replicas, when only the store or the job of replica r changes.
LEMMA OneKey ==
    ASSUME NEW r \in Replicas, now' = now, kind' = kind,
           \A q \in Replicas \ {r} : store'[q] = store[q] /\ job'[q] = job[q]
    PROVE  /\ keyValue' = [keyValue EXCEPT ![r] = keyValue'[r]]
           /\ keyExpiry' = [keyExpiry EXCEPT ![r] = keyExpiry'[r]]
<1>1. ASSUME NEW q \in Replicas \ {r}
      PROVE  keyValue'[q] = keyValue[q] /\ keyExpiry'[q] = keyExpiry[q]
  <2>1. keyOf(store[q])' = keyOf(store[q]) /\ (AtRest(q)' <=> AtRest(q))
    BY <1>1 DEF keyOf, Visible, isExpired, AtRest
  <2>2. QED
    BY <2>1 DEF keyValue, keyExpiry
<1>2. /\ keyValue' = [q \in Replicas |-> keyValue'[q]] /\ keyExpiry' = [q \in Replicas |-> keyExpiry'[q]]
      /\ keyValue = [q \in Replicas |-> keyValue[q]] /\ keyExpiry = [q \in Replicas |-> keyExpiry[q]]
  BY DEF keyValue, keyExpiry
<1>3. keyValue' = [keyValue EXCEPT ![r] = keyValue'[r]]
  BY <1>1, <1>2
<1>4. keyExpiry' = [keyExpiry EXCEPT ![r] = keyExpiry'[r]]
  BY <1>1, <1>2
<1>5. QED
  BY <1>3, <1>4

\* The snapshot's key depends on the snapshot, the kind and the time only.
LEMMA SameSnapshot ==
    ASSUME now' = now, kind' = kind, snapshot' = snapshot
    PROVE  keySnapshot' = keySnapshot
BY DEF keySnapshot, keyOf, Visible, isExpired

\* Apply has the effect of the command on the visible value.
LEMMA ApplyKey ==
    ASSUME KVInv, NEW r \in Replicas, Apply(r), DeletionsAreAlone
    PROVE  Key!Apply(r)
<1>1. applied[r] \in Nat /\ applied[r] < Len(log) /\ applied'[r] = applied[r] + 1
  <2>1. applied[r] \in 0..Len(log) /\ applied[r] < Len(log)
    BY DEF KVInv, KVTypes, Apply
  <2>2. applied'[r] = applied[r] + 1
    BY DEF KVInv, KVTypes, Apply
  <2>3. QED
    BY <2>1, <2>2, SMTT(30) DEF KVInv
<1>2. PICK c \in CommandsOf(kind) : c = log[applied[r] + 1] /\ applied'[r] # applied[r]
  BY <1>1, SMTT(30) DEF KVInv
<1>3. AtRest(r) /\ AtRest(r)'
  BY <1>2 DEF DeletionsAreAlone, Apply, AtRest
<1>4. store[r] \in Store /\ Agreed(store[r]) /\ kind \in Types
  BY <1>3 DEF KVInv, KVTypes, ReplicaInv
<1>5. keyValue[r] = AtTime(store[r], now).data[kind] /\ keyExpiry[r] = AtTime(store[r], now).expiry
  BY <1>3, KeyNow DEF keyValue, keyExpiry
<1>6. PICK v : v = Effect(c, keyValue[r])
  OBVIOUS
<1>7. PICK e : e = EffectExpiry(c, v, keyExpiry[r])
  OBVIOUS
<1>8. PICK s : s = Result(c, store[r], now)
  OBVIOUS
<1>9. s.data[kind] = v /\ s.expiry = e
  <2>1. v = Effect(c, AtTime(store[r], now).data[kind])
    BY <1>5, <1>6
  <2>2. Holds(Result(c, store[r], now), v, EffectExpiry(c, v, AtTime(store[r], now).expiry))
    BY <1>4, <2>1, ResultHolds
  <2>3. QED
    BY <1>5, <1>7, <1>8, <2>2 DEF Holds
<1>10. now' = now /\ kind' = kind /\ log' = log /\ snapshot' = snapshot /\ job' = job
  BY DEF Apply
<1>11. store'[r] = s /\ \A q \in Replicas \ {r} : store'[q] = store[q]
  BY <1>2, <1>8 DEF Apply, KVInv, KVTypes
<1>12. keyValue'[r] = Key!At(now, v, e).value /\ keyExpiry'[r] = Key!At(now, v, e).expiry
  <2>1. keyValue'[r] = keyOf(store[r])'.value /\ keyExpiry'[r] = keyOf(store[r])'.expiry
    BY <1>3 DEF keyValue, keyExpiry
  <2>2. keyOf(store[r])'.value = AtTime(s, now).data[kind] /\ keyOf(store[r])'.expiry = AtTime(s, now).expiry
    BY <1>10, <1>11 DEF keyOf, Visible, AtTime
  <2>3. Key!At(now, v, e).value = AtTime(s, now).data[kind] /\ Key!At(now, v, e).expiry = AtTime(s, now).expiry
    <3>1. /\ Key!At(now, s.data[kind], s.expiry).value = AtTime(s, now).data[kind]
          /\ Key!At(now, s.data[kind], s.expiry).expiry = AtTime(s, now).expiry
      BY <1>4, AtOfStore
    <3>2. QED
      BY <1>9, <3>1
  <2>4. QED
    BY <2>1, <2>2, <2>3
<1>13. /\ keyValue' = [keyValue EXCEPT ![r] = Key!At(now, v, e).value]
       /\ keyExpiry' = [keyExpiry EXCEPT ![r] = Key!At(now, v, e).expiry]
  <2>1. keyValue' = [keyValue EXCEPT ![r] = keyValue'[r]] /\ keyExpiry' = [keyExpiry EXCEPT ![r] = keyExpiry'[r]]
    BY <1>10, <1>11, OneKey
  <2>2. QED
    BY <1>12, <2>1
<1>14. keySnapshot' = keySnapshot /\ applied' = [applied EXCEPT ![r] = @ + 1] /\ applied[r] < Len(log)
  BY <1>10, SameSnapshot DEF Apply
<1>15. QED
  BY <1>2, <1>6, <1>7, <1>10, <1>13, <1>14 DEF Key!Apply, EffectExpiry

\* Restore brings the visible key of the snapshot.
LEMMA RestoreKey ==
    ASSUME OtherKeys, KVInv, NEW r \in Replicas, Restore(r), DeletionsAreAlone
    PROVE  Key!Restore(r)
<1>1. snapshot.applied > applied[r] /\ applied' = [applied EXCEPT ![r] = snapshot.applied]
  BY DEF Restore
<1>2. AtRest(r) /\ AtRest(r)'
  <2>1. snapshot.applied \in 0..Len(log) /\ applied[r] \in 0..Len(log)
    BY DEF KVInv, KVTypes
  <2>2. applied'[r] = snapshot.applied
    BY <1>1 DEF KVInv, KVTypes
  <2>3. applied'[r] # applied[r]
    BY <1>1, <2>1, <2>2, SMTT(30)
  <2>4. QED
    BY <2>3 DEF DeletionsAreAlone, Restore, AtRest
<1>3. now' = now /\ kind' = kind /\ log' = log /\ snapshot' = snapshot /\ job' = job
  BY DEF Restore
<1>4. store'[r] = snapshot.store /\ \A q \in Replicas \ {r} : store'[q] = store[q]
  BY DEF Restore, KVInv, KVTypes
<1>5. /\ keySnapshot.applied = snapshot.applied /\ keySnapshot.value = keyOf(snapshot.store).value
      /\ keySnapshot.expiry = keyOf(snapshot.store).expiry
  BY DEF keySnapshot
<1>6. keyValue'[r] = keySnapshot.value /\ keyExpiry'[r] = keySnapshot.expiry
  <2>1. keyValue'[r] = keyOf(store[r])'.value /\ keyExpiry'[r] = keyOf(store[r])'.expiry
    BY <1>2 DEF keyValue, keyExpiry
  <2>2. keyOf(store[r])' = keyOf(snapshot.store)
    BY <1>3, <1>4 DEF keyOf, Visible, isExpired
  <2>3. QED
    BY <1>5, <2>1, <2>2
<1>7. /\ keyValue' = [keyValue EXCEPT ![r] = keySnapshot.value]
      /\ keyExpiry' = [keyExpiry EXCEPT ![r] = keySnapshot.expiry]
  <2>1. keyValue' = [keyValue EXCEPT ![r] = keyValue'[r]] /\ keyExpiry' = [keyExpiry EXCEPT ![r] = keyExpiry'[r]]
    BY <1>3, <1>4, OneKey
  <2>2. QED
    BY <1>6, <2>1
<1>8. keySnapshot' = keySnapshot
  BY <1>3, SameSnapshot
<1>9. QED
  BY <1>1, <1>3, <1>5, <1>7, <1>8 DEF Key!Restore

\* Only a key that nobody is deleting gets into a snapshot.
LEMMA SnapshotKey ==
    ASSUME KVInv, NEW r \in Replicas, Snapshot(r), DeletionsAreAlone
    PROVE  \E q \in Replicas : Key!Snapshot(q)
<1>1. UNCHANGED <<now, kind, log, applied, store, job>>
  BY DEF Snapshot
<1>2. snapshot'.applied = applied[r] /\ applied[r] > snapshot.applied
  BY DEF Snapshot
<1>3. snapshot' # snapshot
  <2>1. applied[r] \in 0..Len(log) /\ snapshot.applied \in 0..Len(log)
    BY DEF KVInv, KVTypes
  <2>2. applied[r] # snapshot.applied
    BY <1>2, <2>1, SMTT(30)
  <2>3. QED
    BY <1>2, <2>2
<1>4. PICK q \in Replicas : AtRest(q) /\ snapshot' = [applied |-> applied[q], store |-> store[q]]
  BY <1>3 DEF DeletionsAreAlone
<1>5. snapshot'.applied = applied[q] /\ snapshot'.store = store[q]
  BY <1>4, SMTT(30)
<1>6. keyValue[q] = keyOf(store[q]).value /\ keyExpiry[q] = keyOf(store[q]).expiry
  BY <1>4 DEF keyValue, keyExpiry
<1>7. keyOf(snapshot.store)' = keyOf(store[q])
  BY <1>1, <1>5 DEF keyOf, Visible, isExpired
<1>8. keySnapshot' = [applied |-> applied[q], value |-> keyValue[q], expiry |-> keyExpiry[q]]
  BY <1>5, <1>6, <1>7 DEF keySnapshot
<1>9. applied[q] > keySnapshot.applied
  BY <1>2, <1>5 DEF keySnapshot
<1>10. keyValue' = keyValue /\ keyExpiry' = keyExpiry
  BY <1>1 DEF keyValue, keyExpiry, keyOf, Visible, AtRest, isExpired
<1>11. QED
  BY <1>1, <1>8, <1>9, <1>10 DEF Key!Snapshot

\* ExpiringKey sees no key on replica r: it is being deleted, it has expired, or it has
\* no data.
Hidden(r) == keyValue[r] = Absent /\ keyExpiry[r] = 0

\* A key that is being deleted, has expired or has no type is hidden.
LEMMA HiddenKey ==
    ASSUME KVInv, NEW r \in Replicas,
           ~AtRest(r) \/ isExpired(store[r], now) \/ store[r].type = NoType
    PROVE  Hidden(r)
<1>0. kind \in Types
  BY DEF KVInv, KVTypes
<1>1. CASE ~AtRest(r)
  BY <1>1 DEF Hidden, keyValue, keyExpiry
<1>2. CASE AtRest(r) /\ (isExpired(store[r], now) \/ store[r].type = NoType)
  <2>1. AtTime(store[r], now).data[kind] = Absent /\ AtTime(store[r], now).expiry = 0
    <3>1. CASE isExpired(store[r], now)
      BY <1>0, <3>1, EmptyKey DEF AtTime
    <3>2. CASE ~isExpired(store[r], now)
      BY <1>2, <3>2 DEF AtTime, KVInv, ReplicaInv, Single
    <3>3. QED
      BY <3>1, <3>2
  <2>2. keyValue[r] = AtTime(store[r], now).data[kind] /\ keyExpiry[r] = AtTime(store[r], now).expiry
    BY <1>2, KeyNow DEF keyValue, keyExpiry
  <2>3. QED
    BY <2>1, <2>2 DEF Hidden
<1>3. QED
  BY <1>1, <1>2

\* A step from a hidden key to a hidden key is no step of ExpiringKey.
LEMMA HiddenStep ==
    ASSUME NEW r \in Replicas, Hidden(r), Hidden(r)',
           UNCHANGED <<now, kind, log, applied, snapshot>>,
           \A q \in Replicas \ {r} : store'[q] = store[q] /\ job'[q] = job[q]
    PROVE  UNCHANGED Key!vars
<1>1. keyValue' = [keyValue EXCEPT ![r] = keyValue[r]] /\ keyExpiry' = [keyExpiry EXCEPT ![r] = keyExpiry[r]]
  <2>1. keyValue' = [keyValue EXCEPT ![r] = keyValue'[r]] /\ keyExpiry' = [keyExpiry EXCEPT ![r] = keyExpiry'[r]]
    BY OneKey
  <2>2. keyValue'[r] = keyValue[r] /\ keyExpiry'[r] = keyExpiry[r]
    BY DEF Hidden
  <2>3. QED
    BY <2>1, <2>2
<1>2. keyValue = [q \in Replicas |-> keyValue[q]] /\ keyExpiry = [q \in Replicas |-> keyExpiry[q]]
  BY DEF keyValue, keyExpiry
<1>3. keyValue' = keyValue /\ keyExpiry' = keyExpiry
  BY <1>1, <1>2
<1>4. keySnapshot' = keySnapshot
  BY SameSnapshot
<1>5. QED
  BY <1>3, <1>4 DEF Key!vars

\* The deletions in the background change nothing that ExpiringKey sees.
LEMMA BackgroundKey ==
    ASSUME ~MixedTypes, KVInv, KVInv', NEW r \in Replicas,
           \/ cleanup(r) \/ onExpire(r) \/ \E t \in UsedTypes : readExpired(r, t)
           \/ \E w \in Workers : deleteData(r, w) \/ deleteExpiry(r, w) \/ DeleteType(r, w)
    PROVE  UNCHANGED Key!vars
<1>1. job \in [Replicas -> [Workers -> Job]] /\ store \in [Replicas -> Store]
      /\ job' \in [Replicas -> [Workers -> Job]] /\ "cleaner" \in Workers /\ "reader" \in Workers
  BY DEF KVInv, KVTypes, Workers
<1>2. Hidden(r)
  <2>1. ~AtRest(r) \/ isExpired(store[r], now)
    BY DEF AtRest, cleanup, onExpire, readExpired, deleteData, deleteExpiry, DeleteType, Workers
  <2>2. QED
    BY <2>1, HiddenKey
<1>3. UNCHANGED <<now, kind, log, applied, snapshot>>
  BY DEF cleanup, onExpire, readExpired, deleteData, deleteExpiry, DeleteType
<1>4. \A q \in Replicas \ {r} : store'[q] = store[q] /\ job'[q] = job[q]
  BY <1>1 DEF cleanup, onExpire, readExpired, deleteData, deleteExpiry, DeleteType
<1>5. (~AtRest(r) \/ store[r].type = NoType)'
  <2>1. ASSUME NEW w \in Workers, (job[r][w].pc)' # "idle" PROVE ~AtRest(r)'
    BY <2>1 DEF AtRest
  <2>2. ASSUME NEW w \in Workers, NEW p, p # "idle", job' = [job EXCEPT ![r][w].pc = p]
        PROVE  ~AtRest(r)'
    <3>1. job'[r][w] = [job[r][w] EXCEPT !.pc = p] /\ job[r][w] \in Job
      <4>1. [job EXCEPT ![r][w].pc = p]
              = [job EXCEPT ![r] = [job[r] EXCEPT ![w] = [job[r][w] EXCEPT !.pc = p]]]
        OBVIOUS
      <4>2. job' = [job EXCEPT ![r] = [job[r] EXCEPT ![w] = [job[r][w] EXCEPT !.pc = p]]]
        BY <2>2, <4>1
      <4>3. job'[r] = [job[r] EXCEPT ![w] = [job[r][w] EXCEPT !.pc = p]]
        <5>. DEFINE j == [job[r] EXCEPT ![w] = [job[r][w] EXCEPT !.pc = p]]
        <5>1. job' = [job EXCEPT ![r] = j]
          BY <4>2
        <5>. HIDE DEF j
        <5>2. job'[r] = j
          BY <1>1, <5>1
        <5>3. QED
          BY <5>2 DEF j
      <4>4. job[r] \in [Workers -> Job]
        BY <1>1
      <4>5. QED
        BY <4>3, <4>4
    <3>2. (job[r][w].pc)' = p
      <4>1. [job[r][w] EXCEPT !.pc = p].pc = p
        BY <3>1, JobStep
      <4>2. QED
        BY <3>1, <4>1
    <3>3. QED
      BY <2>1, <2>2, <3>2
  <2>3. ASSUME NEW w \in Workers, NEW t, job' = [job EXCEPT ![r][w] = [pc |-> "data", type |-> t]]
        PROVE  ~AtRest(r)'
    <3>1. job'[r][w] = [pc |-> "data", type |-> t]
      BY <1>1, <2>3
    <3>2. (job[r][w].pc)' = "data"
      BY <3>1, SMTT(30)
    <3>3. QED
      BY <2>1, <3>2
  <2>4. CASE cleanup(r)
    BY <1>1, <2>2, <2>4 DEF cleanup
  <2>5. CASE onExpire(r)
    <3>1. CASE store[r].type = NoType
      BY <2>5, <3>1 DEF onExpire
    <3>2. CASE store[r].type # NoType
      BY <1>1, <2>3, <2>5, <3>2 DEF onExpire, expiredType
    <3>3. QED
      BY <3>1, <3>2
  <2>6. CASE \E t \in UsedTypes : readExpired(r, t)
    BY <1>1, <2>3, <2>6 DEF readExpired
  <2>7. CASE \E w \in Workers : deleteData(r, w) \/ deleteExpiry(r, w)
    BY <2>2, <2>7 DEF deleteData, deleteExpiry
  <2>8. CASE \E w \in Workers : DeleteType(r, w)
    <3>1. store'[r] = [store[r] EXCEPT !.type = NoType] /\ store[r] \in Store
      BY <1>1, <2>8 DEF DeleteType
    <3>2. QED
      BY <3>1 DEF Store
  <2>9. QED
    BY <2>4, <2>5, <2>6, <2>7, <2>8
<1>6. Hidden(r)'
  <2>1. KVInv' => (~AtRest(r) \/ store[r].type = NoType => Hidden(r))'
    BY HiddenKey, PTL
  <2>2. QED
    BY <1>5, <2>1
<1>7. QED
  BY <1>2, <1>3, <1>4, <1>6, HiddenStep

\* Every step is one of ExpiringKey or leaves what it sees unchanged.
LEMMA NextKey ==
    ASSUME ~MixedTypes, OtherKeys, KVInv, [Next /\ DeletionsAreAlone]_vars
    PROVE  [Key!Next]_(Key!vars)
<1>1. CASE Next /\ DeletionsAreAlone
  <2>1. KVInv' /\ Background \subseteq Replicas
    BY NextInv, KVStoreAssumption
  <2>2. CASE propose \/ tick
    BY <2>2, ProposeKey, TickKey DEF Key!Next
  <2>3. CASE \E r \in Replicas : Apply(r) \/ Snapshot(r) \/ Restore(r)
    BY <1>1, <2>3, ApplyKey, SnapshotKey, RestoreKey DEF Key!Next
  <2>4. CASE \E r \in Background :
                \/ cleanup(r) \/ onExpire(r) \/ \E t \in UsedTypes : readExpired(r, t)
                \/ \E w \in Workers : deleteData(r, w) \/ deleteExpiry(r, w) \/ DeleteType(r, w)
    BY <2>1, <2>4, BackgroundKey
  <2>5. QED
    BY <1>1, <2>2, <2>3, <2>4 DEF Next
<1>2. CASE UNCHANGED vars
  BY <1>2 DEF vars, Key!vars, keyValue, keyExpiry, keySnapshot, keyOf, Visible, AtRest, isExpired
<1>3. QED
  BY <1>1, <1>2

\* A key that clients use with one type, in a store that holds other keys, is a plain
\* expiring key on every replica, when nothing overtakes a deletion in the background
\* (AloneSpec): each Apply, tick, Snapshot and Restore is a step of ExpiringKey, and
\* each step of a lazy or background deletion is none.
THEOREM RefinesExpiringKey ==
    ASSUME ~MixedTypes, OtherKeys
    PROVE  AloneSpec => ImplementsExpiringKey
<1>1. Init => Key!Init
  BY InitKey
<1>2. KVInv /\ [Next /\ DeletionsAreAlone]_vars => [Key!Next]_(Key!vars)
  BY NextKey
<1>3. QED
  BY <1>1, <1>2, KVInvariant, PTL DEF AloneSpec, ImplementsExpiringKey, Key!Spec
=============================================================================
