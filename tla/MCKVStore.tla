----------------------------- MODULE MCKVStore -----------------------------
EXTENDS KVStore

CONSTANTS r1, r2, a, b

ReplicaPair == {r1, r2}
OneReplica == {r1}
TwoItems == {a, b}

\* Commands that every replica has applied, and that no snapshot is behind, play no
\* part any more.
Behind == CHOOSE n \in {applied[r] : r \in Replicas} : \A r \in Replicas : n <= applied[r]
PendingView == <<now, kind, SubSeq(log, Behind + 1, Len(log)), Len(log), applied, store, job, snapshot>>
=============================================================================
