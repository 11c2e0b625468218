---------------------------- MODULE ExpiringKey ----------------------------
(***************************************************************************)
(* What the state machine promises for one key: a value that commands of   *)
(* the log change and that is gone once its expiry time has passed.  There *)
(* are no types, no deferred deletions and no background work.             *)
(***************************************************************************)
EXTENDS Integers, Sequences

CONSTANTS Replicas, Absent, Kinds, MaxCommands, MaxTime,
          CommandsOf(_), \* the commands of a kind of value
          Effect(_, _)   \* the value after a command, given the one before it

VARIABLES now, kind, log,
          applied,       \* commands that a replica has applied
          value, expiry, \* of each replica; expiry 0 means never
          snapshot       \* the snapshot that was taken last

vars == <<now, kind, log, applied, value, expiry, snapshot>>

\* The key as it is at time t: nothing once the expiry has passed.
At(t, v, e) == IF e # 0 /\ t > e THEN [value |-> Absent, expiry |-> 0]
               ELSE [value |-> v, expiry |-> e]

Init ==
    /\ now = 0 /\ kind \in Kinds /\ log = <<>>
    /\ applied = [r \in Replicas |-> 0]
    /\ value = [r \in Replicas |-> Absent] /\ expiry = [r \in Replicas |-> 0]
    /\ snapshot = [applied |-> 0, value |-> Absent, expiry |-> 0]

Propose ==
    /\ Len(log) < MaxCommands
    /\ \E c \in CommandsOf(kind) : log' = Append(log, c)
    /\ UNCHANGED <<now, kind, applied, value, expiry, snapshot>>

\* Keys expire by themselves, on every replica and in the snapshot.
Tick ==
    /\ now < MaxTime
    /\ now' = now + 1
    /\ value' = [r \in Replicas |-> At(now', value[r], expiry[r]).value]
    /\ expiry' = [r \in Replicas |-> At(now', value[r], expiry[r]).expiry]
    /\ snapshot' = [applied |-> snapshot.applied,
                    value |-> At(now', snapshot.value, snapshot.expiry).value,
                    expiry |-> At(now', snapshot.value, snapshot.expiry).expiry]
    /\ UNCHANGED <<kind, log, applied>>

Apply(r) ==
    LET c == log[applied[r] + 1]
        v == Effect(c, value[r])
        e == IF v = Absent THEN 0 ELSE IF c.sets THEN c.expiry ELSE expiry[r]
    IN  /\ applied[r] < Len(log)
        /\ applied' = [applied EXCEPT ![r] = @ + 1]
        /\ value' = [value EXCEPT ![r] = At(now, v, e).value]
        /\ expiry' = [expiry EXCEPT ![r] = At(now, v, e).expiry]
        /\ UNCHANGED <<now, kind, log, snapshot>>

Snapshot(r) ==
    /\ applied[r] > snapshot.applied
    /\ snapshot' = [applied |-> applied[r], value |-> value[r], expiry |-> expiry[r]]
    /\ UNCHANGED <<now, kind, log, applied, value, expiry>>

Restore(r) ==
    /\ snapshot.applied > applied[r]
    /\ applied' = [applied EXCEPT ![r] = snapshot.applied]
    /\ value' = [value EXCEPT ![r] = snapshot.value]
    /\ expiry' = [expiry EXCEPT ![r] = snapshot.expiry]
    /\ UNCHANGED <<now, kind, log, snapshot>>

Next == Propose \/ Tick \/ \E r \in Replicas : Apply(r) \/ Snapshot(r) \/ Restore(r)

Spec == Init /\ [][Next]_vars
=============================================================================
