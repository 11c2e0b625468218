------------------------ MODULE ReplicationMatching -------------------------
(***************************************************************************)
(* The steps of module Replication keep MatchingInv, and the types.        *)
(***************************************************************************)
EXTENDS ReplicationLemmas

\* Most leaves are for Zenon; those that calculate say SMTT.
USE ZenonT(30)

\* The steps that make no entry: nobody becomes leader, no leader's log is cut, a
\* flush starts on a leader at the end of its log, and what is new among the parts
\* fits.
LEMMA QuietStep ==
    ASSUME Types, MatchingInv, Types', RequestsStart', HandlersFollow', VotesStay,
           NEW f, Fits(f), Parts' \subseteq Parts \cup {f},
           \A i \in Node : state'[i] = Leader =>
               /\ state[i] = Leader /\ currentTerm'[i] = currentTerm[i]
               /\ Len(log'[i]) >= Len(log[i]),
           \A i \in Node : flushing'[i].pc = "append" =>
               \/ flushing'[i] = flushing[i]
               \/ /\ state[i] = Leader
                  /\ flushing'[i].index = Len(log[i]) + 1
                  /\ flushing'[i].term = currentTerm[i]
    PROVE  MatchingInv'
<1> USE DEF MatchingInv
<1>1. PartsMatch'
  <2> SUFFICES ASSUME NEW a \in Parts', NEW b \in Parts' PROVE Matching(a, b)
    BY DEF PartsMatch
  <2>1. CASE a \in Parts /\ b \in Parts
    BY <2>1 DEF PartsMatch
  <2>2. CASE a = f /\ b \in Parts
    BY <2>2 DEF Fits
  <2>3. CASE a \in Parts /\ b = f
    BY <2>3, MatchingSymmetric DEF Fits
  <2>4. CASE a = f /\ b = f
    BY <2>4 DEF Matching
  <2>5. QED
    BY <2>1, <2>2, <2>3, <2>4
<1>2. \A g \in Parts' : \A n \in DOMAIN g : \E h \in Parts : n \in DOMAIN h /\ h[n] = g[n]
  BY DEF Fits
<1>3. \A i \in Node : Claims(i)' \subseteq Claims(i)
  <2> SUFFICES ASSUME NEW i \in Node, NEW t \in Claims(i)' PROVE t \in Claims(i)
    OBVIOUS
  <2>1. CASE state'[i] = Leader /\ t = currentTerm'[i]
    BY <2>1 DEF Claims
  <2>2. CASE flushing'[i].pc = "append" /\ t = flushing'[i].term
    BY <2>2 DEF Claims
  <2>3. QED
    BY <2>1, <2>2 DEF Claims
<1>4. TermsAreElected'
  <2>1. \A i \in Node : \A t \in Claims(i)' : t > 0 /\ Elected(t)'
    <3> SUFFICES ASSUME NEW i \in Node, NEW t \in Claims(i)' PROVE t > 0 /\ Elected(t)'
      OBVIOUS
    <3>1. t \in Claims(i)
      BY <1>3
    <3>2. t \in Nat
      <4>1. currentTerm[i] \in Nat /\ flushing[i].term \in Nat
        BY DEF Types, Flush
      <4>2. QED
        BY <3>1, <4>1 DEF Claims
    <3>3. t > 0 /\ Elected(t)
      BY <3>1 DEF TermsAreElected
    <3>4. QED
      BY <3>2, <3>3, ElectedStays
  <2>2. ASSUME NEW g \in Parts', NEW n \in DOMAIN g, g[n] > 0 PROVE Elected(g[n])'
    <3>1. PICK h \in Parts : n \in DOMAIN h /\ h[n] = g[n]
      BY <1>2
    <3>2. h[n] \in Nat
      BY <3>1, PartsShape DEF Shape
    <3>3. Elected(h[n])
      BY <2>2, <3>1 DEF TermsAreElected
    <3>4. Elected(h[n])'
      BY <3>2, <3>3, ElectedStays
    <3>5. QED
      BY <3>1, <3>4
  <2>3. \A i, j \in Node : i # j => (Claims(i) \cap Claims(j))' = {}
    BY <1>3 DEF TermsAreElected
  <2>4. QED
    BY <2>1, <2>2, <2>3 DEF TermsAreElected
<1>5. NewEntriesAreFresh'
  <2> SUFFICES ASSUME NEW i \in Node, NEW g \in Parts'
               PROVE  /\ state'[i] = Leader =>
                            \A n \in DOMAIN g : g[n] = currentTerm'[i] => n <= Len(log'[i])
                      /\ flushing'[i].pc = "append" /\ flushing'[i].index \in DOMAIN g
                            => g[flushing'[i].index] # flushing'[i].term
    BY DEF NewEntriesAreFresh
  <2>0. Len(log[i]) \in Nat /\ Len(log'[i]) \in Nat
    <3>1. log[i] \in Seq(Nat) /\ log'[i] \in Seq(Nat)
      BY DEF Types
    <3>2. QED
      BY <3>1, SMTT(30)
  <2>1. ASSUME state'[i] = Leader, NEW n \in DOMAIN g, g[n] = currentTerm'[i]
        PROVE  n <= Len(log'[i])
    <3>1. PICK h \in Parts : n \in DOMAIN h /\ h[n] = g[n]
      BY <1>2
    <3>2. n \in Nat
      BY <3>1, PartsShape DEF Shape
    <3>3. n <= Len(log[i])
      BY <2>1, <3>1 DEF NewEntriesAreFresh
    <3>4. QED
      BY <2>0, <2>1, <3>2, <3>3, SMTT(30)
  <2>2. ASSUME flushing'[i].pc = "append", flushing'[i].index \in DOMAIN g,
               g[flushing'[i].index] = flushing'[i].term
        PROVE  FALSE
    <3>1. PICK h \in Parts : flushing'[i].index \in DOMAIN h
                             /\ h[flushing'[i].index] = g[flushing'[i].index]
      BY <1>2, <2>2
    <3>2. CASE flushing'[i] = flushing[i]
      BY <2>2, <3>1, <3>2, SMTT(30) DEF NewEntriesAreFresh
    <3>3. CASE /\ state[i] = Leader /\ flushing'[i].index = Len(log[i]) + 1
               /\ flushing'[i].term = currentTerm[i]
      <4>1. Len(log[i]) + 1 <= Len(log[i])
        BY <2>2, <3>1, <3>3, SMTT(30) DEF NewEntriesAreFresh
      <4>2. QED
        BY <2>0, <4>1, SMTT(30)
    <3>4. QED
      BY <2>2, <3>2, <3>3
  <2>3. QED
    BY <2>1, <2>2
<1>6. QED
  BY <1>1, <1>4, <1>5

\* All entries of f are in some part, but for that of term t at index n.
OnlyAdds(f, n, t) ==
    \A k \in DOMAIN f : \/ k = n /\ f[k] = t
                        \/ \E g \in Parts : k \in DOMAIN g /\ g[k] = f[k]

\* Log l is the log of node i with one more entry, of term t.
LEMMA AppendedFacts ==
    ASSUME Types, RequestsStart, PartsMatch, NEW i \in Node, NEW t \in Nat, NEW l,
           l = Append(log[i], t),
           \A g \in Parts : Len(log[i]) + 1 \in DOMAIN g => g[Len(log[i]) + 1] # t
    PROVE  /\ l \in Seq(Nat) /\ Len(l) = Len(log[i]) + 1 /\ Len(log[i]) \in Nat
           /\ DOMAIN OfLog(l) = 0..(Len(log[i]) + 1)
           /\ \A g \in Parts : Matching(OfLog(l), g)
           /\ OnlyAdds(OfLog(l), Len(log[i]) + 1, t)
<1> DEFINE n == Len(log[i]) + 1
           f == OfLog(l)
           h == OfLog(log[i])
<1>1. log[i] \in Seq(Nat) /\ Len(log[i]) \in Nat
  BY SMTT(30) DEF Types
<1>2. /\ l \in Seq(Nat) /\ Len(l) = n /\ l[n] = t
      /\ \A k \in 1..Len(log[i]) : l[k] = log[i][k]
  BY <1>1, SMTT(30)
<1>3. /\ DOMAIN f = 0..n /\ \A k \in 0..n : f[k] = TermAt(l, k)
      /\ DOMAIN h = 0..Len(log[i]) /\ \A k \in 0..Len(log[i]) : h[k] = TermAt(log[i], k)
  BY <1>1, <1>2, OfLogFacts
<1>4. f[n] = t
  BY <1>1, <1>2, <1>3, SMTT(30) DEF TermAt
<1>5. \A k \in 0..n : k = n \/ (k \in DOMAIN h /\ f[k] = h[k])
  <2> TAKE k \in 0..n
  <2>1. CASE k = n
    BY <2>1
  <2>2. CASE k = 0
    BY <1>1, <1>3, <2>2, SMTT(30) DEF TermAt
  <2>3. CASE k # n /\ k # 0
    <3>1. k \in 1..Len(log[i]) /\ k \in 0..Len(log[i])
      BY <1>1, <2>3, SMTT(30)
    <3>2. QED
      BY <1>2, <1>3, <2>3, <3>1 DEF TermAt
  <2>4. QED
    BY <2>1, <2>2, <2>3
<1>6. h \in Parts
  BY LogIsPart
<1>7. n \in Nat /\ \A g \in Parts : n \in DOMAIN g => g[n] # t
  BY <1>1, SMTT(30)
<1> HIDE DEF f, h, n
<1>8. ASSUME NEW g \in Parts PROVE Matching(f, g)
  <2> SUFFICES ASSUME NEW a \in DOMAIN f \cap DOMAIN g, NEW b \in DOMAIN f \cap DOMAIN g,
                      b <= a, f[a] = g[a]
               PROVE  f[b] = g[b]
    BY DEF Matching
  <2>1. a \in 0..n /\ b \in 0..n /\ a # n
    BY <1>3, <1>4, <1>7
  <2>2. b # n
    BY <1>7, <2>1, SMTT(30)
  <2>3. a \in DOMAIN h /\ b \in DOMAIN h /\ f[a] = h[a] /\ f[b] = h[b]
    BY <1>5, <2>1, <2>2
  <2>4. Matching(h, g)
    BY <1>6 DEF PartsMatch
  <2>5. QED
    BY <2>3, <2>4 DEF Matching
<1>9. QED
  BY <1>1, <1>2, <1>3, <1>4, <1>5, <1>6, <1>8 DEF f, n, OnlyAdds

\* The steps that make an entry, of a term t that no other node may use: in the log
\* of node i, which may become leader with it.
LEMMA EntryStep ==
    ASSUME Types, MatchingInv, Types', RequestsStart', HandlersFollow', VotesStay,
           NEW i \in Node, NEW t \in Nat, t > 0, Elected(t)',
           log'[i] = Append(log[i], t), Parts' \subseteq Parts \cup {OfLog(log'[i])},
           \A g \in Parts : Len(log[i]) + 1 \in DOMAIN g => g[Len(log[i]) + 1] # t,
           \A j \in Node : j # i => t \notin Claims(j)' /\ log'[j] = log[j],
           \A j \in Node : state'[j] = Leader =>
               \/ state[j] = Leader /\ currentTerm'[j] = currentTerm[j]
               \/ /\ j = i /\ currentTerm'[i] = t
                  /\ \A g \in Parts : \A k \in DOMAIN g : g[k] # t,
           \A j \in Node : flushing'[j].pc = "append" => flushing'[j] = flushing[j],
           flushing'[i].pc = "append" => flushing'[i].term # t
    PROVE  MatchingInv'
<1> USE DEF MatchingInv
<1> DEFINE n == Len(log[i]) + 1
           f == OfLog(log'[i])
<1>1. /\ log'[i] \in Seq(Nat) /\ Len(log'[i]) = n /\ n \in Nat /\ Len(log[i]) \in Nat
      /\ DOMAIN f = 0..n /\ \A g \in Parts : Matching(f, g)
      /\ OnlyAdds(f, n, t)
  <2>1. PICK l : l = log'[i]
    OBVIOUS
  <2>2. /\ l \in Seq(Nat) /\ Len(l) = Len(log[i]) + 1 /\ Len(log[i]) \in Nat
        /\ DOMAIN OfLog(l) = 0..(Len(log[i]) + 1)
        /\ \A g \in Parts : Matching(OfLog(l), g)
        /\ OnlyAdds(OfLog(l), Len(log[i]) + 1, t)
    <3>1. l = Append(log[i], t)
      BY <2>1
    <3>2. l \in Seq(Nat) /\ Len(l) = Len(log[i]) + 1 /\ Len(log[i]) \in Nat
      <4>1. log[i] \in Seq(Nat)
        BY DEF Types
      <4>2. QED
        BY <3>1, <4>1, SMTT(30)
    <3>3. DOMAIN OfLog(l) = 0..(Len(log[i]) + 1)
      BY <3>1, AppendedFacts
    <3>4. \A g \in Parts : Matching(OfLog(l), g)
      BY <3>1, AppendedFacts
    <3>5. OnlyAdds(OfLog(l), Len(log[i]) + 1, t)
      BY <3>1, AppendedFacts
    <3>6. QED
      BY <3>2, <3>3, <3>4, <3>5
  <2>3. n \in Nat
    BY <2>2, SMTT(30)
  <2>4. QED
    BY <2>1, <2>2, <2>3
<1> HIDE DEF f, n
<1>2. PartsMatch'
  <2> SUFFICES ASSUME NEW a \in Parts', NEW b \in Parts' PROVE Matching(a, b)
    BY DEF PartsMatch
  <2>1. a \in Parts \cup {f} /\ b \in Parts \cup {f}
    BY DEF f
  <2>2. CASE a \in Parts /\ b \in Parts
    BY <2>2 DEF PartsMatch
  <2>3. CASE a = f /\ b \in Parts
    BY <1>1, <2>3
  <2>4. CASE a \in Parts /\ b = f
    BY <1>1, <2>4, MatchingSymmetric
  <2>5. CASE a = f /\ b = f
    BY <2>5 DEF Matching
  <2>6. QED
    BY <2>1, <2>2, <2>3, <2>4, <2>5
<1>3. \A g \in Parts' : \A k \in DOMAIN g :
         \/ k = n /\ g[k] = t
         \/ \E h \in Parts : k \in DOMAIN h /\ h[k] = g[k]
  BY <1>1 DEF f, OnlyAdds
<1>4. \A j \in Node : \A u \in Claims(j)' : u \in Claims(j) \/ (u = t /\ j = i)
  BY DEF Claims
<1>5. TermsAreElected'
  <2>1. ASSUME NEW j \in Node, NEW u \in Claims(j)' PROVE u > 0 /\ Elected(u)'
    <3>1. CASE u \in Claims(j)
      <4>1. currentTerm[j] \in Nat /\ flushing[j].term \in Nat
        BY DEF Types, Flush
      <4>2. u \in Nat
        BY <3>1, <4>1 DEF Claims
      <4>3. u > 0 /\ Elected(u)
        BY <3>1 DEF TermsAreElected
      <4>4. QED
        BY <4>2, <4>3, ElectedStays
    <3>2. CASE u = t
      BY <3>2
    <3>3. QED
      BY <1>4, <3>1, <3>2
  <2>2. ASSUME NEW g \in Parts', NEW k \in DOMAIN g, g[k] > 0 PROVE Elected(g[k])'
    <3>1. CASE g[k] = t
      BY <3>1
    <3>2. CASE \E h \in Parts : k \in DOMAIN h /\ h[k] = g[k]
      <4>1. PICK h \in Parts : k \in DOMAIN h /\ h[k] = g[k]
        BY <3>2
      <4>2. h[k] \in Nat
        BY <4>1, PartsShape DEF Shape
      <4>3. Elected(h[k])
        BY <2>2, <4>1 DEF TermsAreElected
      <4>4. Elected(h[k])'
        BY <4>2, <4>3, ElectedStays
      <4>5. QED
        BY <4>1, <4>4
    <3>3. QED
      BY <1>3, <3>1, <3>2
  <2>3. \A a, b \in Node : a # b => (Claims(a) \cap Claims(b))' = {}
    BY <1>4, SMTT(30) DEF TermsAreElected
  <2>4. QED
    BY <2>1, <2>2, <2>3 DEF TermsAreElected
<1>6. NewEntriesAreFresh'
  <2> SUFFICES ASSUME NEW j \in Node, NEW g \in Parts'
               PROVE  /\ state'[j] = Leader =>
                            \A k \in DOMAIN g : g[k] = currentTerm'[j] => k <= Len(log'[j])
                      /\ flushing'[j].pc = "append" /\ flushing'[j].index \in DOMAIN g
                            => g[flushing'[j].index] # flushing'[j].term
    BY DEF NewEntriesAreFresh
  <2>1. Len(log[j]) \in Nat /\ Len(log'[j]) \in Nat /\ Len(log'[j]) >= Len(log[j])
    <3>1. log[j] \in Seq(Nat) /\ log'[j] \in Seq(Nat)
      BY DEF Types
    <3>2. CASE j = i
      BY <1>1, <3>1, <3>2, SMTT(30) DEF n
    <3>3. CASE j # i
      BY <3>1, <3>3, SMTT(30)
    <3>4. QED
      BY <3>2, <3>3
  <2>2. ASSUME state'[j] = Leader, NEW k \in DOMAIN g, g[k] = currentTerm'[j]
        PROVE  k <= Len(log'[j])
    <3>1. CASE k = n /\ g[k] = t
      <4>1. t \in Claims(j)'
        BY <2>2, <3>1 DEF Claims
      <4>2. j = i
        BY <4>1
      <4>3. QED
        BY <1>1, <3>1, <4>2, SMTT(30)
    <3>2. CASE \E h \in Parts : k \in DOMAIN h /\ h[k] = g[k]
      <4>1. PICK h \in Parts : k \in DOMAIN h /\ h[k] = g[k]
        BY <3>2
      <4>2. k \in Nat
        BY <4>1, PartsShape DEF Shape
      <4>3. state[j] = Leader /\ currentTerm'[j] = currentTerm[j]
        BY <2>2, <4>1
      <4>4. k <= Len(log[j])
        BY <2>2, <4>1, <4>3 DEF NewEntriesAreFresh
      <4>5. QED
        BY <2>1, <4>2, <4>4, SMTT(30)
    <3>3. QED
      BY <1>3, <3>1, <3>2
  <2>3. ASSUME flushing'[j].pc = "append", flushing'[j].index \in DOMAIN g,
               g[flushing'[j].index] = flushing'[j].term
        PROVE  FALSE
    <3>1. CASE flushing'[j].term = t
      <4>1. t \in Claims(j)'
        BY <2>3, <3>1 DEF Claims
      <4>2. QED
        BY <2>3, <3>1, <4>1
    <3>2. CASE \E h \in Parts : /\ flushing'[j].index \in DOMAIN h
                                /\ h[flushing'[j].index] = g[flushing'[j].index]
      BY <2>3, <3>2, SMTT(30) DEF NewEntriesAreFresh
    <3>3. QED
      BY <1>3, <2>3, <3>1, <3>2
  <2>4. QED
    BY <2>2, <2>3
<1>7. QED
  BY <1>2, <1>5, <1>6

LEMMA PartsStay ==
    ASSUME log' = log, requests' \cup handling' \subseteq requests \cup handling
    PROVE  Parts' \subseteq Parts
BY DEF Parts

LEMMA OneLogChanges ==
    ASSUME NEW i \in Node, \A j \in Node : j # i => log'[j] = log[j],
           requests' \cup handling' \subseteq requests \cup handling
    PROVE  Parts' \subseteq Parts \cup {OfLog(log'[i])}
<1> SUFFICES ASSUME NEW f \in Parts', f # OfLog(log'[i]) PROVE f \in Parts
  OBVIOUS
<1>1. CASE \E j \in Node : f = OfLog(log'[j])
  BY <1>1, LogIsPart
<1>2. CASE \E m \in requests' \cup handling' : f = OfRequest(m)
  BY <1>2, RequestIsPart
<1>3. QED
  BY <1>1, <1>2 DEF Parts

\* While stepDown saves, the node stays a follower.
LEMMA HandlersStay ==
    ASSUME HandlersFollow, SavesAreAtomic, handling' \subseteq handling
    PROVE  HandlersFollow'
<1> SUFFICES ASSUME NEW m \in handling' PROVE state'[m.to] = Follower
  BY DEF HandlersFollow
<1>1. m \in handling \cap handling'
  OBVIOUS
<1>2. state'[m.to] = state[m.to]
  BY <1>1 DEF SavesAreAtomic
<1>3. QED
  BY <1>1, <1>2 DEF HandlersFollow

\* The steps that leave logs and requests as they are.
LEMMA CalmStep ==
    ASSUME Types, MatchingInv, Types', RequestsStart', HandlersFollow', VotesStay, NEW n \in Node,
           log' = log, requests' \cup handling' \subseteq requests \cup handling,
           \A i \in Node : state'[i] = Leader =>
               state[i] = Leader /\ currentTerm'[i] = currentTerm[i],
           \A i \in Node : flushing'[i].pc = "append" =>
               \/ flushing'[i] = flushing[i]
               \/ /\ state[i] = Leader
                  /\ flushing'[i].index = Len(log[i]) + 1
                  /\ flushing'[i].term = currentTerm[i]
    PROVE  MatchingInv'
<1>1. Fits(OfLog(log[n]))
  BY LogIsPart, PartFits DEF MatchingInv
<1>2. Parts' \subseteq Parts \cup {OfLog(log[n])}
  BY PartsStay
<1>3. \A i \in Node : Len(log'[i]) >= Len(log[i])
  <2> TAKE i \in Node
  <2>1. Len(log[i]) \in Nat
    BY SMTT(30) DEF Types
  <2>2. QED
    BY <2>1, SMTT(30)
<1>4. QED
  BY <1>1, <1>2, <1>3, QuietStep

LEMMA ElectionMatches ==
    ASSUME Basics, Types, MatchingInv, Types', RequestsStart', SavesAreAtomic,
           NEW i \in Node, NEW Q \in SUBSET Node, NEW R \in SUBSET Node, startElection(i, Q, R)
    PROVE  MatchingInv'
<1>0. PICK term : term = currentTerm[i] + 1
  OBVIOUS
<1>1. UNCHANGED <<flushing, requests, handling>>
  BY DEF startElection
<1>2. HandlersFollow'
  BY <1>1, HandlersStay DEF MatchingInv
<1>3. /\ VotesStay
      /\ \A j \in Node : j # i /\ state'[j] = Leader =>
            state[j] = Leader /\ currentTerm'[j] = currentTerm[j]
  BY ElectionVotes
<1>4. CASE log' = log /\ state'[i] # Leader
  BY <1>1, <1>2, <1>3, <1>4, CalmStep
<1>5. CASE IsQuorum(Q) /\ initLeaderState(i, term)
  <2>1. term \in Nat /\ term > 0 /\ currentTerm'[i] = term /\ log \in [Node -> Seq(Nat)]
    <3>1. currentTerm[i] \in Nat /\ log \in [Node -> Seq(Nat)]
      BY DEF Types
    <3>2. i \in Q /\ currentTerm' = [j \in Node |-> IF j \in Q \cup R THEN term ELSE currentTerm[j]]
      BY <1>0 DEF startElection
    <3>3. currentTerm'[i] = term
      BY <3>2
    <3>4. QED
      BY <1>0, <3>1, <3>3, SMTT(30)
  <2>2. log' = [log EXCEPT ![i] = Append(log[i], term)]
    BY <1>5 DEF initLeaderState
  <2>3. ~Elected(term)
    BY <1>0, <1>5, WonOnce
  <2>4. Elected(term)'
    <3>1. currentTerm'[i] >= term
      BY <2>1, SMTT(30)
    <3>2. \A j \in Q : currentTerm'[j] = term /\ votedFor'[j] = i
      BY <1>0 DEF startElection
    <3>3. QED
      BY <1>5, <3>1, <3>2 DEF Elected, IsQuorum, Majority
  <2>5. \A g \in Parts : \A k \in DOMAIN g : g[k] # term
    BY <2>1, <2>3 DEF MatchingInv, TermsAreElected
  <2>6. \A j \in Node : term \notin Claims(j)
    BY <2>3 DEF MatchingInv, TermsAreElected
  <2>7. \A j \in Node : j # i => term \notin Claims(j)'
    BY <1>1, <1>3, <2>6 DEF Claims
  <2>8. flushing'[i].pc = "append" => flushing'[i].term # term
    BY <1>1, <2>6 DEF Claims
  <2>9. Parts' \subseteq Parts \cup {OfLog(log'[i])}
    BY <1>1, <2>1, <2>2, OneLogChanges
  <2>10. log'[i] = Append(log[i], term) /\ \A j \in Node : j # i => log'[j] = log[j]
    BY <2>1, <2>2
  <2>11. \A j \in Node : state'[j] = Leader =>
             \/ state[j] = Leader /\ currentTerm'[j] = currentTerm[j]
             \/ /\ j = i /\ currentTerm'[i] = term
                /\ \A g \in Parts : \A k \in DOMAIN g : g[k] # term
    BY <1>3, <2>1, <2>5
  <2>12. \A g \in Parts : Len(log[i]) + 1 \in DOMAIN g => g[Len(log[i]) + 1] # term
    BY <2>5
  <2>13. \A j \in Node : flushing'[j].pc = "append" => flushing'[j] = flushing[j]
    BY <1>1
  <2>14. QED
    BY <1>2, <1>3, <2>1, <2>4, <2>7, <2>8, <2>9, <2>10, <2>11, <2>12, <2>13, EntryStep
<1>6. QED
  <2>1. \A role \in {Candidate, Follower} :
           state' = roles(i, role, Q \cup R, term) => state'[i] # Leader
    BY DEF roles, Candidate, Follower, Leader
  <2>2. \/ log' = log /\ \E role \in {Candidate, Follower} : state' = roles(i, role, Q \cup R, term)
        \/ IsQuorum(Q) /\ initLeaderState(i, term)
    BY <1>0 DEF startElection, logVars
  <2>3. QED
    BY <1>4, <1>5, <2>1, <2>2

LEMMA FlushMatches ==
    ASSUME Types, MatchingInv, Types', RequestsStart', SavesAreAtomic, NEW i \in Node,
           flushBegin(i) \/ flushAppend(i) \/ flushEnd(i)
    PROVE  MatchingInv'
<1>1. flushing \in [Node -> Flush] /\ log \in [Node -> Seq(Nat)]
  BY DEF Types
<1>2. UNCHANGED <<requests, handling, currentTerm, votedFor>>
  BY DEF flushBegin, flushAppend, flushEnd, nodeVars, netVars
<1>3. HandlersFollow' /\ VotesStay
  BY <1>2, HandlersStay, VotesUnchanged DEF MatchingInv
<1>4. \A j \in Node : state'[j] = Leader => state[j] = Leader /\ currentTerm'[j] = currentTerm[j]
  BY <1>2 DEF flushBegin, flushAppend, flushEnd, nodeVars, Types, Follower, Leader
<1>5. Idle.pc = "idle"
  BY DEF Idle
<1>6. CASE flushBegin(i)
  <2>1. log' = log /\ state[i] = Leader
        /\ flushing' = [flushing EXCEPT ![i] =
              [pc |-> "append", index |-> Len(log[i]) + 1, term |-> currentTerm[i]]]
    BY <1>6 DEF flushBegin, logVars
  <2>2. \A j \in Node : flushing'[j] = IF j = i THEN [pc |-> "append", index |-> Len(log[i]) + 1,
                                                      term |-> currentTerm[i]]
                                       ELSE flushing[j]
    BY <1>1, <2>1
  <2>3. \A j \in Node : \/ flushing'[j] = flushing[j]
                        \/ /\ state[j] = Leader /\ flushing'[j].index = Len(log[j]) + 1
                           /\ flushing'[j].term = currentTerm[j]
    BY <2>1, <2>2, SMTT(30)
  <2>4. QED
    BY <1>2, <1>3, <1>4, <2>1, <2>3, CalmStep
<1>7. CASE flushEnd(i)
  <2>1. log' = log /\ flushing' = [flushing EXCEPT ![i] = Idle]
    BY <1>7 DEF flushEnd, logVars
  <2>2. \A j \in Node : flushing'[j].pc = "append" => flushing'[j] = flushing[j]
    BY <1>1, <1>5, <2>1
  <2>3. QED
    BY <1>2, <1>3, <1>4, <2>1, <2>2, CalmStep
<1>8. CASE flushAppend(i)
  <2>0. PICK t, n : t = flushing[i].term /\ n = flushing[i].index
    OBVIOUS
  <2>1. flushing[i].pc = "append" /\ t \in Nat /\ n \in Nat /\ Len(log[i]) \in Nat
    BY <1>1, <1>8, <2>0, SMTT(30) DEF flushAppend, Flush
  <2>2. \A j \in Node : flushing'[j].pc = "append" => flushing'[j] = flushing[j] /\ j # i
    <3>1. \/ flushing' = [flushing EXCEPT ![i] = Idle]
          \/ \E pc \in {"end", "failed"} : flushing' = [flushing EXCEPT ![i].pc = pc]
      BY <1>8 DEF flushAppend
    <3>2. QED
      BY <1>1, <1>5, <3>1 DEF Flush
  <2>3. CASE log' = log
    BY <1>2, <1>3, <1>4, <2>2, <2>3, CalmStep
  <2>4. CASE n = Len(log[i]) + 1 /\ log' = [log EXCEPT ![i] = Append(@, t)]
    <3>1. t \in Claims(i)
      BY <2>0, <2>1 DEF Claims
    <3>2. t > 0 /\ Elected(t) /\ \A j \in Node : j # i => t \notin Claims(j)
      BY <3>1 DEF MatchingInv, TermsAreElected
    <3>3. Elected(t)'
      BY <1>3, <2>1, <3>2, ElectedStays
    <3>4. \A j \in Node : Claims(j)' \subseteq Claims(j)
      BY <1>4, <2>2 DEF Claims
    <3>5. \A g \in Parts : Len(log[i]) + 1 \in DOMAIN g => g[Len(log[i]) + 1] # t
      BY <2>0, <2>1, <2>4 DEF MatchingInv, NewEntriesAreFresh
    <3>6. log'[i] = Append(log[i], t) /\ \A j \in Node : j # i => log'[j] = log[j]
      BY <1>1, <2>4
    <3>7. Parts' \subseteq Parts \cup {OfLog(log'[i])}
      BY <1>2, <3>6, OneLogChanges
    <3>8. \A j \in Node : j # i => t \notin Claims(j)'
      BY <3>2, <3>4
    <3>9. QED
      BY <1>3, <1>4, <2>1, <2>2, <3>2, <3>3, <3>5, <3>6, <3>7, <3>8, EntryStep
  <2>5. QED
    BY <1>8, <2>0, <2>3, <2>4 DEF flushAppend
<1>9. QED
  BY <1>6, <1>7, <1>8

LEMMA ReplicateMatches ==
    ASSUME Types, MatchingInv, Types', RequestsStart', SavesAreAtomic,
           NEW s \in sends, replicateTo(s)
    PROVE  MatchingInv'
<1>1. s.from \in Node
  BY DEF Types, Send
<1>2. UNCHANGED <<state, currentTerm, votedFor, log, flushing, handling>>
  BY DEF replicateTo, nodeVars, logVars
<1>3. HandlersFollow' /\ VotesStay
  BY <1>2, HandlersStay, VotesUnchanged DEF MatchingInv
<1>4. CASE UNCHANGED requests
  BY <1>1, <1>2, <1>3, <1>4, CalmStep
<1>5. CASE state[s.from] = Leader /\ ~fatal[s.from]
  <2>1. PICK m \in Request :
           /\ requests' = requests \cup {m} /\ m.next > 0
           /\ m.next - 1 + Len(m.entries) <= Len(log[s.from])
           /\ m.prevTerm = TermAt(log[s.from], m.next - 1)
           /\ \A k \in 1..Len(m.entries) : m.entries[k] = log[s.from][m.next - 1 + k]
    BY <1>5, SentRequest
  <2>2. Fits(OfRequest(m))
    BY <1>1, <2>1, SentFits DEF MatchingInv
  <2>3. Parts' \subseteq Parts \cup {OfRequest(m)}
    BY <1>2, <2>1 DEF Parts
  <2>4. \A i \in Node : Len(log'[i]) >= Len(log[i])
    <3> TAKE i \in Node
    <3>1. Len(log[i]) \in Nat
      BY SMTT(30) DEF Types
    <3>2. QED
      BY <1>2, <3>1, SMTT(30)
  <2>5. QED
    BY <1>2, <1>3, <2>2, <2>3, <2>4, QuietStep
<1>6. QED
  BY <1>4, <1>5 DEF replicateTo

LEMMA HandleReplyMatches ==
    ASSUME Types, MatchingInv, Types', RequestsStart', SavesAreAtomic,
           NEW m \in replies, handleReply(m)
    PROVE  MatchingInv'
<1>1. m.to \in Node /\ m.term \in Nat
  BY DEF Types, Reply
<1>2. UNCHANGED <<log, requests, handling, flushing>>
  BY DEF handleReply, logVars
<1>3. HandlersFollow'
  BY <1>2, HandlersStay DEF MatchingInv
<1>4. CASE UNCHANGED nodeVars
  <2>1. VotesStay
    BY <1>4, VotesUnchanged DEF nodeVars
  <2>2. QED
    BY <1>1, <1>2, <1>3, <1>4, <2>1, CalmStep DEF nodeVars
<1>5. CASE stepDown(m.to, m.term)
  <2>1. /\ VotesStay
        /\ \A j \in Node : state'[j] = Leader =>
              state[j] = Leader /\ currentTerm'[j] = currentTerm[j]
    BY <1>1, <1>5, StepDownVotes
  <2>2. QED
    BY <1>1, <1>2, <1>3, <2>1, CalmStep
<1>6. QED
  BY <1>4, <1>5 DEF handleReply

\* processAppendEntries on a settled follower: the log is kept, cut or merged.
LEMMA AppendMatches ==
    ASSUME Basics, Types, MatchingInv, Types', RequestsStart', SavesAreAtomic,
           NEW m \in requests \cup handling, NEW open \in SUBSET handling,
           requests' \subseteq requests, flushing' = flushing,
           appendEntries(m, open), state[m.to] = Follower
    PROVE  MatchingInv'
<1>1. /\ m \in Request /\ m.to \in Node /\ m.next > 0 /\ log[m.to] \in Seq(Nat)
      /\ log \in [Node -> Seq(Nat)] /\ state \in [Node -> {Follower, Candidate, Leader}]
  BY DEF Types, MatchingInv, RequestsStart, Request
<1>2. handling' = open /\ UNCHANGED <<currentTerm, votedFor>>
  BY DEF appendEntries
<1>3. state' = state \/ state' = [state EXCEPT ![m.to] = Follower]
  BY DEF appendEntries
<1>4. \A j \in Node : state'[j] = Leader =>
         state[j] = Leader /\ currentTerm'[j] = currentTerm[j] /\ j # m.to
  BY <1>1, <1>2, <1>3 DEF Follower, Leader
<1>5. HandlersFollow' /\ VotesStay
  BY <1>2, HandlersStay, VotesUnchanged DEF MatchingInv
<1>6. requests' \cup handling' \subseteq requests \cup handling
  BY <1>2
<1>7. CASE log' = log
  BY <1>1, <1>4, <1>5, <1>6, <1>7, CalmStep
<1>8. ASSUME NEW l, log' = [log EXCEPT ![m.to] = l], Fits(OfLog(l))
      PROVE  MatchingInv'
  <2>1. log'[m.to] = l /\ \A j \in Node : j # m.to => log'[j] = log[j]
    BY <1>1, <1>8
  <2>2. Parts' \subseteq Parts \cup {OfLog(l)}
    BY <1>1, <1>6, <2>1, OneLogChanges
  <2>3. \A j \in Node : j # m.to => Len(log'[j]) >= Len(log[j])
    <3> TAKE j \in Node
    <3>1. Len(log[j]) \in Nat
      BY <1>1, SMTT(30)
    <3>2. QED
      BY <2>1, <3>1, SMTT(30)
  <2>4. QED
    BY <1>4, <1>5, <1>8, <2>2, <2>3, QuietStep
<1>9. CASE prevMatches(log[m.to], m) /\ log' = [log EXCEPT ![m.to] = merged(log[m.to], m)]
  BY <1>1, <1>8, <1>9, MergedFits DEF MatchingInv
<1>10. CASE /\ prevMatches(log[m.to], m) /\ merged(log[m.to], m) # log[m.to]
            /\ log' = [log EXCEPT ![m.to] = truncated(log[m.to], m)]
  <2>1. missing(log[m.to], m) # {}
    BY <1>10 DEF merged
  <2>2. Fits(OfLog(truncated(log[m.to], m)))
    BY <1>1, <1>10, <2>1, TruncatedFacts, TruncatedFits DEF MatchingInv
  <2>3. QED
    BY <1>8, <1>10, <2>2
<1>11. CASE log' = [log EXCEPT ![m.to] = log[m.to]]
  <2>1. log' = log
    BY <1>1, <1>11
  <2>2. QED
    BY <1>7, <2>1
<1>12. QED
  <2>1. \/ log' = log
        \/ prevMatches(log[m.to], m) /\ log' = [log EXCEPT ![m.to] = merged(log[m.to], m)]
        \/ /\ prevMatches(log[m.to], m) /\ merged(log[m.to], m) # log[m.to]
           /\ \E kept \in {log[m.to], truncated(log[m.to], m)} :
                 log' = [log EXCEPT ![m.to] = kept]
    BY DEF appendEntries
  <2>2. QED
    BY <1>7, <1>9, <1>10, <1>11, <2>1

LEMMA ProcessMatches ==
    ASSUME Basics, Types, MatchingInv, Types', RequestsStart', SavesAreAtomic,
           NEW m \in requests, processAppendEntries(m)
    PROVE  MatchingInv'
<1>1. m.to \in Node /\ m.term \in Nat /\ requests' \subseteq requests /\ flushing' = flushing
  BY DEF Types, Request, processAppendEntries
<1>2. CASE UNCHANGED <<nodeVars, logVars, handling>>
  <2>1. UNCHANGED <<state, currentTerm, votedFor, log, handling>>
    BY <1>2 DEF nodeVars, logVars
  <2>2. HandlersFollow' /\ VotesStay
    BY <2>1, HandlersStay, VotesUnchanged DEF MatchingInv
  <2>3. QED
    BY <1>1, <2>1, <2>2, CalmStep
<1>3. CASE stepDown(m.to, m.term) /\ handling' = handling \cup {m} /\ UNCHANGED <<logVars, replies>>
  <2>1. /\ VotesStay /\ state'[m.to] = Follower
        /\ \A j \in Node : state'[j] = Leader =>
              state[j] = Leader /\ currentTerm'[j] = currentTerm[j]
    BY <1>1, <1>3, StepDownVotes
  <2>2. HandlersFollow'
    <3> SUFFICES ASSUME NEW n \in handling' PROVE state'[n.to] = Follower
      BY DEF HandlersFollow
    <3>1. CASE n = m
      BY <2>1, <3>1
    <3>2. CASE n \in handling
      <4>1. state'[n.to] = state[n.to]
        BY <3>2 DEF SavesAreAtomic
      <4>2. QED
        BY <3>2, <4>1 DEF MatchingInv, HandlersFollow
    <3>3. QED
      BY <1>3, <3>1, <3>2
  <2>3. log' = log /\ requests' \cup handling' \subseteq requests \cup handling
    BY <1>1, <1>3 DEF logVars
  <2>4. QED
    BY <1>1, <2>1, <2>2, <2>3, CalmStep
<1>4. CASE state[m.to] = Follower /\ appendEntries(m, handling)
  BY <1>1, <1>4, AppendMatches
<1>5. QED
  BY <1>2, <1>3, <1>4 DEF processAppendEntries

LEMMA ResumeMatches ==
    ASSUME Basics, Types, MatchingInv, Types', RequestsStart', SavesAreAtomic,
           NEW m \in handling, resumeAppend(m)
    PROVE  MatchingInv'
<1>1. state[m.to] = Follower
  BY DEF MatchingInv, HandlersFollow
<1>2. appendEntries(m, handling \ {m}) /\ requests' \subseteq requests /\ flushing' = flushing
  BY DEF resumeAppend
<1>3. QED
  BY <1>1, <1>2, AppendMatches

LEMMA LossMatches ==
    ASSUME Types, MatchingInv, Types', RequestsStart', SavesAreAtomic,
           NEW m \in requests \cup replies, rpcFails(m)
    PROVE  MatchingInv'
<1>1. m.to \in Node
  BY DEF Types, Request, Reply
<1>2. /\ UNCHANGED <<state, currentTerm, votedFor, log, handling, flushing>>
      /\ requests' \subseteq requests
  BY DEF rpcFails, nodeVars, logVars
<1>3. HandlersFollow' /\ VotesStay
  BY <1>2, HandlersStay, VotesUnchanged DEF MatchingInv
<1>4. QED
  BY <1>1, <1>2, <1>3, CalmStep

LEMMA RestartMatches ==
    ASSUME Types, MatchingInv, Types', RequestsStart', SavesAreAtomic,
           NEW i \in Node, restart(i)
    PROVE  MatchingInv'
<1>1. /\ UNCHANGED <<currentTerm, votedFor, log, requests>> /\ handling' \subseteq handling
      /\ state' = [state EXCEPT ![i] = Follower] /\ flushing' = [flushing EXCEPT ![i] = Idle]
  BY DEF restart
<1>2. HandlersFollow' /\ VotesStay
  BY <1>1, HandlersStay, VotesUnchanged DEF MatchingInv
<1>3. \A j \in Node : state'[j] = Leader => state[j] = Leader /\ currentTerm'[j] = currentTerm[j]
  BY <1>1 DEF Types, Follower, Leader
<1>4. \A j \in Node : flushing'[j].pc = "append" => flushing'[j] = flushing[j]
  <2>1. Idle.pc = "idle" /\ flushing \in [Node -> Flush]
    BY DEF Idle, Types
  <2>2. QED
    BY <1>1, <2>1
<1>5. QED
  BY <1>1, <1>2, <1>3, <1>4, CalmStep

LEMMA MatchingStep ==
    ASSUME Basics, Types, Types', MatchingInv, RequestsStart', [Next /\ SavesAreAtomic]_vars
    PROVE  MatchingInv'
<1>1. Types' /\ RequestsStart'
  OBVIOUS
<1>2. CASE UNCHANGED vars
  <2>1. /\ UNCHANGED <<state, currentTerm, votedFor, log, flushing, requests, handling>>
    BY <1>2 DEF vars, nodeVars, logVars, netVars
  <2>2. MatchingInv'
    <3>1. RequestsStart' /\ HandlersFollow'
      BY <2>1 DEF MatchingInv, RequestsStart, HandlersFollow
    <3>2. Parts' = Parts /\ \A i \in Node : Claims(i)' = Claims(i)
      BY <2>1 DEF Parts, Claims
    <3>3. \A t : Elected(t) => Elected(t)'
      BY <2>1 DEF Elected
    <3>4. PartsMatch'
      BY <3>2 DEF MatchingInv, PartsMatch
    <3>5. TermsAreElected'
      BY <3>2, <3>3 DEF MatchingInv, TermsAreElected
    <3>6. NewEntriesAreFresh'
      BY <2>1, <3>2 DEF MatchingInv, NewEntriesAreFresh
    <3>7. QED
      BY <3>1, <3>4, <3>5, <3>6 DEF MatchingInv
  <2>3. QED
    BY <1>1, <2>2
<1>3. CASE Next /\ SavesAreAtomic
  <2>1. MatchingInv'
    BY <1>1, <1>3, ElectionMatches, FlushMatches, ReplicateMatches, ProcessMatches,
       ResumeMatches, HandleReplyMatches, LossMatches, RestartMatches DEF Next
  <2>2. QED
    BY <1>1, <2>1
<1>4. QED
  BY <1>2, <1>3

LEMMA InitMatches ==
    ASSUME Init, Types, RequestsStart
    PROVE  MatchingInv
<1>1. Types /\ RequestsStart
  OBVIOUS
<1>2. \A i \in Node : /\ log[i] = <<>> /\ state[i] = Follower /\ flushing[i].pc = "idle"
  BY DEF Init, Idle
<1>3. requests = {} /\ handling = {}
  BY DEF Init
<1>4. \A f \in Parts : DOMAIN f = 0..0 /\ f[0] = 0
  <2> SUFFICES ASSUME NEW f \in Parts PROVE DOMAIN f = 0..0 /\ f[0] = 0
    OBVIOUS
  <2>1. PICK i \in Node : f = OfLog(log[i])
    BY <1>3 DEF Parts
  <2>2. log[i] \in Seq(Nat) /\ Len(log[i]) = 0
    <3>1. log[i] = <<>>
      BY <1>2
    <3>2. QED
      BY <3>1, SMTT(30)
  <2>3. QED
    BY <2>1, <2>2, OfLogFacts, SMTT(30) DEF TermAt
<1>5. \A n \in 0..0 : n = 0
  BY SMTT(30)
<1>6. PartsMatch
  BY <1>4, <1>5 DEF PartsMatch, Matching
<1>7. \A i \in Node : Claims(i) = {}
  BY <1>2 DEF Claims, Follower, Leader
<1>8. TermsAreElected
  <2>1. \A f \in Parts : \A n \in DOMAIN f : f[n] = 0
    BY <1>4, <1>5
  <2>2. QED
    BY <1>7, <2>1, SMTT(30) DEF TermsAreElected
<1>9. NewEntriesAreFresh
  BY <1>2 DEF NewEntriesAreFresh, Follower, Leader
<1>10. HandlersFollow
  BY <1>3 DEF HandlersFollow
<1>11. QED
  BY <1>1, <1>6, <1>8, <1>9, <1>10 DEF MatchingInv

-----------------------------------------------------------------------------
(* Types.                                                                  *)

LEMMA ElectionType ==
    ASSUME Basics, Types, RequestsStart, NEW i \in Node, NEW Q \in SUBSET Node, NEW R \in SUBSET Node,
           startElection(i, Q, R)
    PROVE  Types' /\ RequestsStart'
<1> DEFINE term == currentTerm[i] + 1
<1>1. term \in Nat /\ Len(log[i]) \in Nat /\ log[i] \in Seq(Nat)
  BY SMTT(30) DEF Types
<1>2. /\ elections' = elections + 1 /\ elections < MaxElections
      /\ currentTerm' = [j \in Node |-> IF j \in Q \cup R THEN term ELSE currentTerm[j]]
      /\ votedFor' = [j \in Node |-> IF j \in Q THEN i ELSE IF j \in R THEN Nil ELSE votedFor[j]]
      /\ UNCHANGED <<flushing, requests, replies, handling, flushes, restarts, losses>>
  BY DEF startElection
<1>3. /\ currentTerm' \in [Node -> Nat] /\ votedFor' \in [Node -> Node \cup {Nil}]
      /\ elections' \in 0..MaxElections
  BY <1>1, <1>2, BoundAssumption, SMTT(30) DEF Types
<1>4. \A role \in {Follower, Candidate, Leader} :
         roles(i, role, Q \cup R, term) \in [Node -> {Follower, Candidate, Leader}]
  BY DEF Types, roles
<1>5. state' \in [Node -> {Follower, Candidate, Leader}]
  BY <1>4 DEF startElection
<1>6. /\ fatal' \in [Node -> BOOLEAN] /\ storageErr' \in [Node -> BOOLEAN]
  BY DEF startElection, Types, logVars
<1>7. /\ log' \in [Node -> Seq(Nat)] /\ commitIndex' \in [Node -> Nat]
      /\ nextIndex' \in [Node -> [Node -> Nat]] /\ matchIndex' \in [Node -> [Node -> Nat]]
      /\ sends' \in SUBSET Send /\ chosen' \in SUBSET [index: Nat, term: Nat, by: Nat]
  <2> HIDE DEF term
  <2>1. /\ nextIndex \in [Node -> [Node -> Nat]] /\ matchIndex \in [Node -> [Node -> Nat]]
        /\ log \in [Node -> Seq(Nat)] /\ commitIndex \in [Node -> Nat] /\ sends \in SUBSET Send
        /\ chosen \in SUBSET [index: Nat, term: Nat, by: Nat]
    BY DEF Types
  <2>2. CASE UNCHANGED <<logVars, leaderVars, sends>>
    BY <2>1, <2>2 DEF logVars, leaderVars
  <2>3. CASE initLeaderState(i, term)
    <3>1. Append(log[i], term) \in Seq(Nat)
      BY <1>1, SMTT(30)
    <3>2. commitIndex' \in [Node -> Nat] /\ chosen' \in SUBSET [index: Nat, term: Nat, by: Nat]
      <4>1. advanceCommitIndex(i, term, Append(log[i], term), [j \in Node |-> 0])
        BY <2>3 DEF initLeaderState
      <4>2. QED
        BY <1>1, <3>1, <4>1, AdvanceType
    <3>3. \A j \in Node : [from |-> i, to |-> j, next |-> Len(log[i]) + 1] \in Send
      BY <1>1, SMTT(30) DEF Send
    <3>4. sends' \in SUBSET Send
      BY <2>1, <2>3, <3>3 DEF initLeaderState
    <3>5. log' \in [Node -> Seq(Nat)]
      BY <2>1, <2>3, <3>1 DEF initLeaderState
    <3>6. nextIndex' \in [Node -> [Node -> Nat]] /\ matchIndex' \in [Node -> [Node -> Nat]]
      BY <1>1, <2>1, <2>3, SMTT(30) DEF initLeaderState
    <3>7. QED
      BY <3>2, <3>4, <3>5, <3>6
  <2>4. CASE /\ nextIndex' = [nextIndex EXCEPT ![i] = [j \in Node |-> Len(log[i]) + 1]]
             /\ matchIndex' = [matchIndex EXCEPT ![i] = [j \in Node |-> 0]]
             /\ UNCHANGED <<log, commitIndex, chosen, sends>>
    BY <1>1, <2>1, <2>4, SMTT(30)
  <2>5. QED
    BY <2>2, <2>3, <2>4 DEF startElection, term
<1>8. UNCHANGED <<flushing, requests, replies, handling, flushes, restarts, losses>>
  BY DEF startElection
<1>9. QED
  BY <1>3, <1>5, <1>6, <1>7, <1>8 DEF Types, RequestsStart

LEMMA FlushType ==
    ASSUME Basics, Types, RequestsStart, NEW i \in Node, flushBegin(i) \/ flushAppend(i) \/ flushEnd(i)
    PROVE  Types' /\ RequestsStart'
<1>1. /\ currentTerm[i] \in Nat /\ Len(log[i]) \in Nat /\ log[i] \in Seq(Nat)
      /\ flushing \in [Node -> Flush] /\ flushing[i] \in Flush
      /\ flushing[i].index \in Nat /\ flushing[i].term \in Nat
  BY SMTT(30) DEF Types, Flush
<1>2. Idle \in Flush
  BY DEF Idle, Flush
<1>3. CASE flushBegin(i)
  <2>1. [pc |-> "append", index |-> Len(log[i]) + 1, term |-> currentTerm[i]] \in Flush
    BY <1>1, SMTT(30) DEF Flush
  <2>2. flushing' \in [Node -> Flush]
    BY <1>1, <1>3, <2>1 DEF flushBegin
  <2>3. flushes' \in 0..MaxFlushes
    BY <1>3, BoundAssumption, SMTT(30) DEF flushBegin, Types
  <2>4. UNCHANGED <<nodeVars, logVars, leaderVars, netVars, elections, restarts, losses>>
    BY <1>3 DEF flushBegin
  <2>5. QED
    BY <2>2, <2>3, <2>4 DEF Types, RequestsStart, nodeVars, logVars, leaderVars, netVars
<1>4. CASE flushAppend(i)
  <2>1. UNCHANGED <<nodeVars, commitIndex, chosen, leaderVars, netVars, bounds>>
    BY <1>4 DEF flushAppend
  <2>2. log \in [Node -> Seq(Nat)] /\ storageErr \in [Node -> BOOLEAN]
    BY DEF Types
  <2>3. \A pc \in {"end", "failed"} : [flushing EXCEPT ![i].pc = pc] \in [Node -> Flush]
    BY <1>1 DEF Flush
  <2>4. flushing' \in [Node -> Flush]
    BY <1>1, <1>2, <1>4, <2>3 DEF flushAppend
  <2>5. Append(log[i], flushing[i].term) \in Seq(Nat)
    BY <1>1, AppendType
  <2>6. log' \in [Node -> Seq(Nat)]
    BY <1>4, <2>2, <2>5 DEF flushAppend
  <2>7. storageErr' \in [Node -> BOOLEAN]
    BY <1>4, <2>2 DEF flushAppend
  <2>8. QED
    BY <2>1, <2>4, <2>6, <2>7 DEF Types, RequestsStart, nodeVars, leaderVars, netVars, bounds
<1>5. CASE flushEnd(i)
  <2>1. UNCHANGED <<leaderVars, requests, replies, handling, bounds>>
    BY <1>5 DEF flushEnd
  <2>2. flushing' \in [Node -> Flush]
    BY <1>1, <1>2, <1>5 DEF flushEnd
  <2>3. /\ UNCHANGED <<currentTerm, votedFor, log, storageErr>>
        /\ state' \in [Node -> {Follower, Candidate, Leader}]
    <3>1. UNCHANGED <<currentTerm, votedFor, log, storageErr>>
      BY <1>5 DEF flushEnd, nodeVars, logVars
    <3>2. state' = state \/ state' = [state EXCEPT ![i] = Follower]
      BY <1>5 DEF flushEnd, nodeVars
    <3>3. state \in [Node -> {Follower, Candidate, Leader}]
      BY DEF Types
    <3>4. QED
      BY <3>1, <3>2, <3>3
  <2>4. fatal' \in [Node -> BOOLEAN]
    BY <1>5 DEF flushEnd, Types, nodeVars
  <2>5. /\ sends' \in SUBSET Send /\ commitIndex' \in [Node -> Nat]
        /\ chosen' \in SUBSET [index: Nat, term: Nat, by: Nat]
    <3>1. CASE UNCHANGED <<logVars, sends>>
      BY <3>1 DEF Types, logVars
    <3>2. CASE /\ sends' = sends \cup {[from |-> i, to |-> j, next |-> 0] : j \in Node \ {i}}
               /\ advanceCommitIndex(i, currentTerm[i], log[i], matchIndex[i])
      <4>1. \A j \in Node : [from |-> i, to |-> j, next |-> 0] \in Send
        BY DEF Send
      <4>2. sends' \in SUBSET Send
        <5>1. sends \in SUBSET Send
          BY DEF Types
        <5>2. QED
          BY <3>2, <4>1, <5>1
      <4>3. QED
        BY <1>1, <3>2, <4>2, AdvanceType
    <3>3. QED
      BY <1>5, <3>1, <3>2 DEF flushEnd, logVars
  <2>6. QED
    BY <2>1, <2>2, <2>3, <2>4, <2>5 DEF Types, RequestsStart, leaderVars, bounds
<1>6. QED
  BY <1>3, <1>4, <1>5

LEMMA ReplicateType ==
    ASSUME Types, RequestsStart, NEW s \in sends, replicateTo(s)
    PROVE  Types' /\ RequestsStart'
<1>1. /\ sends' = sends \ {s}
      /\ UNCHANGED <<nodeVars, logVars, leaderVars, flushing, replies, handling, bounds>>
  BY DEF replicateTo
<1>2. requests' \in SUBSET Request /\ RequestsStart'
  <2>1. requests \in SUBSET Request /\ UNCHANGED handling
    BY <1>1 DEF Types
  <2>2. CASE UNCHANGED requests
    BY <2>1, <2>2 DEF RequestsStart
  <2>3. CASE state[s.from] = Leader /\ ~fatal[s.from]
    <3>1. PICK m \in Request :
             requests' = requests \cup {m} /\ m.next > 0 /\ (m.next = 1 => m.prevTerm = 0)
      BY <2>3, SentRequest
    <3>2. QED
      BY <2>1, <3>1 DEF RequestsStart
  <2>4. QED
    BY <2>2, <2>3 DEF replicateTo
<1>3. sends' \in SUBSET Send
  BY <1>1 DEF Types
<1>4. QED
  BY <1>1, <1>2, <1>3 DEF Types, nodeVars, logVars, leaderVars, bounds

LEMMA StepDownType ==
    ASSUME Types, NEW i \in Node, NEW term \in Nat, stepDown(i, term)
    PROVE  /\ state' \in [Node -> {Follower, Candidate, Leader}]
           /\ currentTerm' \in [Node -> Nat] /\ votedFor' \in [Node -> Node \cup {Nil}]
           /\ UNCHANGED fatal
BY DEF Types, stepDown

LEMMA HandleReplyType ==
    ASSUME Basics, Types, RequestsStart, NEW m \in replies, handleReply(m)
    PROVE  Types' /\ RequestsStart'
<1> DEFINE i == m.to
           match == [matchIndex[i] EXCEPT ![m.from] = Max({@, m.match})]
           back == IF m.conflict > 0 THEN m.conflict ELSE Max({1, m.next - 1})
<1>1. m \in Reply /\ i \in Node /\ m.from \in Node /\ m.next \in Nat /\ m.match \in Nat
      /\ m.conflict \in Nat /\ m.term \in Nat
  <2>1. m \in Reply
    BY DEF Types
  <2>2. QED
    BY <2>1, ReplyFields
<1>2. /\ replies' = replies \ {m} /\ UNCHANGED <<flushing, requests, handling, bounds>>
  BY DEF handleReply
<1>3. /\ nextIndex \in [Node -> [Node -> Nat]] /\ matchIndex \in [Node -> [Node -> Nat]]
      /\ nextIndex[i][m.from] \in Nat /\ matchIndex[i][m.from] \in Nat
      /\ log[i] \in Seq(Nat) /\ currentTerm[i] \in Nat /\ sends \in SUBSET Send
  BY <1>1 DEF Types
<1>4. /\ state' \in [Node -> {Follower, Candidate, Leader}]
      /\ currentTerm' \in [Node -> Nat] /\ votedFor' \in [Node -> Node \cup {Nil}]
      /\ fatal' \in [Node -> BOOLEAN]
  <2>1. CASE UNCHANGED nodeVars
    BY <2>1 DEF Types, nodeVars
  <2>2. CASE stepDown(i, m.term)
    BY <1>1, <2>2, StepDownType DEF Types
  <2>3. QED
    BY <2>1, <2>2 DEF handleReply
<1>5. log' = log /\ storageErr' = storageErr
  BY DEF handleReply, logVars
<1>6. /\ commitIndex' \in [Node -> Nat] /\ nextIndex' \in [Node -> [Node -> Nat]]
      /\ matchIndex' \in [Node -> [Node -> Nat]] /\ sends' \in SUBSET Send
      /\ chosen' \in SUBSET [index: Nat, term: Nat, by: Nat]
  <2>1. CASE UNCHANGED <<logVars, leaderVars, sends>>
    BY <2>1 DEF Types, logVars, leaderVars
  <2>2. CASE /\ matchIndex' = [matchIndex EXCEPT ![i] = match]
             /\ nextIndex' = [nextIndex EXCEPT ![i][m.from] = Max({@, m.match + 1})]
             /\ advanceCommitIndex(i, currentTerm[i], log[i], match)
             /\ \/ sends' = sends \cup {[from |-> i, to |-> m.from, next |-> m.match + 1]}
                \/ UNCHANGED sends
    <3>1. /\ Max({matchIndex[i][m.from], m.match}) \in Nat
          /\ Max({nextIndex[i][m.from], m.match + 1}) \in Nat
      <4>1. m.match + 1 \in Nat
        BY <1>1, SMTT(30)
      <4>2. QED
        BY <1>1, <1>3, <4>1, MinMaxNat
    <3>2. match \in [Node -> Nat]
      <4>1. matchIndex[i] \in [Node -> Nat]
        BY <1>1, <1>3
      <4>2. QED
        BY <1>1, <3>1, <4>1, UpdateType
    <3>3. matchIndex' \in [Node -> [Node -> Nat]] /\ nextIndex' \in [Node -> [Node -> Nat]]
      BY <1>1, <1>3, <2>2, <3>1, <3>2
    <3>4. commitIndex' \in [Node -> Nat] /\ chosen' \in SUBSET [index: Nat, term: Nat, by: Nat]
      BY <1>1, <1>3, <2>2, AdvanceType
    <3>5. [from |-> i, to |-> m.from, next |-> m.match + 1] \in Send
      BY <1>1, SMTT(30) DEF Send
    <3>6. sends' \in SUBSET Send
      BY <1>3, <2>2, <3>5
    <3>7. QED
      BY <3>3, <3>4, <3>6
  <2>3. CASE /\ nextIndex' = [nextIndex EXCEPT ![i][m.from] = back]
             /\ sends' = sends \cup {[from |-> i, to |-> m.from, next |-> back]}
             /\ UNCHANGED <<logVars, matchIndex>>
    <3>1. Max({1, m.next - 1}) \in Nat
      BY <1>1, MaxOfTwo, SMTT(30)
    <3>2. back \in Nat
      BY <1>1, <3>1
    <3> HIDE DEF back
    <3>3. [from |-> i, to |-> m.from, next |-> back] \in Send
      BY <1>1, <3>2 DEF Send
    <3>4. nextIndex' \in [Node -> [Node -> Nat]] /\ sends' \in SUBSET Send
      BY <1>1, <1>3, <2>3, <3>2, <3>3
    <3>5. QED
      BY <2>3, <3>4 DEF Types, logVars
  <2>4. QED
    BY <2>1, <2>2, <2>3 DEF handleReply
<1>7. replies' \in SUBSET Reply
  BY <1>2 DEF Types
<1>8. QED
  BY <1>2, <1>4, <1>5, <1>6, <1>7, SMTT(30) DEF Types, RequestsStart, bounds

\* processAppendEntries on a settled follower.
LEMMA AppendEntriesType ==
    ASSUME Basics, Types, NEW m \in Request, m.next > 0, m.next = 1 => m.prevTerm = 0,
           NEW open, appendEntries(m, open)
    PROVE  /\ handling' = open /\ UNCHANGED <<currentTerm, votedFor, chosen>>
           /\ state' \in [Node -> {Follower, Candidate, Leader}]
           /\ fatal' \in [Node -> BOOLEAN] /\ storageErr' \in [Node -> BOOLEAN]
           /\ log' \in [Node -> Seq(Nat)] /\ commitIndex' \in [Node -> Nat]
           /\ replies' \in SUBSET Reply
<1> DEFINE i == m.to
           l == merged(log[i], m)
           reply(success, conflict) ==
              [from |-> i, to |-> m.from, req |-> m.term, next |-> m.next,
               match |-> m.next - 1 + Len(m.entries),
               term |-> currentTerm[i], success |-> success,
               conflict |-> conflict]
<1>1. /\ i \in Node /\ m.from \in Node /\ m.next \in Nat /\ m.term \in Nat /\ m.commit \in Nat
      /\ m.entries \in Seq(Nat) /\ m.next - 1 + Len(m.entries) \in Nat
  <2>1. /\ i \in Node /\ m.from \in Node /\ m.next \in Nat /\ m.term \in Nat /\ m.commit \in Nat
        /\ m.entries \in Seq(Nat) /\ Len(m.entries) \in Nat
    BY RequestFields
  <2>2. m.next - 1 + Len(m.entries) \in Nat
    BY <2>1, SMTT(30)
  <2>3. QED
    BY <2>1, <2>2
<1>2. /\ log \in [Node -> Seq(Nat)] /\ log[i] \in Seq(Nat) /\ currentTerm[i] \in Nat
      /\ commitIndex \in [Node -> Nat] /\ commitIndex[i] \in Nat
      /\ replies \in SUBSET Reply
  BY <1>1 DEF Types
<1>3. handling' = open /\ UNCHANGED <<currentTerm, votedFor, chosen>>
  BY DEF appendEntries
<1>4. /\ state' \in [Node -> {Follower, Candidate, Leader}]
  BY DEF appendEntries, Types
<1>5. /\ fatal' \in [Node -> BOOLEAN] /\ storageErr' \in [Node -> BOOLEAN]
  BY DEF appendEntries, Types
<1>6. prevMatches(log[i], m) => l \in Seq(Nat)
  BY <1>2, MergedType
<1>7. log' \in [Node -> Seq(Nat)]
  <2>1. ASSUME prevMatches(log[i], m), l # log[i]
        PROVE  truncated(log[i], m) \in Seq(Nat)
    <3>1. missing(log[i], m) # {}
      BY <2>1 DEF merged
    <3>2. QED
      BY <1>2, <2>1, <3>1, TruncatedFacts
  <2>2. \/ UNCHANGED log
        \/ prevMatches(log[i], m) /\ log' = [log EXCEPT ![i] = l]
        \/ /\ prevMatches(log[i], m) /\ l # log[i]
           /\ \E kept \in {log[i], truncated(log[i], m)} : log' = [log EXCEPT ![i] = kept]
    BY DEF appendEntries
  <2> HIDE DEF l
  <2>3. QED
    BY <1>1, <1>2, <1>6, <2>1, <2>2
<1>8. commitIndex' \in [Node -> Nat]
  <2>1. CASE UNCHANGED commitIndex
    BY <1>2, <2>1
  <2>2. CASE /\ prevMatches(log[i], m)
             /\ commitIndex' = [commitIndex EXCEPT ![i] = followerCommit(@, l, m)]
    <3>1. Len(l) \in Nat
      BY <1>6, <2>2, SMTT(30)
    <3> HIDE DEF l
    <3>2. Min({m.commit, Len(l)}) \in Nat
      BY <1>1, <3>1, MinMaxNat
    <3>3. followerCommit(commitIndex[i], l, m) \in Nat
      BY <1>2, <3>2 DEF followerCommit
    <3>4. QED
      BY <1>1, <1>2, <2>2, <3>3
  <2>3. QED
    BY <2>1, <2>2 DEF appendEntries
<1>9. replies' \in SUBSET Reply
  <2>1. \A x \in Reply : Answer(x) \in SUBSET Reply
    BY <1>2 DEF Answer
  <2>2. \A success \in BOOLEAN, conflict \in Nat : reply(success, conflict) \in Reply
    BY <1>1, <1>2 DEF Reply
  <2>3. ~prevMatches(log[i], m) => conflictIndex(log[i], m) \in Nat
    BY <1>2, ConflictIndexType
  <2> HIDE DEF reply
  <2>4. \/ ~prevMatches(log[i], m) /\ replies' = Answer(reply(FALSE, conflictIndex(log[i], m)))
        \/ replies' = Answer(reply(TRUE, 0))
        \/ UNCHANGED replies
    BY DEF appendEntries, reply
  <2>5. QED
    BY <1>2, <2>1, <2>2, <2>3, <2>4
<1>10. QED
  BY <1>3, <1>4, <1>5, <1>7, <1>8, <1>9

LEMMA ProcessType ==
    ASSUME Basics, Types, RequestsStart, NEW m \in requests, processAppendEntries(m)
    PROVE  Types' /\ RequestsStart'
<1> DEFINE i == m.to
<1>1. /\ m \in Request /\ i \in Node /\ m.from \in Node /\ m.term \in Nat /\ m.next \in Nat
      /\ m.next > 0 /\ (m.next = 1 => m.prevTerm = 0) /\ currentTerm[i] \in Nat
  BY DEF Types, Request, RequestsStart
<1>2. requests' = requests \ {m} /\ UNCHANGED <<leaderVars, flushing, sends, bounds>>
  BY DEF processAppendEntries
<1>3. /\ requests' \in SUBSET Request /\ handling \in SUBSET Request /\ replies \in SUBSET Reply
  BY <1>2 DEF Types
<1> HIDE DEF i
<1>4. CASE UNCHANGED <<nodeVars, logVars, handling>> /\ replies' \in SUBSET Reply
  BY <1>2, <1>3, <1>4, SMTT(30) DEF Types, RequestsStart, nodeVars, logVars, leaderVars, bounds
<1>5. CASE stepDown(i, m.term) /\ handling' = handling \cup {m} /\ UNCHANGED <<logVars, replies>>
  <2>1. /\ state' \in [Node -> {Follower, Candidate, Leader}]
        /\ currentTerm' \in [Node -> Nat] /\ votedFor' \in [Node -> Node \cup {Nil}]
        /\ UNCHANGED fatal
    BY <1>1, <1>5, StepDownType
  <2>2. handling' \in SUBSET Request /\ RequestsStart'
    BY <1>1, <1>2, <1>3, <1>5 DEF RequestsStart
  <2>3. QED
    BY <1>2, <1>3, <1>5, <2>1, <2>2 DEF Types, logVars, leaderVars, bounds
<1>6. CASE appendEntries(m, handling)
  <2>1. /\ handling' = handling /\ UNCHANGED <<currentTerm, votedFor, chosen>>
        /\ state' \in [Node -> {Follower, Candidate, Leader}]
        /\ fatal' \in [Node -> BOOLEAN] /\ storageErr' \in [Node -> BOOLEAN]
        /\ log' \in [Node -> Seq(Nat)] /\ commitIndex' \in [Node -> Nat]
        /\ replies' \in SUBSET Reply
    BY <1>1, <1>6, AppendEntriesType
  <2>2. QED
    BY <1>2, <1>3, <2>1 DEF Types, RequestsStart, leaderVars, bounds
<1>7. QED
  <2> DEFINE r == [from |-> i, to |-> m.from, req |-> m.term, next |-> m.next,
                   match |-> 0, term |-> currentTerm[i], success |-> FALSE,
                   conflict |-> 0]
  <2>1. r \in Reply
    BY <1>1 DEF Reply, i
  <2> HIDE DEF r
  <2>2. Answer(r) \in SUBSET Reply
    BY <1>3, <2>1 DEF Answer
  <2>3. \/ UNCHANGED <<nodeVars, logVars, replies, handling>>
        \/ replies' = Answer(r) /\ UNCHANGED <<nodeVars, logVars, handling>>
        \/ stepDown(i, m.term) /\ handling' = handling \cup {m} /\ UNCHANGED <<logVars, replies>>
        \/ appendEntries(m, handling)
    BY DEF processAppendEntries, i, r
  <2>4. QED
    BY <1>3, <1>4, <1>5, <1>6, <2>2, <2>3

LEMMA ResumeType ==
    ASSUME Basics, Types, RequestsStart, NEW m \in handling, resumeAppend(m)
    PROVE  Types' /\ RequestsStart'
<1>1. m \in Request /\ m.next > 0 /\ (m.next = 1 => m.prevTerm = 0)
  BY DEF Types, RequestsStart
<1>2. appendEntries(m, handling \ {m}) /\ UNCHANGED <<leaderVars, flushing, sends, requests, bounds>>
  BY DEF resumeAppend
<1>3. /\ handling' = handling \ {m} /\ UNCHANGED <<currentTerm, votedFor, chosen>>
      /\ state' \in [Node -> {Follower, Candidate, Leader}]
      /\ fatal' \in [Node -> BOOLEAN] /\ storageErr' \in [Node -> BOOLEAN]
      /\ log' \in [Node -> Seq(Nat)] /\ commitIndex' \in [Node -> Nat]
      /\ replies' \in SUBSET Reply
  BY <1>1, <1>2, AppendEntriesType
<1>4. QED
  BY <1>2, <1>3 DEF Types, RequestsStart, leaderVars, bounds

LEMMA LossType ==
    ASSUME Types, RequestsStart, NEW m, rpcFails(m)
    PROVE  Types' /\ RequestsStart'
BY BoundAssumption, SMTT(30)
DEF rpcFails, Types, RequestsStart, nodeVars, logVars, leaderVars

LEMMA RestartType ==
    ASSUME Types, RequestsStart, NEW i \in Node, restart(i)
    PROVE  Types' /\ RequestsStart'
<1>1. Idle \in Flush
  BY DEF Idle, Flush
<1>2. flushing' \in [Node -> Flush] /\ restarts' \in 0..MaxRestarts
  <2>1. flushing' \in [Node -> Flush]
    BY <1>1 DEF restart, Types
  <2>2. restarts' \in 0..MaxRestarts
    BY BoundAssumption, SMTT(30) DEF restart, Types
  <2>3. QED
    BY <2>1, <2>2
<1>3. fatal' \in [Node -> BOOLEAN] /\ storageErr' \in [Node -> BOOLEAN]
  BY DEF restart, Types
<1>4. /\ nextIndex' \in [Node -> [Node -> Nat]] /\ matchIndex' \in [Node -> [Node -> Nat]]
      /\ commitIndex' \in [Node -> Nat] /\ state' \in [Node -> {Follower, Candidate, Leader}]
  BY DEF restart, Types
<1>5. /\ sends' \in SUBSET Send /\ replies' \in SUBSET Reply /\ handling' \in SUBSET Request
      /\ RequestsStart'
  BY DEF restart, Types, RequestsStart
<1>6. QED
  BY <1>2, <1>3, <1>4, <1>5 DEF restart, Types

LEMMA TypesStep == Basics /\ Types /\ RequestsStart /\ [Next]_vars => Types' /\ RequestsStart'
<1> SUFFICES ASSUME Basics, Types, RequestsStart, [Next]_vars
             PROVE  Types' /\ RequestsStart'
  OBVIOUS
<1>1. CASE UNCHANGED vars
  BY <1>1 DEF vars, nodeVars, logVars, leaderVars, netVars, bounds, Types, RequestsStart
<1>2. CASE Next
  BY <1>2, ElectionType, FlushType, ReplicateType, ProcessType, ResumeType, HandleReplyType,
     LossType, RestartType DEF Next
<1>3. QED
  BY <1>1, <1>2

LEMMA InitTypes == Init => Types /\ RequestsStart
<1> SUFFICES ASSUME Init PROVE Types /\ RequestsStart
  OBVIOUS
<1>1. Idle \in Flush /\ <<>> \in Seq(Nat)
  BY SMTT(30) DEF Idle, Flush
<1>2. fatal \in [Node -> BOOLEAN] /\ storageErr \in [Node -> BOOLEAN]
  BY DEF Init
<1>3. QED
  BY <1>1, <1>2, BoundAssumption, SMTT(30) DEF Init, Types, RequestsStart
=============================================================================
