------------------------------ MODULE SkipList ------------------------------
(***************************************************************************)
(* The skip list of kvstore/skiplist.go behind a sorted set, and the reads *)
(* of sortedset.go.  SortedSetStore holds its mutex around every operation *)
(* on a list, so each is one step.                                         *)
(*                                                                         *)
(* A member is in the list at most once, so members name the nodes.  The   *)
(* list is a record of the struct's fields; forward is indexed by level    *)
(* (1 is the code's level 0) and node.                                     *)
(*                                                                         *)
(* Scores are numbers that a comparison orders: NaN, which ZADD takes like *)
(* any other score, is left out.  It is neither equal to nor less than     *)
(* itself, so delete does not find the node of a member with this score,   *)
(* the next ZADD of the member doubles it, and rank panics.                *)
(***************************************************************************)
EXTENDS Integers, Sequences, FiniteSets, FiniteSetsExt, Functions

CONSTANTS Members,   \* names of members, as numbers: only their order counts
          Scores,    \* scores other than NaN, as numbers
          MaxLevel,  \* maxLevel, 16 in the code
          Header,    \* the header node
          Nil

ASSUME SkipListAssumption ==
    /\ IsFiniteSet(Members) /\ Members \subseteq Int /\ Scores \subseteq Int
    /\ MaxLevel \in Nat \ {0} /\ Header # Nil /\ {Header, Nil} \cap Members = {}

VARIABLE sl

Levels == 1..MaxLevel
Nodes == Members \cup {Header}
NoScores == [m \in {} |-> 0]

\* newSkipList.
newSkipList ==
    [forward |-> [i \in Levels |-> [n \in Nodes |-> Nil]],
     backward |-> [m \in Members |-> Nil],
     tail |-> Nil, level |-> 1, length |-> 0,
     score |-> NoScores,   \* the scores in the nodes
     dict |-> NoScores]    \* the scores by member

\* A wrong order: equal scores are not told apart by the member.
lessByScore(score1, member1, score2, member2) == score1 < score2

less(score1, member1, score2, member2) ==
    IF score1 = score2 THEN member1 < member2 ELSE score1 < score2

\* Where the search on level i ends that starts at a node: the last one before
\* the given score and member.
advance(l, i, from, s, m) ==
    LET last[n \in Nodes] ==
            LET next == l.forward[i][n]
            IN  IF next # Nil /\ less(l.score[next], next, s, m) THEN last[next] ELSE n
    IN  last[from]

\* The array update of insert and delete: levels above the list's give the header.
update(l, s, m) ==
    LET upd[i \in Levels] ==
            IF i > l.level THEN Header
            ELSE advance(l, i, IF i = l.level THEN Header ELSE upd[i + 1], s, m)
    IN  upd

\* The levels on which delete takes node m out: it stops at the first on which
\* the node is not next.
unlinked(l, upd, m) == {i \in 1..l.level : \A j \in 1..i : l.forward[j][upd[j]] = m}

\* A wrong removal: the tail stays behind.
tailAfterStays(l, m) == l.tail

\* The tail once m is out.
tailAfter(l, m) == IF l.forward[1][m] # Nil THEN l.tail ELSE l.backward[m]

\* The level once forward is what is left: empty levels at the top are given up.
levelAfter(l, forward) == Max({1} \cup {i \in 1..l.level : forward[i][Header] # Nil})

\* delete, for a member of the dict.  A node that the search does not find, or that it
\* finds with another score, stays.
delete(l, m) ==
    LET upd == update(l, l.dict[m], m)
        curr == l.forward[1][upd[1]]
        out == unlinked(l, upd, m)
        next == l.forward[1][m]
        forward == [i \in Levels |-> IF i \in out
                                     THEN [l.forward[i] EXCEPT ![upd[i]] = l.forward[i][m], ![m] = Nil]
                                     ELSE l.forward[i]]
        backward == [x \in Members |-> IF x = next THEN l.backward[m]
                                       ELSE IF x = m THEN Nil ELSE l.backward[x]]
    IN  IF curr # m \/ l.score[curr] # l.dict[m] THEN l
        ELSE [forward |-> forward, backward |-> backward, tail |-> tailAfter(l, m),
              level |-> levelAfter(l, forward), length |-> l.length - 1,
              score |-> Restrict(l.score, DOMAIN l.score \ {m}),
              dict |-> Restrict(l.dict, DOMAIN l.dict \ {m})]

\* The end of insert: the new node of height lvl goes behind the nodes of update.
link(l, s, m, lvl) ==
    LET upd == update(l, s, m)
        next == l.forward[1][upd[1]]
        with(f) == [x \in DOMAIN f \cup {m} |-> IF x = m THEN s ELSE f[x]]
    IN  [forward |-> [i \in Levels |->
                        IF i <= lvl
                        THEN [l.forward[i] EXCEPT ![m] = l.forward[i][upd[i]], ![upd[i]] = m]
                        ELSE l.forward[i]],
         backward |-> [x \in Members |-> IF x = m THEN (IF upd[1] = Header THEN Nil ELSE upd[1])
                                         ELSE IF x = next THEN m ELSE l.backward[x]],
         tail |-> IF next = Nil THEN m ELSE l.tail,
         level |-> Max({l.level, lvl}), length |-> l.length + 1,
         score |-> with(l.score), dict |-> with(l.dict)]

\* insert: nothing for the same score, otherwise an old entry goes first.
insert(l, s, m, lvl) ==
    IF m \in DOMAIN l.dict /\ l.dict[m] = s THEN l
    ELSE link(IF m \in DOMAIN l.dict THEN delete(l, m) ELSE l, s, m, lvl)

\* The row of nodes from n on, by a pointer of the list.
rowFrom(n, pointer) ==
    LET row[x \in Nodes \cup {Nil}] == IF x = Nil THEN <<>> ELSE <<x>> \o row[pointer[x]]
    IN  row[n]
ascending(l) == rowFrom(l.forward[1][Header], l.forward[1])
descending(l) == rowFrom(l.tail, l.backward)

\* ZScore of a member, Nil if there is none: search looks only into the dict.
ZScore(l, m) == IF m \in DOMAIN l.dict THEN l.dict[m] ELSE Nil

\* rank: the position on the lowest level, for a member of the dict; a member that
\* is missing there, with its score, is a panic.
rank(l, m) == Min({k \in DOMAIN ascending(l) : /\ l.score[ascending(l)[k]] = l.dict[m]
                                              /\ ascending(l)[k] = m}) - 1
ZRank(l, m) == IF m \in DOMAIN l.dict THEN rank(l, m) ELSE Nil

\* rangeByRank on the ascending row, revRangeByRank on the descending one.
byRank(l, row, start, stop) ==
    LET first == Max({start, 0})
        last == Min({stop, l.length - 1})
    IN  IF first > last \/ first >= l.length THEN <<>>
        ELSE [k \in 1..(Min({last + 1, Len(row)}) - first) |-> row[first + k]]
rangeByRank(l, start, stop) == byRank(l, ascending(l), start, stop)
revRangeByRank(l, start, stop) == byRank(l, descending(l), start, stop)

\* A wrong reading of a negative index: -1 is one before the last.
fromEndShort(i, length) == IF i < 0 THEN Max({0, length + i - 1}) ELSE i

\* A negative index counts from the end, but not beyond the beginning.
fromEnd(i, length) == IF i < 0 THEN Max({0, length + i}) ELSE i

\* ZRange and ZRevRange of a key that exists and has not expired.
ZRange(l, start, stop) ==
    LET first == fromEnd(start, l.length)
        last == fromEnd(stop, l.length)
    IN  IF first > last \/ first >= l.length THEN <<>> ELSE rangeByRank(l, first, last)
ZRevRange(l, start, stop) ==
    LET first == fromEnd(start, l.length)
        last == fromEnd(stop, l.length)
    IN  IF first > last \/ first >= l.length THEN <<>> ELSE revRangeByRank(l, first, last)

-----------------------------------------------------------------------------
Init == sl = newSkipList

\* ZAdd, with the height that randomLevel picks.
ZAdd(m, s, lvl) == sl' = insert(sl, s, m, lvl)

\* ZRem of a member that is there.
ZRem(m) == m \in DOMAIN sl.dict /\ sl' = delete(sl, m)

Next ==
    \/ \E m \in Members, s \in Scores, lvl \in Levels : ZAdd(m, s, lvl)
    \/ \E m \in Members : ZRem(m)

Spec == Init /\ [][Next]_sl

-----------------------------------------------------------------------------
Mirror(row) == [k \in DOMAIN row |-> row[Len(row) + 1 - k]]

\* The scores of the nodes on the lowest level, in the order of the level.
Ranking == [k \in DOMAIN ascending(sl) |-> <<ascending(sl)[k], sl.score[ascending(sl)[k]]>>]

Set == INSTANCE SortedSet WITH ranking <- Ranking

\* The list is a sorted set: whatever heights randomLevel gives, a search that
\* starts on the upper levels links and unlinks at the right place, a member whose
\* score changes moves, and none is lost or doubled, as long as no score is NaN.
\* (skipList.insert, skipList.delete)
ImplementsSortedSet == Set!Spec

\* The dict and length, which ZScore, ZRank and the ranges trust, the backward
\* pointers and the tail, which ZRevRange follows, and the upper levels tell of the
\* same nodes in the same order as the lowest level, and no level is empty, as long as
\* no score is NaN.  (skipList.insert, skipList.delete)
StructureAgrees ==
    LET row == ascending(sl)
        onLevel(i) == rowFrom(sl.forward[i][Header], sl.forward[i])
    IN  /\ sl.length = Len(row) /\ DOMAIN sl.dict = Range(row)
        /\ \A m \in Range(row) : ZScore(sl, m) = sl.score[m]
        /\ descending(sl) = Mirror(row)
        /\ \A i \in Levels : /\ onLevel(i) = SelectSeq(row, LAMBDA m : m \in Range(onLevel(i)))
                             /\ i > 1 => (onLevel(i) # <<>> <=> i <= sl.level)

\* The elements of a row that the indices start and stop name; an index counts from
\* the front, or from the end if it is negative.
Bounds == (-(Cardinality(Members) + 1))..(Cardinality(Members) + 1)
Position(i) == IF i < 0 THEN sl.length + i ELSE i
Slice(row, start, stop) ==
    SelectSeq(row, LAMBDA m : \E k \in DOMAIN row : /\ row[k] = m
                                                    /\ Position(start) <= k - 1
                                                    /\ k - 1 <= Position(stop))

\* The index arithmetic of ZRange and ZRevRange: for every start, and every stop that is
\* not before the first member, the answer is exactly the members of these ranks, from
\* the front or from the back, and ZRank gives back the position.  A stop before the
\* first member is left out: it is taken for the first.
RangesAreSlices ==
    LET row == ascending(sl)
    IN  /\ \A start, stop \in Bounds : Position(stop) >= 0 =>
              /\ ZRange(sl, start, stop) = Slice(row, start, stop)
              /\ ZRevRange(sl, start, stop) = Slice(Mirror(row), start, stop)
        /\ \A m \in Members : ZRank(sl, m) # Nil =>
              ZRange(sl, ZRank(sl, m), ZRank(sl, m)) = <<m>>
=============================================================================
