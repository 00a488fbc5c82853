------------------------------ MODULE SkipList ------------------------------
(***************************************************************************)
(* The skip list of t_zset.c as a value: its functions map a zskiplist to  *)
(* a zskiplist.  The caller inserts no object twice, so a node is known by *)
(* its object; z.node has the header and the allocated nodes.  Objects are *)
(* numbered in the order of compareStringObjects.  level[1] here is        *)
(* level[0] of the code.                                                   *)
(*                                                                         *)
(* Every search goes down the levels and, on each, forward over nodes as   *)
(* long as a condition holds, adding up the spans it crosses.  A node and  *)
(* the sum are a place; only the condition differs: cross[p], of the next. *)
(***************************************************************************)
EXTENDS Doubles, SequencesExt

CONSTANTS
    Header,             \* zsl->header
    NULL,
    ZSKIPLIST_MAXLEVEL

zslCreate ==
    [level |-> 1, length |-> 0, tail |-> NULL,
     node |-> [x \in {Header} |->
        [score |-> 0, backward |-> NULL,
         level |-> [i \in 1 .. ZSKIPLIST_MAXLEVEL |-> [forward |-> NULL, span |-> 0]]]]]

First(z) == z.node[Header].level[1].forward

Places(z) == [node : DOMAIN z.node, rank : Int]

\* Where walks along level i end, from each place on that level.
Along(z, i, cross) ==
    LET from[p \in {q \in Places(z) : i \in DOMAIN z.node[q.node].level}] ==
            LET l == z.node[p.node].level[i]
                next == [node |-> l.forward, rank |-> p.rank + l.span]
            IN  IF l.forward # NULL /\ cross[next] THEN from[next] ELSE p
    IN  from

\* Where the search ends on each level, down from the top one: path[n] has
\* the upper n levels, and on the next one it goes on from there.
Search(z, cross) ==
    LET path[n \in 0 .. z.level] ==
            IF n = 0 THEN <<>>
            ELSE LET i == z.level + 1 - n
                     above == path[n - 1]
                     start == IF n = 1 THEN [node |-> Header, rank |-> 0] ELSE above[1]
                 IN  <<Along(z, i, cross)[start]>> \o above
    IN  path[z.level]

\* Mutant: equal scores are not told apart by their objects.
BeforeByScore(z, x, score, obj) == Less(z.node[x].score, score)

\* Node x comes before score and obj: by score, then by object.
Before(z, x, score, obj) ==
    \/ Less(z.node[x].score, score)
    \/ Equal(z.node[x].score, score) /\ x < obj

\* Mutant: the levels above the new node do not notice it.
PassedUnnoticed(l, x, taken, crossed) ==
    IF taken THEN [forward |-> x, span |-> crossed + 1] ELSE l

\* A level of the node a search ended on, once x is behind it: x takes the
\* level up, or passes below it.
Passed(l, x, taken, crossed) ==
    IF taken THEN [forward |-> x, span |-> crossed + 1]
    ELSE [l EXCEPT !.span = @ + 1]

\* A node of the given height for obj.  The levels it adds start at the
\* header with a span over the whole list.
zslInsert(z, height, score, obj) ==
    LET at == Search(z, [p \in Places(z) |-> Before(z, p.node, score, obj)])
        level == Max({z.level, height})
        update == [i \in 1 .. level |-> IF i <= z.level THEN at[i].node ELSE Header]
        rank == [i \in 1 .. level |-> IF i <= z.level THEN at[i].rank ELSE 0]
        old(i) == IF i <= z.level THEN z.node[update[i]].level[i]
                  ELSE [z.node[Header].level[i] EXCEPT !.span = z.length]
        new == [score |-> score,
                backward |-> IF update[1] = Header THEN NULL ELSE update[1],
                level |-> [i \in 1 .. height |->
                    [old(i) EXCEPT !.span = @ - (rank[1] - rank[i])]]]
        Level(n, i) == IF i <= level /\ update[i] = n
                       THEN Passed(old(i), obj, i <= height, rank[1] - rank[i])
                       ELSE z.node[n].level[i]
    IN  [level |-> level, length |-> z.length + 1,
         tail |-> IF old(1).forward = NULL THEN obj ELSE z.tail,
         node |-> [n \in DOMAIN z.node \cup {obj} |->
            IF n = obj THEN new
            ELSE [z.node[n] EXCEPT
                    !.backward = IF n = old(1).forward THEN obj ELSE @,
                    !.level = [i \in DOMAIN @ |-> Level(n, i)]]]]

\* Mutant: the tail goes back only when the list becomes empty.
TailKept(z, x) == IF z.length = 1 THEN NULL ELSE z.tail

TailWithout(z, x) ==
    IF z.node[x].level[1].forward = NULL THEN z.node[x].backward ELSE z.tail

\* Takes x out of the levels it is in, given the node before it on each.
zslDeleteNode(z, x, update) ==
    LET Level(n, i) ==
            LET l == z.node[n].level[i]
            IN  IF i > z.level \/ update[i] # n THEN l
                ELSE IF l.forward # x THEN [l EXCEPT !.span = @ - 1]
                ELSE LET lx == z.node[x].level[i]
                     IN  [forward |-> lx.forward, span |-> l.span + lx.span - 1]
        node == [n \in DOMAIN z.node \ {x} |->
                    [z.node[n] EXCEPT
                        !.backward = IF n = z.node[x].level[1].forward
                                     THEN z.node[x].backward ELSE @,
                        !.level = [i \in DOMAIN @ |-> Level(n, i)]]]
    IN  [level |-> Max({1} \cup {i \in 1 .. z.level : node[Header].level[i].forward # NULL}),
         length |-> z.length - 1, tail |-> TailWithout(z, x), node |-> node]

\* zslDelete finds the node: it follows those before its score and object.
Finds(z, score, obj) ==
    LET at == Search(z, [p \in Places(z) |-> Before(z, p.node, score, obj)])
    IN  z.node[at[1].node].level[1].forward = obj /\ Equal(z.node[obj].score, score)

\* zslDelete of a node it finds.
zslDelete(z, score, obj) ==
    LET at == Search(z, [p \in Places(z) |-> Before(z, p.node, score, obj)])
    IN  zslDeleteNode(z, obj, [i \in 1 .. z.level |-> at[i].node])

-----------------------------------------------------------------------------
(* Walks along level 1.                                                    *)

Next1(z, x, reverse) == IF reverse THEN z.node[x].backward ELSE z.node[x].level[1].forward

\* The first node from x on, or NULL, that is not to be skipped.
After(z, x, reverse, skip) ==
    LET f[n \in DOMAIN z.node \cup {NULL}] ==
            IF n \in skip THEN f[Next1(z, n, reverse)] ELSE n
    IN  f[x]

\* The nodes from x on, as long as within[p] holds of a node and its number,
\* which are a place as well.
Run(z, x, reverse, within) ==
    LET from[p \in Places(z)] ==
            LET next == [node |-> Next1(z, p.node, reverse), rank |-> p.rank + 1]
                rest == IF next.node = NULL THEN <<>> ELSE from[next]
            IN  IF within[p] THEN <<p.node>> \o rest ELSE <<>>
    IN  IF x = NULL THEN <<>> ELSE from[[node |-> x, rank |-> 1]]

-----------------------------------------------------------------------------
(* Ranges and ranks.                                                       *)

\* Mutant: an exclusive bound is taken for an inclusive one.
BelowMaxInclusive(s, range) == Less(s, range.max) \/ Equal(s, range.max)

\* A score range: bounds, each of them inclusive or exclusive.
BelowMin(s, range) == Less(s, range.min) \/ (range.minex /\ Equal(s, range.min))
BelowMax(s, range) == Less(s, range.max) \/ (~range.maxex /\ Equal(s, range.max))

\* Deleting a run of nodes, one zslDeleteNode each, from the same place.
DeleteRun(z, at, xs) ==
    LET update == [i \in 1 .. z.level |-> at[i].node]
        after[n \in 0 .. Len(xs)] ==
            IF n = 0 THEN z ELSE zslDeleteNode(after[n - 1], xs[n], update)
    IN  after[Len(xs)]

\* The objects deleted, and the list without them.
zslDeleteRangeByScore(z, range) ==
    LET at == Search(z, [p \in Places(z) |-> BelowMin(z.node[p.node].score, range)])
        xs == Run(z, z.node[at[1].node].level[1].forward, FALSE,
                  [p \in Places(z) |-> BelowMax(z.node[p.node].score, range)])
    IN  [gone |-> xs, zsl |-> DeleteRun(z, at, xs)]

\* The same for ranks, which count from 1.
zslDeleteRangeByRank(z, start, end) ==
    LET at == Search(z, [p \in Places(z) |-> p.rank < start])
        xs == Run(z, z.node[at[1].node].level[1].forward, FALSE,
                  [p \in Places(z) |-> at[1].rank + p.rank <= end])
    IN  [gone |-> xs, zsl |-> DeleteRun(z, at, xs)]

zslFirstWithScore(z, score) ==
    LET at == Search(z, [p \in Places(z) |-> Less(z.node[p.node].score, score)])
    IN  z.node[at[1].node].level[1].forward

\* 0 for an element that is not there.
zslGetRank(z, score, obj) ==
    LET at == Search(z, [p \in Places(z) |->
                  \/ Before(z, p.node, score, obj)
                  \/ Equal(z.node[p.node].score, score) /\ p.node = obj])
        hits == {i \in 1 .. z.level : at[i].node = obj}
    IN  IF hits = {} THEN 0 ELSE at[Max(hits)].rank

zslGetElementByRank(z, rank) ==
    LET at == Search(z, [p \in Places(z) |-> p.rank <= rank])
        hits == {i \in 1 .. z.level : at[i].rank = rank}
    IN  IF hits = {} THEN NULL ELSE at[Max(hits)].node

=============================================================================
