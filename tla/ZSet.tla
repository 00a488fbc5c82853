-------------------------------- MODULE ZSet --------------------------------
(***************************************************************************)
(* The sorted sets of t_zset.c: one key that may hold a zset, which keeps  *)
(* its members twice, in a dict from members to their scores and in a skip *)
(* list ordered by score.  dict[e] is the score the entry of e points to,  *)
(* which is in e's node of the list.                                       *)
(*                                                                         *)
(* A new node has any height.  ZUNIONSTORE and ZINTERSTORE read this key   *)
(* and others, whose contents are constants, and store into this one.      *)
(***************************************************************************)
EXTENDS SkipList, TypedKey

CONSTANTS
    REDIS_ZSET,  \* the type of zset objects
    Elems,       \* members, numbered in the order of their names
    ZsetMax,     \* server->zset_max_size
    Self,        \* this key among the sources of a store
    Others,      \* other key -> dict it holds (a set's scores are 1), or NULL
    ScoreArgs,   \* arguments: scores and increments
    Ranges,      \* arguments: score ranges [min, max, minex, maxex]
    RankArgs,    \* arguments: positions, from the end if negative
    Limits,      \* arguments: how many of a score range, all if negative
    SourceLists, \* arguments: sequences of [src, weight]
    Aggregates   \* arguments: among "SUM", "MIN", "MAX"

ASSUME ZSetAssumption ==
    /\ ZsetMax \in Nat \ {0}
    /\ ZSKIPLIST_MAXLEVEL \in Nat \ {0}
    /\ Elems \subseteq Int /\ IsFiniteSet(Elems)
    /\ Header \notin Elems /\ NULL \notin Elems \cup {Header}
    /\ Inf \in Nat \ {0} /\ NaN \notin Int
    /\ REDIS_STRING # REDIS_ZSET

\* No argument is NaN: getDoubleFromObject and zslParseRange refuse one.
ASSUME ZSetArgumentsAssumption ==
    /\ ScoreArgs \subseteq Double \ {NaN}
    /\ \A range \in Ranges :
          /\ range.min \in Double \ {NaN} /\ range.max \in Double \ {NaN}
          /\ range.minex \in BOOLEAN /\ range.maxex \in BOOLEAN
    /\ RankArgs \subseteq Int
    /\ \A k \in DOMAIN Others :
          Others[k] = NULL \/ Others[k] \in [DOMAIN Others[k] -> Double]
    /\ \A src \in SourceLists :
          /\ src \in Seq([src : {Self} \cup DOMAIN Others, weight : Double \ {NaN}])
          /\ src # <<>>
    /\ Aggregates \subseteq {"SUM", "MIN", "MAX"}

Heights == 1 .. ZSKIPLIST_MAXLEVEL
createZsetObject == [dict |-> <<>>, zsl |-> zslCreate]
Without(dict, S) == [e \in DOMAIN dict \ S |-> dict[e]]

-----------------------------------------------------------------------------
(* ZADD, ZINCRBY.                                                          *)

\* Mutant: the dict keeps pointing at the score of the node deleted.
RescoredInList(zs, e, score, h) ==
    [dict |-> zs.dict,
     zsl |-> zslInsert(zslDelete(zs.zsl, zs.dict[e], e), h, score, e)]

\* The set once e, a member, has another score.
Rescored(zs, e, score, h) ==
    [dict |-> [zs.dict EXCEPT ![e] = score],
     zsl |-> zslInsert(zslDelete(zs.zsl, zs.dict[e], e), h, score, e)]

Inserted(zs, e, score, h) ==
    [dict |-> [f \in DOMAIN zs.dict \cup {e} |-> IF f = e THEN score ELSE zs.dict[f]],
     zsl |-> zslInsert(zs.zsl, h, score, e)]

zaddGenericCommand(cmd, e, s, incr, r) ==
    LET zs == IF key = Absent THEN createZsetObject ELSE key.val
        member == e \in DOMAIN zs.dict
        full == zs.zsl.length >= ZsetMax /\ ~member
        score == IF incr /\ member THEN Plus(zs.dict[e], s) ELSE s
        Stores(val) == key' = Written(REDIS_ZSET, val, r)
        Says(rc, val) == Answer(cmd, <<e, s>>, rc, IF incr THEN score ELSE val)
    IN  \/ /\ ~HasType(REDIS_ZSET)
           /\ Refuse(cmd, <<e, s>>, "WRONG_TYPE")
        \/ /\ HasType(REDIS_ZSET) /\ ~VersionOK(r)
           /\ Refuse(cmd, <<e, s>>, "VERSION_ERROR")
        \/ /\ HasType(REDIS_ZSET) /\ VersionOK(r) /\ full
           /\ Refuse(cmd, <<e, s>>, "LEN_LIMITED")
        \/ /\ HasType(REDIS_ZSET) /\ VersionOK(r) /\ ~full
           /\ incr /\ score = NaN
           /\ Refuse(cmd, <<e, s>>, "IS_NOT_NUMBER")
        \/ /\ HasType(REDIS_ZSET) /\ VersionOK(r) /\ ~full
           /\ ~(incr /\ score = NaN)
           /\ \/ /\ ~member
                 /\ \E h \in Heights : Stores(Inserted(zs, e, score, h))
                 /\ Says("OK", 1)
              \/ /\ member /\ Equal(score, zs.dict[e])
                 /\ Stores(zs)
                 /\ Says(IF incr THEN "OK" ELSE "ALREADY_EXIST", 0)
              \/ /\ member /\ ~Equal(score, zs.dict[e])
                 /\ Finds(zs.zsl, zs.dict[e], e)  \* asserted
                 /\ \E h \in Heights : Stores(Rescored(zs, e, score, h))
                 /\ Says(IF incr THEN "OK" ELSE "ALREADY_EXIST", 0)

Zadd(e, s, r) == zaddGenericCommand("ZADD", e, s, FALSE, r)
Zincrby(e, s, r) == zaddGenericCommand("ZINCRBY", e, s, TRUE, r)

-----------------------------------------------------------------------------
(* ZREM and the range deletes.                                             *)

\* The key after members went: with the last one it goes as well, and what
\* dbUpdateKey and EXPIRE_OR_NOT would do finds no key.
Shrunk(dict, zsl, r) ==
    IF DOMAIN dict = {} THEN Absent
    ELSE Written(REDIS_ZSET, [dict |-> dict, zsl |-> zsl], r)

Zrem(e, r) ==
    \/ RefuseWrite("ZREM", <<e>>, REDIS_ZSET, r)
    \/ /\ Writable(REDIS_ZSET, r)
       /\ e \notin DOMAIN key.val.dict
       /\ Refuse("ZREM", <<e>>, "NOT_EXIST")
    \/ /\ Writable(REDIS_ZSET, r)
       /\ e \in DOMAIN key.val.dict
       /\ Finds(key.val.zsl, key.val.dict[e], e)  \* asserted
       /\ key' = Shrunk(Without(key.val.dict, {e}),
                        zslDelete(key.val.zsl, key.val.dict[e], e), r)
       /\ Answer("ZREM", <<e>>, "OK", 0)

\* The end of both range deletes.
Removed(cmd, arg, rest, r) ==
    \/ /\ rest.gone = <<>>
       /\ Refuse(cmd, arg, "RANGE_HAVE_NONE")
    \/ /\ rest.gone # <<>>
       /\ key' = Shrunk(Without(key.val.dict, ToSet(rest.gone)), rest.zsl, r)
       /\ Answer(cmd, arg, "OK", Len(rest.gone))

Zremrangebyscore(range, r) ==
    \/ RefuseWrite("ZREMRANGEBYSCORE", range, REDIS_ZSET, r)
    \/ /\ Writable(REDIS_ZSET, r)
       /\ Removed("ZREMRANGEBYSCORE", range, zslDeleteRangeByScore(key.val.zsl, range), r)

\* The positions start to end of llen, the first one cut to 0.
First0(start, llen) == Max({0, IF start < 0 THEN llen + start ELSE start})
Last0(end, llen) == Min({llen - 1, IF end < 0 THEN llen + end ELSE end})
NoRanks(start, end, llen) ==
    First0(start, llen) > Last0(end, llen) \/ First0(start, llen) >= llen

Zremrangebyrank(start, end, r) ==
    LET cmd == "ZREMRANGEBYRANK"
        llen == key.val.zsl.length
    IN  \/ RefuseWrite(cmd, <<start, end>>, REDIS_ZSET, r)
        \/ /\ Writable(REDIS_ZSET, r)
           /\ NoRanks(start, end, llen)
           /\ Refuse(cmd, <<start, end>>, "RANGE_HAVE_NONE")
        \/ /\ Writable(REDIS_ZSET, r)
           /\ ~NoRanks(start, end, llen)
           /\ Removed(cmd, <<start, end>>,
                      zslDeleteRangeByRank(key.val.zsl, First0(start, llen) + 1,
                                           Last0(end, llen) + 1), r)

-----------------------------------------------------------------------------
(* ZUNIONSTORE and ZINTERSTORE.                                            *)

DictOf(src) == IF src # Self THEN Others[src]
               ELSE IF Readable(REDIS_ZSET) THEN key.val.dict ELSE NULL

zunionInterAggregate(target, val, aggregate) ==
    CASE aggregate = "SUM" -> LET sum == Plus(target, val)
                              IN  IF sum = NaN THEN 0 ELSE sum
      [] aggregate = "MIN" -> IF Less(val, target) THEN val ELSE target
      [] aggregate = "MAX" -> IF Less(target, val) THEN val ELSE target

Holders(src, e) == {i \in DOMAIN src :
                       DictOf(src[i].src) # NULL /\ e \in DOMAIN DictOf(src[i].src)}

\* The score e gets from its holders, from the first one on.  A union takes
\* the weight of the first one for the same key listed again.
Combined(op, src, e, aggregate) ==
    LET first == Min(Holders(src, e))
        Weight(j) == IF op = "UNION" /\ src[j].src = src[first].src
                     THEN src[first].weight ELSE src[j].weight
        Value(j) == Times(Weight(j), DictOf(src[j].src)[e])
        score[j \in first .. Len(src)] ==
            IF j = first THEN Value(j)
            ELSE IF j \notin Holders(src, e) THEN score[j - 1]
            ELSE zunionInterAggregate(score[j - 1], Value(j), aggregate)
    IN  score[Len(src)]

Contents(op, src, aggregate) ==
    LET members == {e \in Elems : IF op = "UNION" THEN Holders(src, e) # {}
                                  ELSE Holders(src, e) = DOMAIN src}
    IN  [e \in members |-> Combined(op, src, e, aggregate)]

\* qsort puts the sources in the order of their cardinalities.
SortedSources(src) ==
    LET size(i) == IF DictOf(src[i].src) = NULL THEN 0
                   ELSE Cardinality(DOMAIN DictOf(src[i].src))
    IN  \A i, j \in DOMAIN src : i < j => size(i) <= size(j)

\* The list of a dict whose members come in the given order.
InsertAll(dict, order, h) ==
    LET after[n \in 0 .. Len(order)] ==
            IF n = 0 THEN zslCreate
            ELSE zslInsert(after[n - 1], h[order[n]], dict[order[n]], order[n])
    IN  after[Len(order)]

\* The dict iterator delivers the members in some order.  The key stored has
\* the version the client sent and no deadline, and no limit on its length.
zunionInterGenericCommand(op, src, aggregate, ver) ==
    LET dict == Contents(op, src, aggregate)
        arg == <<op, src, aggregate>>
    IN  \/ /\ \E i \in DOMAIN src : src[i].src = Self
           /\ ~HasType(REDIS_ZSET)
           /\ Refuse("ZSTORE", arg, "WRONG_TYPE")
        \/ /\ (\E i \in DOMAIN src : src[i].src = Self) => HasType(REDIS_ZSET)
           /\ SortedSources(src)
           /\ \/ /\ DOMAIN dict = {}
                 /\ key' = Absent
                 /\ Answer("ZSTORE", arg, "CZERO", 0)
              \/ /\ DOMAIN dict # {}
                 /\ \E h \in [DOMAIN dict -> Heights] :
                       key' = [type |-> REDIS_ZSET, ver |-> ver, due |-> NoTTL,
                               val |-> [dict |-> dict,
                                        zsl |-> InsertAll(dict, SetToSeq(DOMAIN dict), h)]]
                 /\ Answer("ZSTORE", arg, "OK", Cardinality(DOMAIN dict))

-----------------------------------------------------------------------------
(* Queries.                                                                *)

WithScores(z, xs) == [i \in DOMAIN xs |-> <<xs[i], z.node[xs[i]].score>>]

\* From the end: the positions count from the tail.
zrangeGenericCommand(start, end, reverse) ==
    LET z == key.val.zsl
        arg == <<start, end, reverse>>
        first == First0(start, z.length)
        ln == CASE first = 0 -> IF reverse THEN z.tail ELSE First(z)
                [] first # 0 -> zslGetElementByRank(z, IF reverse THEN z.length - first
                                                       ELSE first + 1)
        rangelen == Last0(end, z.length) - first + 1
    IN  \/ RefuseRead("ZRANGE", arg, REDIS_ZSET)
        \/ /\ Readable(REDIS_ZSET)
           /\ NoRanks(start, end, z.length)
           /\ Refuse("ZRANGE", arg, "RANGE_HAVE_NONE")
        \/ /\ Readable(REDIS_ZSET)
           /\ ~NoRanks(start, end, z.length)
           /\ Reply("ZRANGE", arg, "OK",
                    WithScores(z, Run(z, ln, reverse,
                                      [p \in Places(z) |-> p.rank <= rangelen])))

\* The first node of a score range.  Backwards, range.min is the upper bound.
FirstInRange(z, range, reverse) ==
    LET atMin == {x \in DOMAIN z.node \ {Header} : Equal(z.node[x].score, range.min)}
        aboveMin == {x \in DOMAIN z.node \ {Header} : Less(range.min, z.node[x].score)}
        from == zslFirstWithScore(z, range.min)
        back == After(z, IF from = NULL THEN z.tail ELSE from, TRUE, aboveMin)
        ahead[x \in DOMAIN z.node] ==
            LET next == z.node[x].level[1].forward
            IN  IF next \in atMin THEN ahead[next] ELSE x
    IN  IF ~reverse THEN IF range.minex THEN After(z, from, FALSE, atMin) ELSE from
        ELSE IF range.minex THEN After(z, back, TRUE, atMin)
        ELSE IF back = NULL THEN NULL ELSE ahead[back]

\* How the walk tells that a node is still within range.max.
WithinMax(s, range, reverse) ==
    LET max == range.max
    IN  IF reverse THEN IF range.maxex THEN ~(Less(s, max) \/ Equal(s, max))
                        ELSE ~Less(s, max)
        ELSE IF range.maxex THEN ~(Less(max, s) \/ Equal(s, max)) ELSE ~Less(max, s)

\* ZRANGEBYSCORE, ZREVRANGEBYSCORE and ZCOUNT.
genericZrangebyscoreCommand(cmd, range, limit, reverse) ==
    LET z == key.val.zsl
        arg == <<range, limit, reverse>>
        xs == Run(z, FirstInRange(z, range, reverse), reverse,
                  [p \in Places(z) |->
                      /\ limit < 0 \/ p.rank <= limit
                      /\ WithinMax(z.node[p.node].score, range, reverse)])
    IN  \/ RefuseRead(cmd, arg, REDIS_ZSET)
        \/ /\ Readable(REDIS_ZSET) /\ xs = <<>>
           /\ Refuse(cmd, arg, "RANGE_HAVE_NONE")
        \/ /\ Readable(REDIS_ZSET) /\ xs # <<>>
           /\ Reply(cmd, arg, "OK", IF cmd = "ZCOUNT" THEN Len(xs) ELSE WithScores(z, xs))

Zrangebyscore(range, limit, reverse) ==
    genericZrangebyscoreCommand("ZRANGEBYSCORE", range, limit, reverse)
Zcount(range) == genericZrangebyscoreCommand("ZCOUNT", range, -1, FALSE)

Zcard ==
    \/ RefuseRead("ZCARD", <<>>, REDIS_ZSET)
    \/ Readable(REDIS_ZSET) /\ Reply("ZCARD", <<>>, "OK", key.val.zsl.length)

Zscore(e) ==
    \/ RefuseRead("ZSCORE", <<e>>, REDIS_ZSET)
    \/ /\ Readable(REDIS_ZSET) /\ e \notin DOMAIN key.val.dict
       /\ Refuse("ZSCORE", <<e>>, "NOT_EXIST")
    \/ /\ Readable(REDIS_ZSET) /\ e \in DOMAIN key.val.dict
       /\ Reply("ZSCORE", <<e>>, "OK", key.val.dict[e])

\* A rank of 0 means that the list does not have the member: the dict says
\* otherwise, so that branch is for the reader of a broken set only.
Zrank(e, reverse) ==
    LET z == key.val.zsl
        rank == zslGetRank(z, key.val.dict[e], e)
        found == e \in DOMAIN key.val.dict /\ rank # 0
    IN  \/ RefuseRead("ZRANK", <<e, reverse>>, REDIS_ZSET)
        \/ /\ Readable(REDIS_ZSET) /\ ~found
           /\ Refuse("ZRANK", <<e, reverse>>, "NOT_EXIST")
        \/ /\ Readable(REDIS_ZSET) /\ found
           /\ Reply("ZRANK", <<e, reverse>>, "OK",
                    IF reverse THEN z.length - rank ELSE rank - 1)

\* Arguments that do not parse are refused before the key is touched.
Malformed(rc) == Refuse("MALFORMED", <<>>, rc)

-----------------------------------------------------------------------------

Init == TypedInit

WriteCommand ==
    \/ \E r \in Requests :
          \/ \E e \in Elems, s \in ScoreArgs : Zadd(e, s, r) \/ Zincrby(e, s, r)
          \/ \E e \in Elems : Zrem(e, r)
          \/ \E range \in Ranges : Zremrangebyscore(range, r)
          \/ \E start, end \in RankArgs : Zremrangebyrank(start, end, r)
    \/ \E op \in {"UNION", "INTER"}, src \in SourceLists, a \in Aggregates,
          ver \in {r.ver : r \in Requests} :
          zunionInterGenericCommand(op, src, a, ver)

ReadCommand ==
    \/ \E start, end \in RankArgs, reverse \in BOOLEAN :
          zrangeGenericCommand(start, end, reverse)
    \/ \E range \in Ranges, limit \in Limits, reverse \in BOOLEAN :
          Zrangebyscore(range, limit, reverse)
    \/ \E range \in Ranges : Zcount(range)
    \/ Zcard
    \/ \E e \in Elems : Zscore(e)
    \/ \E e \in Elems, reverse \in BOOLEAN : Zrank(e, reverse)

Next ==
    \/ WriteCommand
    \/ ReadCommand
    \/ \E rc \in {"IS_NOT_DOUBLE", "IS_NOT_INTEGER", "SYNTAX_ERROR"} : Malformed(rc)
    \/ Goes
    \/ StoredOtherwise

Spec == Init /\ [][Next]_typedVars

-----------------------------------------------------------------------------
(* Properties.                                                             *)

IsZset == key # Absent /\ key.type = REDIS_ZSET
Zsl == key.val.zsl
Nodes == DOMAIN Zsl.node \ {Header}

\* The rank of a node on level 1 (0: the header), and whether it reaches
\* level i.
Chain == Run(Zsl, First(Zsl), FALSE,
             [p \in Places(Zsl) |-> p.rank <= Cardinality(Elems) + 1])
RankOf(x) == IF x = Header THEN 0 ELSE CHOOSE i \in DOMAIN Chain : Chain[i] = x
Reaches(x, i) == i \in DOMAIN Zsl.node[x].level

\* Every part of the key has its type; no span, an unsigned int, wraps.
TypeOK ==
    /\ key # Absent => key \in TypedEntry({REDIS_STRING, REDIS_ZSET}, {key.val})
    /\ IsZset =>
          /\ DOMAIN key.val.dict \subseteq Elems
          /\ Zsl.level \in Heights /\ Zsl.length \in Nat
          /\ \A x \in DOMAIN Zsl.node :
                /\ Zsl.node[x].score \in Double
                /\ \A i \in DOMAIN Zsl.node[x].level :
                      /\ Zsl.node[x].level[i].forward \in Nodes \cup {NULL}
                      /\ Zsl.node[x].level[i].span \in Nat

\* Level 1 runs through every node once, in the order of scores and names,
\* and back from the tail: ZRANGE, ZREVRANGE and the range deletes walk it.
ListInOrder ==
    IsZset =>
        /\ Len(Chain) = Zsl.length /\ ToSet(Chain) = Nodes
        /\ \A i \in 1 .. Zsl.length - 1 :
              Before(Zsl, Chain[i], Zsl.node[Chain[i + 1]].score, Chain[i + 1])
        /\ \A i \in DOMAIN Chain :
              Zsl.node[Chain[i]].backward = IF i = 1 THEN NULL ELSE Chain[i - 1]
        /\ Zsl.tail = IF Chain = <<>> THEN NULL ELSE Chain[Len(Chain)]

\* Every level skips exactly the nodes that do not reach it, and its spans
\* are distances on level 1: what ZRANK and access by rank add up.
SpansMeasure ==
    IsZset => \A i \in 1 .. Zsl.level, x \in DOMAIN Zsl.node :
        Reaches(x, i) =>
            LET higher == {y \in Nodes : Reaches(y, i) /\ RankOf(y) > RankOf(x)}
                l == Zsl.node[x].level[i]
            IN  /\ l.forward = NULL <=> higher = {}
                /\ higher # {} =>
                      /\ l.forward \in higher
                      /\ \A y \in higher : RankOf(l.forward) <= RankOf(y)
                      /\ l.span = RankOf(l.forward) - RankOf(x)

\* The two copies agree: the dict has the members of the list, each with
\* the score of its node, and a set that lost the last one is gone.
DictAgrees ==
    IsZset =>
        /\ DOMAIN key.val.dict = Nodes /\ Nodes # {}
        /\ \A e \in Nodes : key.val.dict[e] = Zsl.node[e].score

\* "redisAssert(deleted != 0)" in ZADD and ZREM (t_zset.c:468, 543): the
\* list finds every member of the dict under its score.
MembersAreFound ==
    IsZset => \A e \in DOMAIN key.val.dict : Finds(Zsl, key.val.dict[e], e)

=============================================================================
