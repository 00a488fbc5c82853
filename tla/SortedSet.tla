----------------------------- MODULE SortedSet -----------------------------
(***************************************************************************)
(* What a sorted set promises: members with scores, in the order of their  *)
(* scores and, for equal ones, of their names.  A query answers by that    *)
(* order.  The set may go at any time, and a command that is refused       *)
(* changes nothing.                                                        *)
(***************************************************************************)
EXTENDS Doubles, Sequences, FiniteSets
LOCAL INSTANCE SequencesExt
LOCAL INSTANCE FiniteSetsExt

CONSTANTS
    Elems, MaxLength,
    None,           \* the contents of a key that holds nothing
    Self, Others, Sources, Aggregates,  \* what a store combines
    Scores, Ranges, Ranks, Limits

VARIABLES
    scores,     \* member -> score
    reply       \* [cmd, arg, rc, val] of the last command

vars == <<scores, reply>>

Members == DOMAIN scores

Answers(cmd, arg, rc, val) ==
    reply'.cmd = cmd /\ reply'.arg = arg /\ reply'.rc = rc /\ reply'.val = val
Answering(cmd) == reply'.cmd = cmd
Says(cmd, arg, rc, val) == Answers(cmd, arg, rc, val) /\ UNCHANGED scores
Refuses(cmd, arg, rc) == Says(cmd, arg, rc, 0)

\* A set without members is no set, and its key may hold something else.
Nothing(cmd, arg) ==
    \E rc \in {"NOT_EXIST", "WRONG_TYPE"} : Members = {} /\ Refuses(cmd, arg, rc)
Conflict(cmd, arg) == Members # {} /\ Refuses(cmd, arg, "VERSION_ERROR")

\* The members and their scores in order.
Precedes(e, f) == scores[e] < scores[f] \/ (scores[e] = scores[f] /\ e < f)
Sorted ==
    LET order == SetToSortSeq(Members, Precedes)
    IN  [i \in DOMAIN order |-> <<order[i], scores[order[i]]>>]
Ordered(s, reverse) == IF reverse THEN Reverse(s) ELSE s

InRange(s, range) ==
    /\ IF range.minex THEN range.min < s ELSE range.min <= s
    /\ IF range.maxex THEN s < range.max ELSE s <= range.max
Within(range) == {e \in Members : InRange(scores[e], range)}

\* The part of s between two positions, which count from the end if negative.
Slice(s, start, end) ==
    LET At(i) == IF i < 0 THEN Len(s) + i ELSE i
    IN  SubSeq(s, Max({At(start), 0}) + 1, Min({At(end) + 1, Len(s)}))

Without(S) == [e \in Members \ S |-> scores[e]]
With(e, s) == [f \in Members \cup {e} |-> IF f = e THEN s ELSE scores[f]]

-----------------------------------------------------------------------------

\* A new member does not go into a full set.
Full(e) == e \notin Members /\ Cardinality(Members) >= MaxLength

Add(e, s) ==
    \/ Members = {} /\ Refuses("ZADD", <<e, s>>, "WRONG_TYPE")
    \/ Conflict("ZADD", <<e, s>>)
    \/ Full(e) /\ Refuses("ZADD", <<e, s>>, "LEN_LIMITED")
    \/ /\ ~Full(e)
       /\ IF e \in Members THEN Answers("ZADD", <<e, s>>, "ALREADY_EXIST", 0)
          ELSE Answers("ZADD", <<e, s>>, "OK", 1)
       /\ scores' = With(e, s)

\* A score never becomes NaN.
Increment(e, s) ==
    LET sum == IF e \in Members THEN Plus(scores[e], s) ELSE s
    IN  \/ Members = {} /\ Refuses("ZINCRBY", <<e, s>>, "WRONG_TYPE")
        \/ Conflict("ZINCRBY", <<e, s>>)
        \/ Full(e) /\ Refuses("ZINCRBY", <<e, s>>, "LEN_LIMITED")
        \/ sum = NaN /\ Refuses("ZINCRBY", <<e, s>>, "IS_NOT_NUMBER")
        \/ /\ ~Full(e) /\ sum # NaN
           /\ Answers("ZINCRBY", <<e, s>>, "OK", sum)
           /\ scores' = With(e, sum)

RemoveMember(e) ==
    \/ Nothing("ZREM", <<e>>) \/ Conflict("ZREM", <<e>>)
    \/ e \notin Members /\ Refuses("ZREM", <<e>>, "NOT_EXIST")
    \/ /\ e \in Members
       /\ Answers("ZREM", <<e>>, "OK", 0)
       /\ scores' = Without({e})

RemoveAll(cmd, arg, S) ==
    \/ Nothing(cmd, arg) \/ Conflict(cmd, arg)
    \/ Refuses(cmd, arg, "RANGE_HAVE_NONE") /\ S = {} /\ Members # {}
    \/ Answers(cmd, arg, "OK", Cardinality(S)) /\ S # {} /\ scores' = Without(S)

RemoveRange(range) == RemoveAll("ZREMRANGEBYSCORE", range, Within(range))
RemoveRanks(start, end) ==
    RemoveAll("ZREMRANGEBYRANK", <<start, end>>,
              {p[1] : p \in ToSet(Slice(Sorted, start, end))})

\* A member of the union or intersection of the sources gets the combination
\* of its weighted scores in some order of the sources that have it.
ContentsOf(s) == IF s # Self THEN Others[s] ELSE IF Members = {} THEN None ELSE scores
Combine(aggregate, a, b) ==
    CASE aggregate = "SUM" -> IF Plus(a, b) = NaN THEN 0 ELSE Plus(a, b)
      [] aggregate = "MIN" -> Min({a, b})
      [] aggregate = "MAX" -> Max({a, b})
Store(op, src, aggregate) ==
    LET Has(i, e) == ContentsOf(src[i].src) # None /\ e \in DOMAIN ContentsOf(src[i].src)
        holders(e) == {i \in DOMAIN src : Has(i, e)}
        weighted(e, i) == Times(src[i].weight, ContentsOf(src[i].src)[e])
        members == {e \in Elems : IF op = "UNION" THEN holders(e) # {}
                                  ELSE holders(e) = DOMAIN src}
    IN  /\ Answers("ZSTORE", <<op, src, aggregate>>,
                   IF members = {} THEN "CZERO" ELSE "OK", Cardinality(members))
        /\ DOMAIN scores' = members
        /\ \A e \in members : \E order \in SetToSeqs(holders(e)) :
              scores'[e] = FoldLeft(LAMBDA s, i : Combine(aggregate, s, weighted(e, i)),
                                    weighted(e, order[1]), Tail(order))

\* The key of a source may hold something else.
StoreRefused(op, src, aggregate) ==
    /\ Members = {} /\ \E i \in DOMAIN src : src[i].src = Self
    /\ Refuses("ZSTORE", <<op, src, aggregate>>, "WRONG_TYPE")

-----------------------------------------------------------------------------

\* The members asked for, if there are any.
List(cmd, arg, s) ==
    \/ Nothing(cmd, arg)
    \/ Refuses(cmd, arg, "RANGE_HAVE_NONE") /\ s = <<>> /\ Members # {}
    \/ Says(cmd, arg, "OK", s) /\ s # <<>>

RankRange(start, end, reverse) ==
    List("ZRANGE", <<start, end, reverse>>, Slice(Ordered(Sorted, reverse), start, end))

\* Backwards, the bounds change places.
ScoreRange(range, limit, reverse) ==
    LET bounds == IF ~reverse THEN range
                  ELSE [min |-> range.max, max |-> range.min,
                        minex |-> range.maxex, maxex |-> range.minex]
        all == SelectSeq(Ordered(Sorted, reverse), LAMBDA p : InRange(p[2], bounds))
    IN  List("ZRANGEBYSCORE", <<range, limit, reverse>>,
             IF limit < 0 THEN all ELSE SubSeq(all, 1, Min({limit, Len(all)})))

Count(range) ==
    LET arg == <<range, -1, FALSE>>
        n == Cardinality(Within(range))
    IN  \/ Nothing("ZCOUNT", arg)
        \/ Refuses("ZCOUNT", arg, "RANGE_HAVE_NONE") /\ n = 0 /\ Members # {}
        \/ Says("ZCOUNT", arg, "OK", n) /\ n # 0

Size ==
    \/ Nothing("ZCARD", <<>>)
    \/ Members # {} /\ Says("ZCARD", <<>>, "OK", Cardinality(Members))

Score(e) ==
    \/ Nothing("ZSCORE", <<e>>)
    \/ e \notin Members /\ Refuses("ZSCORE", <<e>>, "NOT_EXIST")
    \/ e \in Members /\ Says("ZSCORE", <<e>>, "OK", scores[e])

Rank(e, reverse) ==
    \/ Nothing("ZRANK", <<e, reverse>>)
    \/ e \notin Members /\ Refuses("ZRANK", <<e, reverse>>, "NOT_EXIST")
    \/ \E i \in 1 .. Cardinality(Members) :
          /\ Says("ZRANK", <<e, reverse>>, "OK", i - 1)
          /\ Ordered(Sorted, reverse)[i][1] = e

Gone == scores' = <<>> /\ reply'.cmd = "NONE"

-----------------------------------------------------------------------------

Init == scores = <<>> /\ reply.cmd = "NONE"

Next ==
    \/ Answering("ZADD") /\ \E e \in Elems, s \in Scores : Add(e, s)
    \/ Answering("ZINCRBY") /\ \E e \in Elems, s \in Scores : Increment(e, s)
    \/ Answering("ZREM") /\ \E e \in Elems : RemoveMember(e)
    \/ Answering("ZSCORE") /\ \E e \in Elems : Score(e)
    \/ Answering("ZRANK") /\ \E e \in Elems, reverse \in BOOLEAN : Rank(e, reverse)
    \/ Answering("ZREMRANGEBYSCORE") /\ \E range \in Ranges : RemoveRange(range)
    \/ Answering("ZCOUNT") /\ \E range \in Ranges : Count(range)
    \/ /\ Answering("ZRANGEBYSCORE")
       /\ \E range \in Ranges, limit \in Limits, reverse \in BOOLEAN :
             ScoreRange(range, limit, reverse)
    \/ /\ Answering("ZREMRANGEBYRANK")
       /\ \E start, end \in Ranks : RemoveRanks(start, end)
    \/ /\ Answering("ZRANGE")
       /\ \E start, end \in Ranks, reverse \in BOOLEAN : RankRange(start, end, reverse)
    \/ /\ Answering("ZSTORE")
       /\ \E op \in {"UNION", "INTER"}, src \in Sources, a \in Aggregates :
             Store(op, src, a) \/ StoreRefused(op, src, a)
    \/ Size
    \/ Refuses("MALFORMED", <<>>, "IS_NOT_DOUBLE")
    \/ Refuses("MALFORMED", <<>>, "IS_NOT_INTEGER")
    \/ Refuses("MALFORMED", <<>>, "SYNTAX_ERROR")
    \/ Gone

Spec == Init /\ [][Next]_vars

=============================================================================
