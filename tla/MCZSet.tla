------------------------------- MODULE MCZSet -------------------------------
(***************************************************************************)
(* An instance of ZSet for TLC, and its refinement of SortedSet: the       *)
(* contents are those of the dict.                                         *)
(***************************************************************************)
EXTENDS ZSet, TLC

CONSTANTS second, missing

MCElems == {1, 2, 3}
MCScores == {1, -Inf}
MCRanks == {-2, 0, 1}
MCLimits == {-1, 0, 1}
MCOthers == second :> [e \in {2, 3} |-> 1] @@ missing :> NULL

\* Inclusive and exclusive ranges, and those of them a walk back reads.
ScoreRange(min, max, minex, maxex) == [min |-> min, max |-> max, minex |-> minex, maxex |-> maxex]
RangesBetween(min, max) == {ScoreRange(min, max, minex, maxex) : minex, maxex \in BOOLEAN}
UpFromZero == RangesBetween(0, Inf)
MCRanges == RangesBetween(1, Inf) \cup RangesBetween(Inf, 1)

Listed(src, weight) == [src |-> src, weight |-> weight]

\* This key and another, in the order of their sizes, a missing key, and
\* keys listed twice.
MCSourceLists ==
    {<<Listed(Self, 1), Listed(second, 1)>>, <<Listed(second, 1), Listed(Self, 1)>>,
     <<Listed(Self, 1), Listed(Self, 1)>>,
     <<Listed(missing, 1), Listed(second, 1)>>, <<Listed(second, -2), Listed(second, -2)>>}

\* This key alone, its scores negated.
Negation == {<<Listed(Self, -1)>>}

\* This key alone, its scores times zero.
Zeroing == {<<Listed(Self, 0)>>}

\* A client that does not care about versions, and one that does.
Careless == [ver |-> 1, care |-> FALSE, et |-> -1]
Careful == [ver |-> 1, care |-> TRUE, et |-> -1]
OneClient == {[Careless EXCEPT !.et = 1]}
TwoClients == {Careless, Careful}

\* No command depends on the last reply.
MCView == key

Promise == INSTANCE SortedSet
    WITH scores <- IF IsZset THEN key.val.dict ELSE <<>>,
         MaxLength <- ZsetMax, None <- NULL, Scores <- ScoreArgs,
         Ranks <- RankArgs, Sources <- SourceLists

\* Two structures kept by hand answer as one sorted set: every query as the
\* sorted members say, every write as on a map from members to scores, and a
\* refused command changes no member.
ImplementsSortedSet == Promise!Spec

=============================================================================
