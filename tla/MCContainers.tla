---------------------------- MODULE MCContainers ----------------------------
(***************************************************************************)
(* An instance of Containers for TLC.                                      *)
(***************************************************************************)
EXTENDS Containers, TLC

CONSTANTS
    int,        \* an integer, in two bytes
    near,       \* a string whose entry needs four bytes more to reach ZIP_BIGLEN
    long,       \* a string whose entry is longer than that
    huge,       \* a string too long for a ziplist
    f1, f2, f3, f4,
    word, text, \* a value that just fits into a zipmap, and one that does not
    name        \* a member that is no integer

MCPayloadSize == int :> 2 @@ near :> 248 @@ long :> 300 @@ huge :> 301
MCPushArgs == {<<int>>, <<near>>, <<long>>, <<near, huge>>}
MCIndexes == {-2, -1, 0}
MCRemoveCounts == {-1, 0, 1}

\* Integers are "-1", "0" and "1", of which an int32_t has the first two.
MCInt32Min == -1
MCHashIntegers == {-1, 0, 1}
MCHashValues == {-1, 0, 1, word, text}
MCStringSize ==
    [f \in {f1, f2, f3, f4} |-> 1] @@ (-1 :> 2) @@ (0 :> 1) @@ (1 :> 1) @@ word :> 6 @@ text :> 7
MCSetArgs == {<<<<f1, word>>, <<f2, 0>>>>, <<<<f3, 0>>, <<f1, text>>>>}
MCIncrements == {-1}

\* Integers of two, four and eight bytes; -3 goes to the front of a set.
MCMemberIntegers == {-3, 0, 1, 9}
MCSetMembers == {-3, 0, 1, 9, name}
MCIntersections ==
    {<<"key">>, <<"other">>, <<"key", "other">>, <<"other", "key">>, <<"key", "key">>}

\* A client that cares about versions and one that does not.  No property of
\* this instance is about deadlines: every write removes the key's.
MCRequests ==
    {[ver |-> 1, care |-> TRUE, et |-> 0], [ver |-> 1, care |-> FALSE, et |-> 0]}

\* Commands of lists and hashes do not look at the other key: there is none
\* while this one has a list or a hash.  A set there is looked at, and no
\* command given to it, once it has two members.
SmallOther ==
    /\ other # Absent => ~IsList /\ ~IsHash
    /\ HoldsSet("other") => setTypeSize(other.val) < 2

\* No command depends on the last reply.
MCView == <<key, other>>

=============================================================================
