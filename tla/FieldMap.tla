------------------------------ MODULE FieldMap ------------------------------
(***************************************************************************)
(* What a hash promises: a map from fields to values.  It may go at any    *)
(* time, a command that is refused changes nothing, and neither does a     *)
(* command of another type, unless it stores its result in the key.        *)
(***************************************************************************)
EXTENDS Integers, SequencesExt

CONSTANTS
    Names, Values,
    Numbers,    \* the values that are integers
    Narrow(_),  \* an integer cut to the width of a stored one
    MaxFields,  \* of a hash that HSET or HINCRBY adds to
    Pairs, Increments,
    Mine,       \* the commands of this type
    Stores      \* commands that replace whatever their key holds

VARIABLES
    map,        \* field -> value, with no fields if there is no hash
    reply       \* [cmd, arg, rc, val] of the last command

vars == <<map, reply>>

Answering(cmd) == reply'.cmd = cmd
Asked(arg) == reply'.arg = arg
Answers(rc, val) == reply'.rc = rc /\ reply'.val = val
Says(rc, val) == Answers(rc, val) /\ UNCHANGED map
Refuses(rc) == Says(rc, 0)

There(f) == f \in DOMAIN map
None == DOMAIN map = {}
Size == Cardinality(DOMAIN map)
With(m, f, v) == [g \in DOMAIN m \cup {f} |-> IF g = f THEN v ELSE m[g]]
WithAll(m, pairs) ==
    LET after[n \in 0 .. Len(pairs)] ==
            IF n = 0 THEN m ELSE With(after[n - 1], pairs[n][1], pairs[n][2])
    IN  after[Len(pairs)]

\* A hash without fields is no hash, and its key may hold something else.
Nothing == None /\ \E rc \in {"NOT_EXIST", "WRONG_TYPE"} : Refuses(rc)
Taken == None /\ Refuses("WRONG_TYPE")
Conflict == ~None /\ Refuses("VERSION_ERROR")

-----------------------------------------------------------------------------

Set(f, v) ==
    \/ Taken \/ Conflict
    \/ /\ There(f) \/ Size < MaxFields
       /\ Answers(IF There(f) THEN "ALREADY_EXIST" ELSE "OK", 0)
       /\ map' = With(map, f, v)
    \/ ~There(f) /\ Size >= MaxFields /\ Refuses("LEN_LIMITED")

SetNew(f, v) ==
    \/ Taken \/ Conflict
    \/ There(f) /\ Refuses("ALREADY_EXIST")
    \/ ~There(f) /\ Answers("OK", 0) /\ map' = With(map, f, v)

\* All of the pairs one after another, or those before the first new field
\* if the hash is full.
SetMany(pairs) ==
    LET new == {i \in DOMAIN pairs : ~There(pairs[i][1])}
        n == IF Size < MaxFields \/ new = {} THEN Len(pairs)
             ELSE (CHOOSE i \in new : \A j \in new : i <= j) - 1
    IN  \/ Taken \/ Conflict
        \/ /\ Answers(IF n = Len(pairs) THEN "OK" ELSE "LEN_LIMITED", n)
           /\ map' = WithAll(map, SubSeq(pairs, 1, n))

Increment(f, incr) ==
    LET sum == Narrow((IF There(f) THEN map[f] ELSE 0) + incr)
    IN  \/ Taken \/ Conflict
        \/ There(f) /\ map[f] \notin Numbers /\ Refuses("IS_NOT_INTEGER")
        \/ ~There(f) /\ Size >= MaxFields /\ Refuses("LEN_LIMITED")
        \/ /\ IF There(f) THEN map[f] \in Numbers ELSE Size < MaxFields
           /\ Answers("OK", sum)
           /\ map' = With(map, f, sum)

Delete(f) ==
    \/ Nothing \/ Conflict
    \/ ~There(f) /\ ~None /\ Refuses("NOT_EXIST")
    \/ /\ There(f)
       /\ Answers("OK", 0)
       /\ map' = [g \in DOMAIN map \ {f} |-> map[g]]

Get(f) ==
    \/ Nothing
    \/ ~There(f) /\ ~None /\ Refuses("NOT_EXIST")
    \/ There(f) /\ Says("OK", map[f])

GetMany(fs) ==
    \/ Nothing
    \/ /\ ~None
       /\ Says("OK", [i \in DOMAIN fs |-> IF There(fs[i]) THEN <<map[fs[i]]>> ELSE <<>>])

Exists(f) ==
    Nothing \/ (~None /\ Refuses(IF There(f) THEN "OK" ELSE "NOT_EXIST"))

Length == Nothing \/ (~None /\ Says("OK", Size))

\* Every field once with its value, in any order.
GetAll ==
    \/ Nothing
    \/ /\ ~None /\ reply'.rc = "OK" /\ UNCHANGED map
       /\ Len(reply'.val) = Size
       /\ ToSet(reply'.val) = {<<f, map[f]>> : f \in DOMAIN map}

\* Something happens to this key or to another one.
Elsewhere == DOMAIN map' = {} \/ UNCHANGED map

-----------------------------------------------------------------------------

Init == None /\ reply.cmd = "NONE"

Next ==
    \/ reply'.cmd \notin Mine \cup {"NONE"} /\ UNCHANGED map
    \/ reply'.cmd \in Stores /\ DOMAIN map' = {}
    \/ Answering("NONE") /\ Elsewhere
    \/ Answering("HSET") /\ \E f \in Names, v \in Values : Asked(<<f, v>>) /\ Set(f, v)
    \/ Answering("HSETNX") /\ \E f \in Names, v \in Values : Asked(<<f, v>>) /\ SetNew(f, v)
    \/ Answering("HMSET") /\ \E pairs \in Pairs : Asked(pairs) /\ SetMany(pairs)
    \/ Answering("HMSET") /\ Asked(<<>>) /\ Refuses("WRONG_NUMBER_ARGUMENTS")
    \/ /\ Answering("HINCRBY")
       /\ \E f \in Names, incr \in Increments : Asked(<<f, incr>>) /\ Increment(f, incr)
    \/ Answering("HINCRBY") /\ Asked(<<>>) /\ Refuses("IS_NOT_INTEGER")
    \/ Answering("HDEL") /\ \E f \in Names : Asked(f) /\ Delete(f)
    \/ Answering("HGET") /\ \E f \in Names : Asked(f) /\ Get(f)
    \/ Answering("HMGET") /\ \E f, g \in Names : Asked(<<f, g>>) /\ GetMany(<<f, g>>)
    \/ Answering("HEXISTS") /\ \E f \in Names : Asked(f) /\ Exists(f)
    \/ Answering("HLEN") /\ Length
    \/ Answering("HGETALL") /\ GetAll

Spec == Init /\ [][Next]_vars

=============================================================================
