----------------------------- MODULE ValueList ------------------------------
(***************************************************************************)
(* What a list promises: a sequence of values, changed at its ends, at a   *)
(* position or beside a value, and answered from either end.  The list may *)
(* go at any time, a command that is refused changes nothing, and neither  *)
(* does a command of another type, unless it stores its result in the key. *)
(***************************************************************************)
EXTENDS Integers, SequencesExt

CONSTANTS
    Values,
    MaxLength,  \* of a list that is only pushed to
    Pushed, Positions, PopCounts, RemoveCounts,
    Mine,       \* the commands of this type
    Stores      \* commands that replace whatever their key holds

VARIABLES
    items,      \* the list, empty if there is none
    reply       \* [cmd, arg, rc, val] of the last command

vars == <<items, reply>>

Answering(cmd) == reply'.cmd = cmd
Asked(arg) == reply'.arg = arg
Answers(rc, val) == reply'.rc = rc /\ reply'.val = val
Says(rc, val) == Answers(rc, val) /\ UNCHANGED items
Refuses(rc) == Says(rc, 0)

\* A list without values is no list, and its key may hold something else.
Nothing == items = <<>> /\ \E rc \in {"NOT_EXIST", "WRONG_TYPE"} : Refuses(rc)
Conflict == items # <<>> /\ Refuses("VERSION_ERROR")

\* Values put in one by one at an end: at the head the last one comes first.
Put(vs, where) == IF where = "HEAD" THEN Reverse(vs) \o items ELSE items \o vs

\* The place of a position counted from 0, or from the end if negative.
Place(i) == IF i < 0 THEN Len(items) + i + 1 ELSE i + 1
Slice(start, end) ==
    SubSeq(items, Max({Place(start), 1}), Min({Place(end), Len(items)}))

-----------------------------------------------------------------------------

\* As many of vs as the list has room for go in.
PushSome(where, vs) ==
    LET n == Min({Len(vs), Max({MaxLength - Len(items), 0})})
    IN  /\ items' = Put(SubSeq(vs, 1, n), where)
        /\ Answers(IF n < Len(vs) THEN "LEN_LIMITED" ELSE "OK", <<n, Len(items) + n>>)

Push(where, vs) ==
    \/ items = <<>> /\ Refuses("WRONG_TYPE")
    \/ Conflict
    \/ PushSome(where, vs)

\* The first value again and again.
PushIfThere(where, vs) ==
    \/ Nothing \/ Conflict
    \/ /\ items # <<>>
       /\ PushSome(where, [i \in DOMAIN vs |-> vs[1]])

\* Beside the first value equal to pivot.
InsertBeside(where, pivot, v) ==
    LET found == {i \in DOMAIN items : items[i] = pivot}
        at == IF where = "before" THEN Min(found) ELSE Min(found) + 1
    IN  \/ Nothing \/ Conflict
        \/ found = {} /\ items # <<>> /\ Refuses("CNEGO")
        \/ /\ found # {}
           /\ Answers("OK", <<1, Len(items) + 1>>)
           /\ items' = InsertAt(items, at, v)

SetAt(i, v) ==
    \/ Nothing \/ Conflict
    \/ Place(i) \notin DOMAIN items /\ items # <<>> /\ Refuses("OUT_OF_RANGE")
    \/ /\ Place(i) \in DOMAIN items
       /\ Answers("OK", 0)
       /\ items' = ReplaceAt(items, Place(i), v)

Pop(where, count) ==
    LET order == IF where = "HEAD" THEN items ELSE Reverse(items)
        n == Min({count, Len(items)})
        left == SubSeq(order, n + 1, Len(items))
    IN  \/ Nothing \/ Conflict
        \/ count <= 0 /\ items # <<>> /\ Refuses("OK_BUT_CZERO")
        \/ /\ count > 0 /\ items # <<>>
           /\ Answers("OK", SubSeq(order, 1, n))
           /\ items' = IF where = "HEAD" THEN left ELSE Reverse(left)

KeepOnly(start, end) ==
    \/ Nothing \/ Conflict
    \/ /\ items # <<>>
       /\ Answers("OK", 0)
       /\ items' = Slice(start, end)

\* The first count values equal to v, the last ones if count is negative,
\* all of them if it is zero.  Every other one stays, behind as many as stayed.
RemoveValue(count, v) ==
    LET equal == {i \in DOMAIN items : items[i] = v}
        Beyond(i) == IF count < 0 THEN {j \in equal : j > i} ELSE {j \in equal : j < i}
        gone == {i \in equal : count = 0 \/ Cardinality(Beyond(i)) < Max({count, -count})}
        kept == DOMAIN items \ gone
    IN  \/ Nothing \/ Conflict
        \/ /\ items # <<>>
           /\ Answers("OK", Cardinality(gone))
           /\ Len(items') = Cardinality(kept)
           /\ \A i \in kept : items'[Cardinality({j \in kept : j <= i})] = items[i]

Length == Nothing \/ (items # <<>> /\ Says("OK", Len(items)))

ValueAt(i) ==
    \/ Nothing
    \/ Place(i) \notin DOMAIN items /\ items # <<>> /\ Refuses("OUT_OF_RANGE")
    \/ Place(i) \in DOMAIN items /\ Says("OK", items[Place(i)])

Between(start, end) ==
    \/ Nothing
    \/ Slice(start, end) = <<>> /\ items # <<>> /\ Refuses("OUT_OF_RANGE")
    \/ Slice(start, end) # <<>> /\ Says("OK", Slice(start, end))

\* Something happens to this key or to another one.
Elsewhere == items' = <<>> \/ UNCHANGED items

-----------------------------------------------------------------------------

Init == items = <<>> /\ reply.cmd = "NONE"

Next ==
    \/ reply'.cmd \notin Mine \cup {"NONE"} /\ UNCHANGED items
    \/ reply'.cmd \in Stores /\ items' = <<>>
    \/ Answering("NONE") /\ Elsewhere
    \/ /\ Answering("PUSH")
       /\ \E where \in {"HEAD", "TAIL"}, vs \in Pushed : Asked(<<where, vs>>) /\ Push(where, vs)
    \/ /\ Answering("PUSHX")
       /\ \E where \in {"HEAD", "TAIL"}, vs \in Pushed :
             Asked(<<where, vs>>) /\ PushIfThere(where, vs)
    \/ /\ Answering("POP")
       /\ \E where \in {"HEAD", "TAIL"}, count \in PopCounts :
             Asked(<<where, count>>) /\ Pop(where, count)
    \/ /\ Answering("LINSERT")
       /\ \E where \in {"before", "after"}, pivot, v \in Values :
             Asked(<<where, pivot, v>>) /\ InsertBeside(where, pivot, v)
    \/ Answering("LINSERT") /\ Asked(<<>>) /\ Refuses("SYNTAX_ERROR")
    \/ Answering("LSET") /\ \E i \in Positions, v \in Values : Asked(<<i, v>>) /\ SetAt(i, v)
    \/ /\ Answering("LTRIM")
       /\ \E start, end \in Positions : Asked(<<start, end>>) /\ KeepOnly(start, end)
    \/ /\ Answering("LREM")
       /\ \E count \in RemoveCounts, v \in Values : Asked(<<count, v>>) /\ RemoveValue(count, v)
    \/ Answering("LINDEX") /\ \E i \in Positions : Asked(i) /\ ValueAt(i)
    \/ /\ Answering("LRANGE")
       /\ \E start, end \in Positions : Asked(<<start, end>>) /\ Between(start, end)
    \/ Answering("LLEN") /\ Length

Spec == Init /\ [][Next]_vars

=============================================================================
