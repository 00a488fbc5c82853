----------------------------- MODULE MemberSets -----------------------------
(***************************************************************************)
(* What two sets promise: members are added to and removed from the first  *)
(* one, move between them without being lost or doubled, and intersections *)
(* replace one of them.  A set may go at any time, a command that is       *)
(* refused changes nothing, and neither does a command of another type.    *)
(***************************************************************************)
EXTENDS Integers, Sequences, FiniteSets

CONSTANTS
    Elements, MaxSize,
    Lists,      \* of the names "key" and "other", to intersect
    Mine        \* the commands of this type

VARIABLES
    set,        \* "key" and "other" -> members, none if there is no set
    reply       \* [cmd, arg, rc, val] of the last command

vars == <<set, reply>>

Answering(cmd) == reply'.cmd = cmd
Asked(arg) == reply'.arg = arg
Answers(rc, val) == reply'.rc = rc /\ reply'.val = val
Says(rc, val) == Answers(rc, val) /\ UNCHANGED set
Refuses(rc) == Says(rc, 0)

Own == set["key"]
Becomes(members) == set' = [set EXCEPT !["key"] = members]

\* A set without members is no set, and its key may hold something else.
Nothing == Own = {} /\ \E rc \in {"NOT_EXIST", "WRONG_TYPE"} : Refuses(rc)
Conflict == Refuses("VERSION_ERROR")

-----------------------------------------------------------------------------

Add(e) ==
    \/ Conflict
    \/ Own = {} /\ Refuses("WRONG_TYPE")
    \/ e \in Own /\ Refuses("ALREADY_EXIST")
    \/ e \notin Own /\ Cardinality(Own) >= MaxSize /\ Refuses("LEN_LIMITED")
    \/ /\ e \notin Own /\ Cardinality(Own) < MaxSize
       /\ Answers("OK", 0) /\ Becomes(Own \cup {e})

Remove(e) ==
    \/ Nothing \/ (Own # {} /\ Conflict)
    \/ Own # {} /\ e \notin Own /\ Refuses("NOT_EXIST")
    \/ e \in Own /\ Answers("OK", 1) /\ Becomes(Own \ {e})

\* Some member leaves, and the reply has it.
Pop ==
    \/ Nothing \/ (Own # {} /\ Conflict)
    \/ \E e \in Own : Answers("OK", e) /\ Becomes(Own \ {e})

Contains(e) ==
    Nothing \/ (Own # {} /\ Refuses(IF e \in Own THEN "OK" ELSE "CZERO"))

Size == Nothing \/ (Own # {} /\ Says("OK", Cardinality(Own)))

Move(from, to, e) ==
    \/ e \notin set[from] /\ Refuses("CZERO")
    \/ (set[from] = {} \/ set[to] = {}) /\ Refuses("WRONG_TYPE")
    \/ from = to /\ set[from] # {} /\ Refuses("CONE")
    \/ /\ from # to /\ e \in set[from]
       /\ Answers("CONE", 0)
       /\ set' = [set EXCEPT ![from] = @ \ {e}, ![to] = @ \cup {e}]

All(names) == {e \in Elements : \A i \in DOMAIN names : e \in set[names[i]]}
SomeEmpty(names) == \E i \in DOMAIN names : set[names[i]] = {}

Intersect(names) ==
    \/ SomeEmpty(names) /\ \E rc \in {"NOT_EXIST", "WRONG_TYPE"} : Refuses(rc)
    \/ ~SomeEmpty(names) /\ Says("OK", All(names))

Store(dst, names) ==
    \/ SomeEmpty(names) /\ Refuses("WRONG_TYPE")
    \/ /\ Answers(IF All(names) = {} THEN "CZERO" ELSE "OK", Cardinality(All(names)))
       /\ set' = [set EXCEPT ![dst] = All(names)]

\* A set goes: deleted, expired, cleared or evicted.
Gone == \E n \in DOMAIN set : set' = [set EXCEPT ![n] = {}]

-----------------------------------------------------------------------------

Init == set = [n \in {"key", "other"} |-> {}] /\ reply.cmd = "NONE"

Next ==
    \/ reply'.cmd \notin Mine \cup {"NONE"} /\ UNCHANGED set
    \/ Answering("NONE") /\ (Gone \/ UNCHANGED set)
    \/ Answering("SADD") /\ \E e \in Elements : Asked(e) /\ Add(e)
    \/ Answering("SREM") /\ \E e \in Elements : Asked(e) /\ Remove(e)
    \/ Answering("SPOP") /\ Pop
    \/ Answering("SISMEMBER") /\ \E e \in Elements : Asked(e) /\ Contains(e)
    \/ Answering("SCARD") /\ Size
    \/ /\ Answering("SMOVE")
       /\ \E from, to \in {"key", "other"}, e \in Elements :
             Asked(<<from, to, e>>) /\ Move(from, to, e)
    \/ Answering("SINTER") /\ \E names \in Lists : Asked(names) /\ Intersect(names)
    \/ /\ Answering("SINTERSTORE")
       /\ \E dst \in {"key", "other"}, names \in Lists :
             Asked(<<dst, names>>) /\ Store(dst, names)

Spec == Init /\ [][Next]_vars

=============================================================================
