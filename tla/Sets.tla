-------------------------------- MODULE Sets --------------------------------
(***************************************************************************)
(* The sets of t_set.c: a key that may hold a set, and another one that    *)
(* members are moved to and from, and that intersections are stored in.    *)
(* A set is an intset while it has few members and only integers, and a    *)
(* dict from then on, which is a set here.  A set is [enc, ptr].           *)
(***************************************************************************)
EXTENDS Intset, TypedKey

CONSTANTS
    REDIS_SET,              \* the type of set objects
    SetMembers,             \* strings, and integers of an int64_t
    MemberIntegers,         \* the integers among them
    set_max_intset_entries,
    set_max_size,
    Intersections           \* arguments: sequences of "key" and "other"

ASSUME SetsAssumption ==
    /\ set_max_size \in Nat \ {0} /\ set_max_intset_entries \in Nat
    /\ MemberIntegers \subseteq Int \cap SetMembers
    /\ Intersections \subseteq Seq({"key", "other"}) \ {<<>>}

INTSET == "INTSET"
DICT == "DICT"

SetValues ==
    [enc : {INTSET}, ptr : Intsets] \cup [enc : {DICT}, ptr : SUBSET SetMembers]

ASSUME SetMarkAssumption ==
    /\ REDIS_SET # REDIS_STRING
    /\ Absent \notin TypedEntry({REDIS_SET}, SetValues)

createIntsetObject == [enc |-> INTSET, ptr |-> intsetNew]
createSetObject == [enc |-> DICT, ptr |-> {}]
IsIntset(set) == set.enc = INTSET

-----------------------------------------------------------------------------
(* Either encoding.                                                        *)

setTypeCreate(e) == IF e \in MemberIntegers THEN createIntsetObject ELSE createSetObject
MembersOf(set) == IF IsIntset(set) THEN ToSet(Integers64(set.ptr)) ELSE set.ptr
setTypeSize(set) == IF IsIntset(set) THEN set.ptr.length ELSE Cardinality(set.ptr)
setTypeIsMember(set, e) ==
    IF IsIntset(set) THEN e \in MemberIntegers /\ intsetFind(set.ptr, e) ELSE e \in set.ptr
setTypeConvert(set) == [enc |-> DICT, ptr |-> MembersOf(set)]

\* Mutant: what is no integer leaves the encoding as it is.
AddKeepingIntset(set, e) ==
    LET is == intsetAdd(set.ptr, e)
    IN  IF ~IsIntset(set) THEN [set EXCEPT !.ptr = @ \cup {e}]
        ELSE IF e \notin MemberIntegers THEN set
        ELSE IF is.length > set_max_intset_entries
        THEN setTypeConvert([set EXCEPT !.ptr = is])
        ELSE [set EXCEPT !.ptr = is]

\* Mutant: the number of members is not looked at.
AddKeepingLong(set, e) ==
    IF ~IsIntset(set) THEN [set EXCEPT !.ptr = @ \cup {e}]
    ELSE IF e \notin MemberIntegers THEN [enc |-> DICT, ptr |-> MembersOf(set) \cup {e}]
    ELSE [set EXCEPT !.ptr = intsetAdd(@, e)]

setTypeAdd(set, e) ==
    LET is == intsetAdd(set.ptr, e)
    IN  IF ~IsIntset(set) THEN [set EXCEPT !.ptr = @ \cup {e}]
        ELSE IF e \notin MemberIntegers THEN [enc |-> DICT, ptr |-> MembersOf(set) \cup {e}]
        ELSE IF is.length > set_max_intset_entries
        THEN setTypeConvert([set EXCEPT !.ptr = is])
        ELSE [set EXCEPT !.ptr = is]

setTypeRemove(set, e) ==
    IF ~IsIntset(set) THEN [set EXCEPT !.ptr = @ \ {e}]
    ELSE IF e \in MemberIntegers THEN [set EXCEPT !.ptr = intsetRemove(@, e)]
    ELSE set

-----------------------------------------------------------------------------
(* Commands on one key.                                                    *)

\* The version is checked before the type.  A member too many is taken out
\* again, but the set stays converted for it.
saddCommand(e, r) ==
    LET old == IF key = Absent THEN setTypeCreate(e) ELSE key.val
        new == setTypeAdd(old, e)
    IN  \/ ~VersionOK(r) /\ Refuse("SADD", e, "VERSION_ERROR")
        \/ VersionOK(r) /\ ~HasType(REDIS_SET) /\ Refuse("SADD", e, "WRONG_TYPE")
        \/ /\ VersionOK(r) /\ HasType(REDIS_SET)
           /\ \/ /\ setTypeIsMember(old, e)
                 /\ key' = Written(REDIS_SET, old, r)
                 /\ Answer("SADD", e, "ALREADY_EXIST", 0)
              \/ /\ ~setTypeIsMember(old, e) /\ setTypeSize(new) > set_max_size
                 /\ key' = [key EXCEPT !.val = setTypeRemove(new, e)]
                 /\ Answer("SADD", e, "LEN_LIMITED", 0)
              \/ /\ ~setTypeIsMember(old, e) /\ setTypeSize(new) <= set_max_size
                 /\ key' = Written(REDIS_SET, new, r)
                 /\ Answer("SADD", e, "OK", 0)

\* EXPIRE_OR_NOT also when nothing was removed.
sremCommand(e, r) ==
    LET less == setTypeRemove(key.val, e)
    IN  \/ RefuseWrite("SREM", e, REDIS_SET, r)
        \/ /\ Writable(REDIS_SET, r) /\ ~setTypeIsMember(key.val, e)
           /\ key' = [key EXCEPT !.due = ExpireOrNot(r)]
           /\ Answer("SREM", e, "NOT_EXIST", 0)
        \/ /\ Writable(REDIS_SET, r) /\ setTypeIsMember(key.val, e)
           /\ key' = IF setTypeSize(less) = 0 THEN Absent ELSE Written(REDIS_SET, less, r)
           /\ Answer("SREM", e, "OK", 1)

\* setTypeRandomElement.
spopCommand(r) ==
    \/ RefuseWrite("SPOP", 0, REDIS_SET, r)
    \/ /\ Writable(REDIS_SET, r)
       /\ \E e \in MembersOf(key.val) :
             LET less == setTypeRemove(key.val, e)
             IN  /\ key' = IF setTypeSize(less) = 0 THEN Absent
                           ELSE Written(REDIS_SET, less, r)
                 /\ Answer("SPOP", 0, "OK", e)

sismemberCommand(e) ==
    \/ RefuseRead("SISMEMBER", e, REDIS_SET)
    \/ /\ Readable(REDIS_SET)
       /\ Refuse("SISMEMBER", e, IF setTypeIsMember(key.val, e) THEN "OK" ELSE "CZERO")

scardCommand ==
    \/ RefuseRead("SCARD", 0, REDIS_SET)
    \/ Readable(REDIS_SET) /\ Reply("SCARD", 0, "OK", setTypeSize(key.val))

-----------------------------------------------------------------------------
(* Commands on both keys.                                                  *)

Holding == [n \in {"key", "other"} |-> IF n = "key" THEN key ELSE other]
Become(entries) == key' = entries["key"] /\ other' = entries["other"]
HoldsSet(n) == Holding[n] # Absent /\ Holding[n].type = REDIS_SET

\* What dbAdd stores: the key has the version the client sent.
Fresh(set, ver) == [type |-> REDIS_SET, val |-> set, ver |-> ver, due |-> NoTTL]

\* Mutant: a set that lost its last member stays.
MovedOutKeeping(from, e) ==
    [Holding EXCEPT ![from].val = setTypeRemove(@, e)]

\* The keys once e has left a set; with its last member the set goes.
MovedOut(from, e) ==
    LET less == setTypeRemove(Holding[from].val, e)
    IN  [Holding EXCEPT ![from] = IF setTypeSize(less) = 0 THEN Absent
                                  ELSE [@ EXCEPT !.val = less]]

\* No version is checked or changed, no deadline touched, and the limit on
\* the number of members not looked at.
smoveCommand(from, to, e, ver) ==
    LET dst == IF Holding[to] = Absent THEN Fresh(setTypeCreate(e), ver) ELSE Holding[to]
        arg == <<from, to, e>>
        Says(rc) == Refuse("SMOVE", arg, rc)
    IN  \/ Holding[from] = Absent /\ Says("CZERO")
        \/ /\ Holding[from] # Absent
           /\ ~HoldsSet(from) \/ (Holding[to] # Absent /\ ~HoldsSet(to))
           /\ Says("WRONG_TYPE")
        \/ /\ HoldsSet(from) /\ (Holding[to] = Absent \/ HoldsSet(to))
           /\ \/ from = to /\ Says("CONE")
              \/ /\ from # to /\ ~setTypeIsMember(Holding[from].val, e)
                 /\ Says("CZERO")
              \/ /\ from # to /\ setTypeIsMember(Holding[from].val, e)
                 /\ Become([MovedOut(from, e) EXCEPT
                              ![to] = [dst EXCEPT !.val = setTypeAdd(@, e)]])
                 /\ AnswerForBoth("SMOVE", arg, "CONE", 0)

\* The members of the smallest set that all the others have.
Common(names) ==
    LET smallest == CHOOSE n \in ToSet(names) : \A m \in ToSet(names) :
                        setTypeSize(Holding[n].val) <= setTypeSize(Holding[m].val)
    IN  {e \in MembersOf(Holding[smallest].val) : \A n \in ToSet(names) \ {smallest} :
            setTypeIsMember(Holding[n].val, e)}

\* The first of the keys that holds no set, NULL (0) if all of them do.
FirstWithout(names) == SelectInSeq(names, LAMBDA n : ~HoldsSet(n))
OutcomeWithout(names) ==
    IF Holding[names[FirstWithout(names)]] = Absent THEN "NOT_EXIST" ELSE "WRONG_TYPE"

\* SINTER, and SMEMBERS with one key.
sinterCommand(names) ==
    \/ /\ FirstWithout(names) # 0
       /\ Refuse("SINTER", names, OutcomeWithout(names))
    \/ /\ FirstWithout(names) = 0
       /\ Reply("SINTER", names, "OK", Common(names))

\* A new set with all of the members, added one by one.
Stored(members) ==
    LET first[n \in 0 .. Len(members)] ==
            IF n = 0 THEN createIntsetObject ELSE setTypeAdd(first[n - 1], members[n])
    IN  first[Len(members)]

\* A missing key makes for an empty intersection, which deletes dst.
sinterstoreCommand(dst, names, ver) ==
    LET result == Stored(SetToSeq(Common(names)))
        arg == <<dst, names>>
        Says(rc, val) == AnswerForBoth("SINTERSTORE", arg, rc, val)
    IN  \/ /\ FirstWithout(names) # 0 /\ OutcomeWithout(names) = "WRONG_TYPE"
           /\ Refuse("SINTERSTORE", arg, "WRONG_TYPE")
        \/ /\ \/ FirstWithout(names) # 0 /\ OutcomeWithout(names) = "NOT_EXIST"
              \/ FirstWithout(names) = 0 /\ Common(names) = {}
           /\ Become([Holding EXCEPT ![dst] = Absent])
           /\ Says("CZERO", 0)
        \/ /\ FirstWithout(names) = 0 /\ Common(names) # {}
           /\ Become([Holding EXCEPT ![dst] = Fresh(result, ver)])
           /\ Says("OK", setTypeSize(result))

-----------------------------------------------------------------------------

\* What becomes of the other key meanwhile.
OtherGoes == other # Absent /\ other' = Absent /\ reply' = NoReply /\ UNCHANGED key
OtherStored ==
    /\ other = Absent
    /\ other' = [type |-> REDIS_STRING, val |-> 0, ver |-> 0, due |-> NoTTL]
    /\ reply' = NoReply /\ UNCHANGED key

SetCommand ==
    \/ \E r \in Requests :
          \/ \E e \in SetMembers : saddCommand(e, r) \/ sremCommand(e, r)
          \/ spopCommand(r)
    \/ \E e \in SetMembers : sismemberCommand(e)
    \/ scardCommand
    \/ \E ver \in {r.ver : r \in Requests} :
          \/ \E from, to \in {"key", "other"}, e \in SetMembers : smoveCommand(from, to, e, ver)
          \/ \E dst \in {"key", "other"}, names \in Intersections :
                sinterstoreCommand(dst, names, ver)
    \/ \E names \in Intersections : sinterCommand(names)

-----------------------------------------------------------------------------
(* Properties.                                                             *)

StoredIntset(n) == HoldsSet(n) /\ IsIntset(Holding[n].val)

\* An intset that takes a wider integer is rewritten in place: afterwards
\* every integer can be read back, and they are in the order that every
\* later search, insert and delete relies on.
IntsetsWhole == \A n \in DOMAIN Holding :
    StoredIntset(n) => WholeAndInOrder(Holding[n].val.ptr)

\* An intset has few members, and no set is stored empty, whichever of SREM,
\* SPOP, SMOVE and SINTERSTORE emptied it or made it grow.
SetEncodingFits == \A n \in DOMAIN Holding :
    /\ HoldsSet(n) => setTypeSize(Holding[n].val) > 0
    /\ StoredIntset(n) => setTypeSize(Holding[n].val) <= set_max_intset_entries

=============================================================================
