------------------------------- MODULE Lists --------------------------------
(***************************************************************************)
(* The lists of t_list.c: one key that may hold a list, as a ziplist while *)
(* it is short and its strings are, and as a linked list from then on.  A  *)
(* linked list is a sequence here.  A list is [enc, ptr]; a position is a  *)
(* place in either of them, 0 for NULL and one past the end for ZIP_END.   *)
(***************************************************************************)
EXTENDS Ziplist, TypedKey

CONSTANTS
    REDIS_LIST,               \* the type of list objects
    ListValues,               \* strings and integers
    list_max_ziplist_entries,
    list_max_ziplist_value,
    list_max_size,
    LengthBound,              \* bound: length that LINSERT may reach
    PushArgs,                 \* arguments: sequences of values
    IndexArgs,                \* arguments: positions, from the end if negative
    PopCounts,                \* arguments: how many to pop
    RemoveCounts              \* arguments: how many to remove, from the end if negative

\* The two bytes for the length of a ziplist are enough.
ASSUME LengthFieldAssumption == list_max_ziplist_entries <= 65533

ASSUME ListsAssumption ==
    /\ list_max_size \in Nat \ {0}
    /\ list_max_ziplist_entries \in Nat
    /\ list_max_ziplist_value \in Nat
    /\ \A v \in ListValues : PayloadSize[v] \in Nat

ASSUME ListArgumentsAssumption ==
    /\ PushArgs \subseteq Seq(ListValues) \ {<<>>}
    /\ IndexArgs \cup PopCounts \cup RemoveCounts \subseteq Int

ZIPLIST == "ZIPLIST"
LINKEDLIST == "LINKEDLIST"

\* What a list may be.
ListEntries == [prevsize : {1, 5}, prevlen : Nat, val : ListValues]
Ziplists == [bytes : Nat, tail : Nat, len : Nat, entries : Seq(ListEntries)]
ListObjects == [enc : {ZIPLIST, LINKEDLIST}, ptr : Ziplists \cup Seq(ListValues)]

ASSUME ListMarkAssumption == Absent \notin TypedEntry({REDIS_LIST}, ListObjects)

createZiplistObject == [enc |-> ZIPLIST, ptr |-> ziplistNew]
IsZiplist(list) == list.enc = ZIPLIST

-----------------------------------------------------------------------------
(* The linked list.                                                        *)

listAddNode(l, v, where) == IF where = "HEAD" THEN <<v>> \o l ELSE Append(l, v)
listInsertNode(l, p, v) == InsertAt(l, p, v)
listDelNode(l, p) == RemoveAt(l, p)
listIndex(l, index) ==
    LET p == IF index < 0 THEN Len(l) + index + 1 ELSE index + 1
    IN  IF p \in DOMAIN l THEN p ELSE 0

-----------------------------------------------------------------------------
(* Either encoding.                                                        *)

Items(list) == IF IsZiplist(list) THEN ZiplistValues(list.ptr) ELSE list.ptr
listTypeLength(list) == IF IsZiplist(list) THEN list.ptr.len ELSE Len(list.ptr)
listTypeIndex(list, index) ==
    IF IsZiplist(list) THEN ziplistIndex(list.ptr, index) ELSE listIndex(list.ptr, index)

\* The next position of an iterator.
listTypeNext(list, p, direction) ==
    CASE IsZiplist(list) /\ direction = "TAIL" -> ziplistNext(list.ptr, p)
      [] IsZiplist(list) /\ direction = "HEAD" -> ziplistPrev(list.ptr, p)
      [] ~IsZiplist(list) /\ direction = "TAIL" -> IF p = Len(list.ptr) THEN 0 ELSE p + 1
      [] ~IsZiplist(list) /\ direction = "HEAD" -> p - 1

listTypeEqual(list, p, v) == p \in DOMAIN Items(list) /\ Items(list)[p] = v

listTypeConvert(list) == [enc |-> LINKEDLIST, ptr |-> Items(list)]

\* Mutant: the length is looked at for integers in place of strings.
ConversionForIntegers(list, v) ==
    IF IsZiplist(list) /\ v \in Integers16 /\ PayloadSize[v] > list_max_ziplist_value
    THEN listTypeConvert(list) ELSE list

\* Only strings can be too long.
listTypeTryConversion(list, v) ==
    IF IsZiplist(list) /\ v \notin Integers16 /\ PayloadSize[v] > list_max_ziplist_value
    THEN listTypeConvert(list) ELSE list

listTypePush(list, v, where) ==
    LET tried == listTypeTryConversion(list, v)
        to == IF IsZiplist(tried) /\ listTypeLength(tried) >= list_max_ziplist_entries
              THEN listTypeConvert(tried) ELSE tried
    IN  [to EXCEPT !.ptr = IF IsZiplist(to) THEN ziplistPush(@, v, where)
                           ELSE listAddNode(@, v, where)]

\* The new value takes position p.
listTypeInsert(list, p, v) ==
    [list EXCEPT !.ptr = IF IsZiplist(list) THEN __ziplistInsert(@, p, v)
                         ELSE listInsertNode(@, p, v)]
listTypeDelete(list, p) ==
    [list EXCEPT !.ptr = IF IsZiplist(list) THEN ziplistDelete(@, p)
                         ELSE listDelNode(@, p)]

\* Where an iterator is after the entry at p is deleted.
AfterDelete(list, p, direction) ==
    IF IsZiplist(list) /\ direction = "TAIL" THEN p
    ELSE IF IsZiplist(list) THEN ziplistPrev(list.ptr, p)
    ELSE IF direction = "TAIL" THEN IF p > Len(list.ptr) THEN 0 ELSE p
    ELSE p - 1

\* An insert into a ziplist that the process survives (module Ziplist).
Survives(list, p, v) == IsZiplist(list) => InsertStaysInside(list.ptr, p, v)

\* A list without values goes with its key.
Rest(list, r) ==
    IF listTypeLength(list) = 0 THEN Absent ELSE Written(REDIS_LIST, list, r)

-----------------------------------------------------------------------------
(* Pushes.                                                                 *)

\* How many of n values still go in.  LINSERT may have passed the limit.
Admitted(list, n) == Min({n, Max({list_max_size - listTypeLength(list), 0})})

PushAll(list, vs, where) ==
    LET after[n \in 0 .. Len(vs)] ==
            IF n = 0 THEN list ELSE listTypePush(after[n - 1], vs[n], where)
    IN  after[Len(vs)]

\* LPUSH and RPUSH: the values that still go in are kept when others do not.
pushnGenericCommand(where, vs, r) ==
    LET old == IF key = Absent THEN createZiplistObject ELSE key.val
        n == Admitted(old, Len(vs))
        new == PushAll(old, SubSeq(vs, 1, n), where)
        arg == <<where, vs>>
    IN  \/ ~HasType(REDIS_LIST) /\ Refuse("PUSH", arg, "WRONG_TYPE")
        \/ HasType(REDIS_LIST) /\ ~VersionOK(r) /\ Refuse("PUSH", arg, "VERSION_ERROR")
        \/ /\ HasType(REDIS_LIST) /\ VersionOK(r)
           /\ IF n = 0 THEN UNCHANGED key ELSE key' = Written(REDIS_LIST, new, r)
           /\ Answer("PUSH", arg, IF n < Len(vs) THEN "LEN_LIMITED" ELSE "OK",
                     <<n, listTypeLength(new)>>)

\* LPUSHX and RPUSHX: the first value goes in once for every value.
Pushx(where, vs, r) ==
    LET n == Admitted(key.val, Len(vs))
        new == PushAll(key.val, [i \in 1 .. n |-> vs[1]], where)
        arg == <<where, vs>>
    IN  \/ RefuseWrite("PUSHX", arg, REDIS_LIST, r)
        \/ /\ Writable(REDIS_LIST, r)
           /\ key' = Written(REDIS_LIST, new, r)
           /\ Answer("PUSHX", arg, IF n < Len(vs) THEN "LEN_LIMITED" ELSE "OK",
                     <<n, listTypeLength(new)>>)

\* LINSERT: the list is converted for v before it is known whether v goes in.
\* No limit on the length of the list is looked at.
Linsert(where, pivot, v, r) ==
    LET list == listTypeTryConversion(key.val, v)
        found == SelectInSeq(Items(list), LAMBDA w : w = pivot)
        p == IF where = "before" THEN found ELSE found + 1
        new == listTypeInsert(list, p, v)
        arg == <<where, pivot, v>>
    IN  \/ RefuseWrite("LINSERT", arg, REDIS_LIST, r)
        \/ /\ Writable(REDIS_LIST, r) /\ found = 0
           /\ key' = [key EXCEPT !.val = list]
           /\ Answer("LINSERT", arg, "CNEGO", 0)
        \/ /\ Writable(REDIS_LIST, r) /\ found # 0 /\ Survives(list, p, v)
           /\ listTypeLength(list) < LengthBound
           /\ key' = Written(REDIS_LIST,
                             IF IsZiplist(new) /\ listTypeLength(new) > list_max_ziplist_entries
                             THEN listTypeConvert(new) ELSE new, r)
           /\ Answer("LINSERT", arg, "OK", <<1, listTypeLength(new)>>)

\* Neither before nor after: refused before the key is touched.
LinsertMalformed == Refuse("LINSERT", <<>>, "SYNTAX_ERROR")

\* Takes the value at p away and puts v there.
Replaced(list, p, v) ==
    IF IsZiplist(list) THEN listTypeInsert(listTypeDelete(list, p), p, v)
    ELSE [list EXCEPT !.ptr[p] = v]

\* LSET leaves the deadline alone.
Lset(index, v, r) ==
    LET list == listTypeTryConversion(key.val, v)
        p == listTypeIndex(list, index)
        arg == <<index, v>>
    IN  \/ RefuseWrite("LSET", arg, REDIS_LIST, r)
        \/ /\ Writable(REDIS_LIST, r) /\ p = 0
           /\ key' = [key EXCEPT !.val = list]
           /\ Answer("LSET", arg, "OUT_OF_RANGE", 0)
        \/ /\ Writable(REDIS_LIST, r) /\ p # 0
           /\ IsZiplist(list) => Survives(listTypeDelete(list, p), p, v)
           /\ key' = [Written(REDIS_LIST, Replaced(list, p, v), r) EXCEPT !.due = key.due]
           /\ Answer("LSET", arg, "OK", 0)

-----------------------------------------------------------------------------
(* Pops and removals.                                                      *)

\* One turn of the loop of a pop: s holds the list and the values popped.
PopTurn(s, where) ==
    LET p == listTypeIndex(s.list, IF where = "HEAD" THEN 0 ELSE -1)
    IN  IF p = 0 THEN s
        ELSE [list |-> listTypeDelete(s.list, p), out |-> Append(s.out, Items(s.list)[p])]

\* LPOP and RPOP of several values.
popnGenericCommand(where, count, r) ==
    LET after[n \in Nat] == IF n = 0 THEN [list |-> key.val, out |-> <<>>]
                            ELSE PopTurn(after[n - 1], where)
        popped == after[count]
        arg == <<where, count>>
    IN  \/ RefuseRead("POP", arg, REDIS_LIST)
        \/ Readable(REDIS_LIST) /\ count <= 0 /\ Refuse("POP", arg, "OK_BUT_CZERO")
        \/ /\ Readable(REDIS_LIST) /\ count > 0 /\ ~VersionOK(r)
           /\ Refuse("POP", arg, "VERSION_ERROR")
        \/ /\ Writable(REDIS_LIST, r) /\ count > 0
           /\ key' = Rest(popped.list, r)
           /\ Answer("POP", arg, "OK", popped.out)

\* The positions start to end of a list of llen values, counted from 0.
Start(start, llen) == Max({0, IF start < 0 THEN llen + start ELSE start})
Finish(end, llen) == Min({llen - 1, IF end < 0 THEN llen + end ELSE end})
NoneBetween(start, end, llen) ==
    Start(start, llen) > Finish(end, llen) \/ Start(start, llen) >= llen

\* Mutant: what goes at the end is counted from the head.
TrimmedFromHead(list, ltrim, rtrim) ==
    [list EXCEPT !.ptr =
        IF IsZiplist(list)
        THEN ziplistDeleteRange(ziplistDeleteRange(@, 0, ltrim), rtrim, rtrim)
        ELSE SubSeq(@, ltrim + 1, Len(@) - rtrim)]

\* The list without its first ltrim and its last rtrim values.
Trimmed(list, ltrim, rtrim) ==
    [list EXCEPT !.ptr =
        IF IsZiplist(list)
        THEN ziplistDeleteRange(ziplistDeleteRange(@, 0, ltrim), -rtrim, rtrim)
        ELSE SubSeq(@, ltrim + 1, Len(@) - rtrim)]

Ltrim(start, end, r) ==
    LET llen == listTypeLength(key.val)
        none == NoneBetween(start, end, llen)
        ltrim == IF none THEN llen ELSE Start(start, llen)
        rtrim == IF none THEN 0 ELSE llen - Finish(end, llen) - 1
    IN  \/ RefuseWrite("LTRIM", <<start, end>>, REDIS_LIST, r)
        \/ /\ Writable(REDIS_LIST, r)
           /\ key' = Rest(Trimmed(key.val, ltrim, rtrim), r)
           /\ Answer("LTRIM", <<start, end>>, "OK", 0)

\* One turn of the loop of LREM: s holds the list, the position and how many
\* values are gone.
RemoveTurn(s, v, toremove, direction) ==
    LET less == listTypeDelete(s.list, s.p)
    IN  IF s.p = 0 \/ (toremove # 0 /\ s.removed = toremove) THEN s
        ELSE IF listTypeEqual(s.list, s.p, v)
        THEN [list |-> less, p |-> AfterDelete(less, s.p, direction),
              removed |-> s.removed + 1]
        ELSE [s EXCEPT !.p = listTypeNext(s.list, s.p, direction)]

Lrem(count, v, r) ==
    LET toremove == IF count < 0 THEN -count ELSE count
        direction == IF count < 0 THEN "HEAD" ELSE "TAIL"
        first == listTypeIndex(key.val, IF count < 0 THEN -1 ELSE 0)
        after[n \in Nat] == IF n = 0 THEN [list |-> key.val, p |-> first, removed |-> 0]
                            ELSE RemoveTurn(after[n - 1], v, toremove, direction)
        done == after[Len(Items(key.val))]
    IN  \/ RefuseWrite("LREM", <<count, v>>, REDIS_LIST, r)
        \/ /\ Writable(REDIS_LIST, r)
           /\ key' = Rest(done.list, r)
           /\ Answer("LREM", <<count, v>>, "OK", done.removed)

-----------------------------------------------------------------------------
(* Queries.                                                                *)

Llen ==
    \/ RefuseRead("LLEN", <<>>, REDIS_LIST)
    \/ Readable(REDIS_LIST) /\ Reply("LLEN", <<>>, "OK", listTypeLength(key.val))

Lindex(index) ==
    LET p == listTypeIndex(key.val, index)
    IN  \/ RefuseRead("LINDEX", index, REDIS_LIST)
        \/ Readable(REDIS_LIST) /\ p = 0 /\ Refuse("LINDEX", index, "OUT_OF_RANGE")
        \/ Readable(REDIS_LIST) /\ p # 0 /\ Reply("LINDEX", index, "OK", Items(key.val)[p])

Lrange(start, end) ==
    LET llen == listTypeLength(key.val)
        none == NoneBetween(start, end, llen)
        p == listTypeIndex(key.val, Start(start, llen))
    IN  \/ RefuseRead("LRANGE", <<start, end>>, REDIS_LIST)
        \/ /\ Readable(REDIS_LIST) /\ none
           /\ Refuse("LRANGE", <<start, end>>, "OUT_OF_RANGE")
        \/ /\ Readable(REDIS_LIST) /\ ~none
           /\ Reply("LRANGE", <<start, end>>, "OK",
                    SubSeq(Items(key.val), p, p + Finish(end, llen) - Start(start, llen)))

-----------------------------------------------------------------------------

ListCommand ==
    \/ \E r \in Requests :
          \/ \E where \in {"HEAD", "TAIL"} :
                \/ \E vs \in PushArgs : pushnGenericCommand(where, vs, r) \/ Pushx(where, vs, r)
                \/ \E count \in PopCounts : popnGenericCommand(where, count, r)
          \/ \E where \in {"before", "after"}, pivot, v \in ListValues :
                Linsert(where, pivot, v, r)
          \/ \E index \in IndexArgs, v \in ListValues : Lset(index, v, r)
          \/ \E start, end \in IndexArgs : Ltrim(start, end, r)
          \/ \E count \in RemoveCounts, v \in ListValues : Lrem(count, v, r)
    \/ LinsertMalformed
    \/ Llen
    \/ \E index \in IndexArgs : Lindex(index)
    \/ \E start, end \in IndexArgs : Lrange(start, end)

-----------------------------------------------------------------------------
(* Properties.                                                             *)

IsList == key # Absent /\ key.type = REDIS_LIST
IsStoredZiplist == IsList /\ IsZiplist(key.val)

\* Pushes, pops, trims and removals from either end leave every entry with
\* the length of the one before it, whatever fields the cascade made grow
\* and the deletes left large: the walks from the tail step by these lengths.
PrevLensHold == IsStoredZiplist => PrevLensTrue(key.val.ptr)

\* The header keeps up with every growing field: the tail offset, where the
\* pops and walks from the end start, the size of the block and the length.
HeaderHolds == IsStoredZiplist => HeaderTrue(key.val.ptr)

\* A ziplist is short and its strings are, and no list is stored empty.
EncodingFits ==
    /\ IsList => Items(key.val) # <<>>
    /\ IsStoredZiplist =>
          /\ Len(Items(key.val)) <= list_max_ziplist_entries
          /\ \A p \in DOMAIN Items(key.val) :
                Items(key.val)[p] \in Integers16
                \/ PayloadSize[Items(key.val)[p]] <= list_max_ziplist_value

\* "When the insert position is not equal to the tail, we need to make sure
\* that the next entry can hold this entry's length in its prevlen field."
\* (ziplist.c:522): an insert before any entry copies only what is behind it.
InsertsStayInside ==
    IsStoredZiplist =>
        \A p \in 1 .. Len(Items(key.val)), v \in ListValues :
            InsertStaysInside(key.val.ptr, p, v)

=============================================================================
