---------------------------- MODULE Lists_proofs ----------------------------
(***************************************************************************)
(* What the list of Containers promises, for every set of values, all      *)
(* sizes of strings, every limit and every argument of the commands.       *)
(*                                                                         *)
(* LInv says that what the key holds under the type of lists is a          *)
(* well-formed list with values.  From the lemmas of Ziplists_proofs on    *)
(* such lists, each command keeps it, and answers and changes the list as  *)
(* ValueList says.  With IInv and HInv of SetsAndHashes_proofs it gives    *)
(* the types of both keys.                                                 *)
(***************************************************************************)
EXTENDS Ziplists_proofs, SetsAndHashes_proofs

-----------------------------------------------------------------------------
(* The key.                                                                *)

\* What the key may hold.
ListEntryOK(e) == e # Absent =>
    /\ e = [type |-> e.type, val |-> e.val, ver |-> e.ver, due |-> e.due]
    /\ e.type = REDIS_LIST =>
          /\ e.ver \in 0 .. VersionMax /\ e.due \in Nat \cup {NoTTL}
          /\ ListOK(e.val) /\ Few(e.val) /\ Items(e.val) # <<>>

LInv == ListEntryOK(key)

\* An entry that holds a list.
LEMMA ListEntryMade ==
    ASSUME NEW list, ListOK(list), Few(list), Len(Items(list)) # 0,
           NEW ver \in 0 .. VersionMax, NEW due \in Nat \cup {NoTTL}
    PROVE  ListEntryOK([type |-> REDIS_LIST, val |-> list, ver |-> ver, due |-> due])
<1> DEFINE e == [type |-> REDIS_LIST, val |-> list, ver |-> ver, due |-> due]
<1>1. Items(list) # <<>>
  BY ListIs, EmptyIs
<1>2. e.type = REDIS_LIST /\ e.val = list /\ e.ver = ver /\ e.due = due
      /\ e = [type |-> e.type, val |-> e.val, ver |-> e.ver, due |-> e.due]
  OBVIOUS
<1> HIDE DEF e
<1>3. ListEntryOK(e)
  BY <1>1, <1>2 DEF ListEntryOK
<1> QED BY <1>3 DEF e

\* What the write commands store, with the deadline they set or the old one.
LEMMA ListWritten ==
    ASSUME LInv, HasType(REDIS_LIST), NEW r \in Requests,
           NEW list, ListOK(list), Few(list), Len(Items(list)) # 0
    PROVE  /\ ListEntryOK(Written(REDIS_LIST, list, r))
           /\ key # Absent => ListEntryOK([Written(REDIS_LIST, list, r) EXCEPT !.due = key.due])
<1> DEFINE ver == WriteVersion(r)
           due == ExpireOrNot(r)
           old == key.due
<1>1. r \in [ver : 0 .. VersionMax, care : BOOLEAN, et : Int] /\ VersionMax \in Nat
  BY RequestAssumption
<1>2. key # Absent => key.ver \in 0 .. VersionMax /\ old \in Nat \cup {NoTTL}
  BY DEF LInv, ListEntryOK, HasType
<1>3. ver \in 0 .. VersionMax
  BY <1>1, <1>2 DEF WriteVersion
<1>4. due \in Nat \cup {NoTTL}
  BY <1>1, <1>2 DEF ExpireOrNot
<1>5. Written(REDIS_LIST, list, r) = [type |-> REDIS_LIST, val |-> list, ver |-> ver, due |-> due]
  BY DEF Written
<1> HIDE DEF ver, due, old
<1>6. [Written(REDIS_LIST, list, r) EXCEPT !.due = old]
      = [type |-> REDIS_LIST, val |-> list, ver |-> ver, due |-> old]
  BY <1>5
<1> QED BY <1>2, <1>3, <1>4, <1>5, <1>6, ListEntryMade DEF old

\* A stored value replaced.
LEMMA ListKept ==
    ASSUME LInv, Readable(REDIS_LIST), NEW list, ListOK(list), Few(list), Len(Items(list)) # 0
    PROVE  ListEntryOK([key EXCEPT !.val = list])
<1> DEFINE ver == key.ver
           due == key.due
           v == key.val
<1>1. key = [type |-> REDIS_LIST, val |-> v, ver |-> ver, due |-> due]
      /\ ver \in 0 .. VersionMax /\ due \in Nat \cup {NoTTL}
  BY DEF LInv, ListEntryOK, Readable, HasType
<1> HIDE DEF ver, due, v
<1>2. [key EXCEPT !.val = list] = [type |-> REDIS_LIST, val |-> list, ver |-> ver, due |-> due]
  BY <1>1
<1> QED BY <1>1, <1>2, ListEntryMade

\* What is left, if anything.
LEMMA ListRest ==
    ASSUME LInv, HasType(REDIS_LIST), NEW r \in Requests,
           NEW list, ListOK(list), Few(list)
    PROVE  ListEntryOK(Rest(list, r))
<1>1. listTypeLength(list) = Len(Items(list))
  BY ListIs
<1>2. ListEntryOK(Absent)
  BY DEF ListEntryOK
<1> QED BY <1>1, <1>2, ListWritten DEF Rest

\* A key that can be read as a list.
LEMMA ListReadable ==
    ASSUME LInv, Readable(REDIS_LIST)
    PROVE  /\ HasType(REDIS_LIST) /\ ListOK(key.val) /\ Few(key.val)
           /\ Len(Items(key.val)) \in Nat /\ Len(Items(key.val)) # 0
           /\ Items(key.val) \in Seq(ListValues)
<1>1. HasType(REDIS_LIST) /\ ListOK(key.val) /\ Few(key.val) /\ Items(key.val) # <<>>
  BY DEF LInv, ListEntryOK, Readable, HasType
<1> QED BY <1>1, ListIs, EmptyIs

\* What a push works on.
LEMMA ListOld ==
    ASSUME LInv, HasType(REDIS_LIST)
    PROVE  LET old == IF key = Absent THEN createZiplistObject ELSE key.val
           IN  ListOK(old) /\ Few(old) /\ Len(Items(old)) \in Nat
<1>1. CASE key = Absent
  <2>1. Len(<<>>) = 0
    OBVIOUS
  <2> QED BY <1>1, <2>1, NewList
<1>2. CASE key # Absent
  BY <1>2, ListReadable DEF Readable
<1> QED BY <1>1, <1>2

\* A command that does not change the key keeps the invariant.
LEMMA ListSame ==
    ASSUME LInv, NEW cmd, NEW arg
    PROVE  /\ key' = key => LInv'
           /\ ListEntryOK(key') => LInv'
           /\ \A rc, val : Reply(cmd, arg, rc, val) => LInv'
           /\ \A rc : Refuse(cmd, arg, rc) => LInv'
           /\ \A type : RefuseRead(cmd, arg, type) => LInv'
           /\ \A type, r : RefuseWrite(cmd, arg, type, r) => LInv'
BY DEF LInv, Reply, Refuse, RefuseRead, RefuseWrite

-----------------------------------------------------------------------------
(* The commands of lists.                                                  *)

\* The arguments of the commands.
LEMMA ListArguments ==
    /\ \A vs \in PushArgs : vs \in Seq(ListValues) /\ Len(vs) \in Nat /\ Len(vs) # 0
    /\ \A index \in IndexArgs : index \in Int
    /\ \A count \in PopCounts \cup RemoveCounts : count \in Int
<1>1. PushArgs \subseteq Seq(ListValues) \ {<<>>}
  BY ListArgumentsAssumption
<1>2. IndexArgs \cup PopCounts \cup RemoveCounts \subseteq Int
  BY ListArgumentsAssumption
<1>3. ASSUME NEW vs \in PushArgs
      PROVE  vs \in Seq(ListValues) /\ Len(vs) \in Nat /\ Len(vs) # 0
  <2>1. vs \in Seq(ListValues) /\ vs # <<>>
    BY <1>1
  <2> QED BY <2>1, EmptyIs
<1> QED BY <1>2, <1>3

LEMMA PushKeepsList ==
    ASSUME LInv, NEW where, NEW vs \in PushArgs, NEW r \in Requests,
           pushnGenericCommand(where, vs, r) \/ Pushx(where, vs, r)
    PROVE  LInv'
<1>1. vs \in Seq(ListValues) /\ Len(vs) \in Nat /\ Len(vs) # 0
  BY ListArguments
<1>2. CASE pushnGenericCommand(where, vs, r)
  <2> DEFINE old == IF key = Absent THEN createZiplistObject ELSE key.val
             n == Admitted(old, Len(vs))
             some == SubSeq(vs, 1, n)
             new == PushAll(old, some, where)
  <2>1. \/ \E rc : Refuse("PUSH", <<where, vs>>, rc)
        \/ HasType(REDIS_LIST) /\ n = 0 /\ key' = key
        \/ HasType(REDIS_LIST) /\ n # 0 /\ key' = Written(REDIS_LIST, new, r)
    BY <1>2 DEF pushnGenericCommand
  <2>2. CASE HasType(REDIS_LIST) /\ n # 0 /\ key' = Written(REDIS_LIST, new, r)
    <3>1. ListOK(old) /\ Few(old) /\ Len(Items(old)) \in Nat
      BY <2>2, ListOld
    <3> HIDE DEF old
    <3>2. n \in 0 .. Len(vs)
      BY <1>1, <3>1, AdmittedIs
    <3> HIDE DEF n
    <3>3. some \in Seq(ListValues) /\ Len(some) = n
      BY <1>1, <3>2
    <3> HIDE DEF some
    <3>4. ListOK(new) /\ Few(new) /\ Len(Items(new)) = Len(Items(old)) + n
      BY <3>1, <3>3, AllPushed
    <3>5. Len(Items(new)) # 0
      BY <2>2, <3>1, <3>2, <3>4
    <3> HIDE DEF new
    <3>6. ListEntryOK(key')
      BY <2>2, <3>4, <3>5, ListWritten
    <3> QED BY <3>6 DEF LInv
  <2> HIDE DEF old, n, some, new
  <2> QED BY <2>1, <2>2, ListSame
<1>3. CASE Pushx(where, vs, r)
  <2> DEFINE old == key.val
             n == Admitted(old, Len(vs))
             some == [i \in 1 .. n |-> vs[1]]
             new == PushAll(old, some, where)
  <2>1. \/ RefuseWrite("PUSHX", <<where, vs>>, REDIS_LIST, r)
        \/ Writable(REDIS_LIST, r) /\ key' = Written(REDIS_LIST, new, r)
    BY <1>3 DEF Pushx
  <2>2. CASE Writable(REDIS_LIST, r) /\ key' = Written(REDIS_LIST, new, r)
    <3>1. /\ HasType(REDIS_LIST) /\ ListOK(old) /\ Few(old)
          /\ Len(Items(old)) \in Nat /\ Len(Items(old)) # 0
      BY <2>2, ListReadable DEF Writable
    <3> HIDE DEF old
    <3>2. n \in 0 .. Len(vs)
      BY <1>1, <3>1, AdmittedIs
    <3> HIDE DEF n
    <3>3. some \in Seq(ListValues) /\ Len(some) = n
      <4>1. vs[1] \in ListValues /\ n \in Nat
        BY <1>1, <3>2
      <4> QED BY <4>1
    <3> HIDE DEF some
    <3>4. ListOK(new) /\ Few(new) /\ Len(Items(new)) = Len(Items(old)) + n
      BY <3>1, <3>3, AllPushed
    <3>5. Len(Items(new)) # 0
      BY <3>1, <3>2, <3>4
    <3> HIDE DEF new
    <3>6. ListEntryOK(key')
      BY <2>2, <3>1, <3>4, <3>5, ListWritten
    <3> QED BY <3>6 DEF LInv
  <2> HIDE DEF old, n, some, new
  <2> QED BY <2>1, <2>2, ListSame
<1> QED BY <1>2, <1>3

LEMMA LinsertKeepsList ==
    ASSUME LInv, NEW where, NEW pivot \in ListValues, NEW v \in ListValues, NEW r \in Requests,
           Linsert(where, pivot, v, r)
    PROVE  LInv'
<1> DEFINE list == listTypeTryConversion(key.val, v)
           s == Items(list)
           found == SelectInSeq(s, LAMBDA w : w = pivot)
           p == IF where = "before" THEN found ELSE found + 1
           new == listTypeInsert(list, p, v)
           kept == IF IsZiplist(new) /\ listTypeLength(new) > list_max_ziplist_entries
                   THEN listTypeConvert(new) ELSE new
<1>1. \/ RefuseWrite("LINSERT", <<where, pivot, v>>, REDIS_LIST, r)
      \/ Writable(REDIS_LIST, r) /\ key' = [key EXCEPT !.val = list]
      \/ Writable(REDIS_LIST, r) /\ found # 0 /\ key' = Written(REDIS_LIST, kept, r)
  BY DEF Linsert
<1>2. ASSUME Writable(REDIS_LIST, r)
      PROVE  /\ HasType(REDIS_LIST) /\ Readable(REDIS_LIST) /\ ListOK(list) /\ Few(list)
             /\ s \in Seq(ListValues) /\ Len(s) \in Nat /\ Len(s) # 0
             /\ IsZiplist(list) => v \in ShortValues
  BY <1>2, ListReadable, ListTried DEF Writable
<1> HIDE DEF list
<1>3. CASE Writable(REDIS_LIST, r) /\ key' = [key EXCEPT !.val = list]
  <2>1. ListEntryOK(key')
    BY <1>2, <1>3, ListKept
  <2> QED BY <2>1 DEF LInv
<1>4. CASE Writable(REDIS_LIST, r) /\ found # 0 /\ key' = Written(REDIS_LIST, kept, r)
  <2>1. found \in 1 .. Len(s)
    <3> DEFINE I == {i \in 1 .. Len(s) : s[i] = pivot}
    <3>1. found = IF I # {} THEN Min(I) ELSE 0
      BY DEF SelectInSeq
    <3>2. I # {}
      BY <1>4, <3>1
    <3>3. Min(I) \in I
      <4>1. I \in SUBSET Nat
        OBVIOUS
      <4> HIDE DEF I
      <4>2. \E i \in I : \A j \in I : i <= j
        BY <3>2, <4>1, LeastNat
      <4> QED BY <4>2 DEF Min
    <3> QED BY <3>1, <3>2, <3>3
  <2> HIDE DEF found
  <2>2. p \in 1 .. Len(s) + 1
    BY <1>2, <1>4, <2>1
  <2> HIDE DEF p
  <2>3. ListOK(new) /\ Len(Items(new)) = Len(s) + 1
    BY <1>2, <1>4, <2>2, ListInserted
  <2> HIDE DEF new
  <2>4. ListOK(kept) /\ Few(kept) /\ Len(Items(kept)) = Len(s) + 1
    <3>1. CASE IsZiplist(new) /\ listTypeLength(new) > list_max_ziplist_entries
      BY <2>3, <3>1, ListConverted
    <3>2. CASE ~(IsZiplist(new) /\ listTypeLength(new) > list_max_ziplist_entries)
      <4>1. listTypeLength(new) = Len(Items(new)) /\ Len(Items(new)) \in Nat
        BY <2>3, ListIs
      <4> QED BY <2>3, <3>2, <4>1, ListConstants DEF Few
    <3> QED BY <3>1, <3>2
  <2>5. Len(Items(kept)) # 0
    BY <1>2, <1>4, <2>4
  <2> HIDE DEF kept
  <2>6. ListEntryOK(key')
    BY <1>2, <1>4, <2>4, <2>5, ListWritten
  <2> QED BY <2>6 DEF LInv
<1> HIDE DEF found, kept
<1> QED BY <1>1, <1>3, <1>4, ListSame

LEMMA LsetKeepsList ==
    ASSUME LInv, NEW index \in IndexArgs, NEW v \in ListValues, NEW r \in Requests,
           Lset(index, v, r)
    PROVE  LInv'
<1> DEFINE list == listTypeTryConversion(key.val, v)
           s == Items(list)
           p == listTypeIndex(list, index)
           new == Replaced(list, p, v)
<1>1. \/ RefuseWrite("LSET", <<index, v>>, REDIS_LIST, r)
      \/ Writable(REDIS_LIST, r) /\ key' = [key EXCEPT !.val = list]
      \/ /\ Writable(REDIS_LIST, r) /\ p # 0
         /\ key' = [Written(REDIS_LIST, new, r) EXCEPT !.due = key.due]
  BY DEF Lset
<1>2. ASSUME Writable(REDIS_LIST, r)
      PROVE  /\ HasType(REDIS_LIST) /\ Readable(REDIS_LIST) /\ ListOK(list) /\ Few(list)
             /\ key # Absent
             /\ s \in Seq(ListValues) /\ Len(s) \in Nat /\ Len(s) # 0
             /\ IsZiplist(list) => v \in ShortValues
  BY <1>2, ListReadable, ListTried DEF Writable, Readable
<1> HIDE DEF list
<1>3. CASE Writable(REDIS_LIST, r) /\ key' = [key EXCEPT !.val = list]
  <2>1. ListEntryOK(key')
    BY <1>2, <1>3, ListKept
  <2> QED BY <2>1 DEF LInv
<1>4. CASE /\ Writable(REDIS_LIST, r) /\ p # 0
           /\ key' = [Written(REDIS_LIST, new, r) EXCEPT !.due = key.due]
  <2>1. p \in 1 .. Len(s)
    <3>1. index \in Int /\ ListOK(list)
      BY <1>2, <1>4, ListArguments
    <3> QED BY <1>4, <3>1, FoundIs
  <2> HIDE DEF p
  <2>2. ListOK(new) /\ Few(new) /\ Len(Items(new)) = Len(s)
    BY <1>2, <1>4, <2>1, ListReplaced
  <2> HIDE DEF new
  <2>3. ListEntryOK(key')
    BY <1>2, <1>4, <2>2, ListWritten
  <2> QED BY <2>3 DEF LInv
<1> HIDE DEF p, new
<1> QED BY <1>1, <1>3, <1>4, ListSame

LEMMA PopKeepsList ==
    ASSUME LInv, NEW where, NEW count \in PopCounts, NEW r \in Requests,
           popnGenericCommand(where, count, r)
    PROVE  LInv'
<1> DEFINE popped == Pops(key.val, where)[count]
<1>1. \/ RefuseRead("POP", <<where, count>>, REDIS_LIST)
      \/ \E rc : Refuse("POP", <<where, count>>, rc)
      \/ /\ Writable(REDIS_LIST, r) /\ count > 0
         /\ key' = Rest(popped.list, r)
  BY DEF popnGenericCommand, Pops
<1>2. CASE Writable(REDIS_LIST, r) /\ count > 0 /\ key' = Rest(popped.list, r)
  <2>1. HasType(REDIS_LIST) /\ ListOK(key.val) /\ Few(key.val)
    BY <1>2, ListReadable DEF Writable
  <2>2. count \in Nat
    BY <1>2, ListArguments
  <2>3. popped \in Popping
    BY <2>1, <2>2, AllPopped DEF PoppedBy
  <2> HIDE DEF popped
  <2>4. ListEntryOK(key')
    BY <1>2, <2>1, <2>3, ListRest DEF Popping
  <2> QED BY <2>4 DEF LInv
<1> HIDE DEF popped
<1> QED BY <1>1, <1>2, ListSame

LEMMA LtrimKeepsList ==
    ASSUME LInv, NEW start \in IndexArgs, NEW end \in IndexArgs, NEW r \in Requests,
           Ltrim(start, end, r)
    PROVE  LInv'
<1> DEFINE llen == listTypeLength(key.val)
           none == NoneBetween(start, end, llen)
           ltrim == IF none THEN llen ELSE Start(start, llen)
           rtrim == IF none THEN 0 ELSE llen - Finish(end, llen) - 1
           new == Trimmed(key.val, ltrim, rtrim)
<1>1. \/ RefuseWrite("LTRIM", <<start, end>>, REDIS_LIST, r)
      \/ Writable(REDIS_LIST, r) /\ key' = Rest(new, r)
  BY DEF Ltrim
<1>2. CASE Writable(REDIS_LIST, r) /\ key' = Rest(new, r)
  <2>1. HasType(REDIS_LIST) /\ ListOK(key.val) /\ Few(key.val)
    BY <1>2, ListReadable DEF Writable
  <2>2. llen \in Nat
    BY <2>1, ListIs
  <2> HIDE DEF llen, none
  <2>3. start \in Int /\ end \in Int
    BY ListArguments
  <2>4. ltrim \in Nat /\ rtrim \in Nat
    BY <2>2, <2>3, TrimsAre
  <2> HIDE DEF ltrim, rtrim
  <2>5. ListOK(new) /\ Few(new)
    BY <2>1, <2>4, ListTrimmed
  <2> HIDE DEF new
  <2>6. ListEntryOK(key')
    BY <1>2, <2>1, <2>5, ListRest
  <2> QED BY <2>6 DEF LInv
<1> HIDE DEF new
<1> QED BY <1>1, <1>2, ListSame

LEMMA LremKeepsList ==
    ASSUME LInv, NEW count \in RemoveCounts, NEW v \in ListValues, NEW r \in Requests,
           Lrem(count, v, r)
    PROVE  LInv'
<1> DEFINE toremove == IF count < 0 THEN -count ELSE count
           direction == IF count < 0 THEN "HEAD" ELSE "TAIL"
           index == IF count < 0 THEN -1 ELSE 0
           first == listTypeIndex(key.val, index)
           done == Removals(key.val, first, v, toremove, direction)[Len(Items(key.val))]
<1>1. \/ RefuseWrite("LREM", <<count, v>>, REDIS_LIST, r)
      \/ Writable(REDIS_LIST, r) /\ key' = Rest(done.list, r)
  BY DEF Lrem, Removals
<1>2. CASE Writable(REDIS_LIST, r) /\ key' = Rest(done.list, r)
  <2>1. /\ HasType(REDIS_LIST) /\ ListOK(key.val) /\ Few(key.val)
        /\ Len(Items(key.val)) \in Nat
    BY <1>2, ListReadable DEF Writable
  <2>2. toremove \in Nat
    BY ListArguments
  <2>3. direction \in {"HEAD", "TAIL"} /\ index = IF direction = "HEAD" THEN -1 ELSE 0
    OBVIOUS
  <2> HIDE DEF toremove, direction, index
  <2>4. done \in Removing
    <3>1. first = listTypeIndex(key.val, IF direction = "HEAD" THEN -1 ELSE 0)
      BY <2>3
    <3> HIDE DEF first
    <3>2. done \in RemovedBy(key.val, v, toremove, direction, Len(Items(key.val)))
      BY <2>1, <2>2, <2>3, <3>1, AllRemoved
    <3> QED BY <3>2 DEF RemovedBy
  <2> HIDE DEF done
  <2>5. ListEntryOK(key')
    BY <1>2, <2>1, <2>4, ListRest DEF Removing
  <2> QED BY <2>5 DEF LInv
<1> HIDE DEF done
<1> QED BY <1>1, <1>2, ListSame

\* Every command of lists keeps the invariant.
LEMMA ListCommandKeeps == ASSUME LInv, ListCommand PROVE LInv'
<1>1. ASSUME NEW r \in Requests, NEW where, NEW vs \in PushArgs,
             pushnGenericCommand(where, vs, r) \/ Pushx(where, vs, r)
      PROVE  LInv'
  BY <1>1, PushKeepsList
<1>2. ASSUME NEW r \in Requests, NEW where, NEW count \in PopCounts,
             popnGenericCommand(where, count, r)
      PROVE  LInv'
  BY <1>2, PopKeepsList
<1>3. ASSUME NEW r \in Requests, NEW where, NEW pivot \in ListValues, NEW v \in ListValues,
             Linsert(where, pivot, v, r)
      PROVE  LInv'
  BY <1>3, LinsertKeepsList
<1>4. ASSUME NEW r \in Requests, NEW index \in IndexArgs, NEW v \in ListValues,
             Lset(index, v, r)
      PROVE  LInv'
  BY <1>4, LsetKeepsList
<1>5. ASSUME NEW r \in Requests, NEW start \in IndexArgs, NEW end \in IndexArgs,
             Ltrim(start, end, r)
      PROVE  LInv'
  BY <1>5, LtrimKeepsList
<1>6. ASSUME NEW r \in Requests, NEW count \in RemoveCounts, NEW v \in ListValues,
             Lrem(count, v, r)
      PROVE  LInv'
  BY <1>6, LremKeepsList
<1>7. CASE LinsertMalformed
  BY <1>7, ListSame DEF LinsertMalformed
<1>8. CASE Llen
  BY <1>8, ListSame DEF Llen
<1>9. ASSUME NEW index \in IndexArgs, Lindex(index) PROVE LInv'
  BY <1>9, ListSame DEF Lindex
<1>10. ASSUME NEW start \in IndexArgs, NEW end \in IndexArgs, Lrange(start, end) PROVE LInv'
  BY <1>10, ListSame DEF Lrange
<1> QED BY <1>1, <1>2, <1>3, <1>4, <1>5, <1>6, <1>7, <1>8, <1>9, <1>10 DEF ListCommand

-----------------------------------------------------------------------------
(* The list and what it promises (ValueList).                              *)

\* An entry as the contract sees it.
HoldsList(e) == e # Absent /\ e.type = REDIS_LIST
ItemsOf(e) == IF HoldsList(e) THEN Items(e.val) ELSE <<>>

LEMMA StoredItemsIs == StoredItems = ItemsOf(key) /\ StoredItems' = ItemsOf(key')
BY DEF StoredItems, ItemsOf, IsList, HoldsList

\* The contract counts with the same operator.
LEMMA ListCount == \A S : PromisedList!Cardinality(S) = Cardinality(S)
BY DEF PromisedList!Cardinality, Cardinality

\* What the contract says of the values of a list with others put in.
LEMMA PlacedIs ==
    ASSUME NEW S, NEW s \in Seq(S), NEW vs \in Seq(S), NEW where
    PROVE  /\ Placed(s, vs, Len(vs), where)
                 = IF where = "HEAD" THEN PromisedList!Reverse(vs) \o s ELSE s \o vs
           /\ Len(Placed(s, vs, Len(vs), where)) = Len(s) + Len(vs)
<1> DEFINE m == Len(s)
           n == Len(vs)
           back == PromisedList!Reverse(vs)
<1>1. m \in Nat /\ n \in Nat /\ \A i \in 1 .. n : vs[i] \in S
  OBVIOUS
<1>2. back = [i \in 1 .. n |-> vs[n - i + 1]]
  BY DEF PromisedList!Reverse
<1> HIDE DEF m, n, back
<1>3. back \in Seq(S) /\ Len(back) = n
  <2>1. \A i \in 1 .. n : vs[n - i + 1] \in S
    BY <1>1
  <2> QED BY <1>1, <1>2, <2>1
<1>4. CASE where = "HEAD"
  <2>1. back \o s = [i \in 1 .. n + m |-> IF i <= n THEN back[i] ELSE s[i - n]]
    <3>1. back \in Seq(S) /\ s \in Seq(S) /\ Len(back) = n /\ Len(s) = m
      BY <1>3 DEF m
    <3>2. back \o s = [i \in 1 .. Len(back) + Len(s) |->
                          IF i <= Len(back) THEN back[i] ELSE s[i - Len(back)]]
      BY ONLY <3>1, ConcatIs
    <3> QED BY <3>1, <3>2
  <2>2. \A i \in 1 .. m + n : (IF i <= n THEN back[i] ELSE s[i - n])
                              = IF i <= n THEN vs[n + 1 - i] ELSE s[i - n]
    BY <1>1, <1>2
  <2>3. Placed(s, vs, n, where) = [i \in 1 .. m + n |-> IF i <= n THEN vs[n + 1 - i] ELSE s[i - n]]
    BY <1>4 DEF Placed, m
  <2>4. 1 .. m + n = 1 .. n + m /\ m + n \in Nat
    BY <1>1
  <2>5. Placed(s, vs, n, where) = back \o s
    BY <2>1, <2>2, <2>3, <2>4
  <2> QED BY <1>4, <2>3, <2>4, <2>5 DEF n, m, back
<1>5. CASE where # "HEAD"
  <2>1. s \o vs = [i \in 1 .. m + n |-> IF i <= m THEN s[i] ELSE vs[i - m]]
    BY ConcatIs DEF m, n
  <2>2. Placed(s, vs, n, where) = [i \in 1 .. m + n |-> IF i <= m THEN s[i] ELSE vs[i - m]]
    BY <1>5 DEF Placed, m
  <2>3. m + n \in Nat
    BY <1>1
  <2> QED BY <1>5, <2>1, <2>2, <2>3 DEF n, m
<1> QED BY <1>4, <1>5

\* What the contract calls a slice of the stored list.
LEMMA SliceIs ==
    ASSUME NEW s, s = StoredItems, s \in Seq(ListValues), NEW start \in Int, NEW end \in Int
    PROVE  LET n == Len(s)
               none == NoneBetween(start, end, n)
               from == Start(start, n)
               to == Finish(end, n)
               slice == PromisedList!Slice(start, end)
           IN  /\ from \in Nat /\ to \in Int /\ to < n
               /\ none => slice = <<>>
               /\ ~none => /\ from <= to
                           /\ slice = SubSeq(s, from + 1, to + 1) /\ slice # <<>>
<1> DEFINE n == Len(s)
           none == NoneBetween(start, end, n)
           from == Start(start, n)
           to == Finish(end, n)
           a == IF start < 0 THEN n + start ELSE start
           b == IF end < 0 THEN n + end ELSE end
           first == PromisedList!Max({PromisedList!Place(start), 1})
           last == PromisedList!Min({PromisedList!Place(end), n})
           slice == PromisedList!Slice(start, end)
<1>1. n \in Nat /\ a \in Int /\ b \in Int
  OBVIOUS
<1>2. slice = SubSeq(s, first, last)
  BY DEF PromisedList!Slice
<1>3. PromisedList!Place(start) = a + 1 /\ PromisedList!Place(end) = b + 1
  BY <1>1 DEF PromisedList!Place
<1>4. from = Max({0, a}) /\ to = Min({n - 1, b})
  BY DEF Start, Finish
<1>5. none <=> (from > to \/ from >= n)
  BY DEF NoneBetween
<1> HIDE DEF n, a, b, from, to, slice, none
<1>6. from = (IF a > 0 THEN a ELSE 0) /\ to = IF b < n - 1 THEN b ELSE n - 1
  BY <1>1, <1>4 DEF Max, Min
<1>7. first = IF a + 1 > 1 THEN a + 1 ELSE 1
  BY <1>1, <1>3 DEF PromisedList!Max
<1>8. last = IF b + 1 < n THEN b + 1 ELSE n
  BY <1>1, <1>3 DEF PromisedList!Min
<1> HIDE DEF first, last
<1>9. /\ from \in Nat /\ to \in Int /\ to < n
      /\ first = from + 1 /\ last = to + 1
  BY <1>1, <1>6, <1>7, <1>8
<1>10. none <=> from > to
  BY <1>1, <1>5, <1>9
<1>11. none => slice = <<>>
  <2>1. none => last < first /\ first \in Nat /\ last \in Int
    BY <1>9, <1>10
  <2> QED BY <1>2, <2>1
<1>12. ~none => /\ from <= to
                /\ slice = SubSeq(s, from + 1, to + 1) /\ slice # <<>>
  <2> SUFFICES ASSUME ~none PROVE from <= to /\ slice = SubSeq(s, from + 1, to + 1) /\ slice # <<>>
    OBVIOUS
  <2>1. from <= to /\ slice = SubSeq(s, from + 1, to + 1)
    BY <1>2, <1>9, <1>10
  <2> DEFINE k == to - from + 1
  <2>2. k \in Nat /\ k # 0 /\ from + k = to + 1 /\ from + k <= n
    BY <1>1, <1>9, <2>1
  <2> HIDE DEF k
  <2>3. Len(SubSeq(s, from + 1, from + k)) = k
    BY <1>1, <1>9, <2>2, SubSeqIs DEF n
  <2>4. Len(slice) = k
    BY <2>1, <2>2, <2>3
  <2>5. slice # <<>>
    <3> SUFFICES ASSUME slice = <<>> PROVE FALSE
      OBVIOUS
    <3>1. Len(slice) = 0
      OBVIOUS
    <3> QED BY <2>2, <2>4, <3>1
  <2> QED BY <2>1, <2>5
<1> QED BY <1>9, <1>11, <1>12 DEF n, none, from, to, slice

\* The contract's own operators.
LEMMA LimitsAre ==
    ASSUME NEW a \in Int, NEW b \in Int
    PROVE  /\ PromisedList!Min({a, b}) = IF a < b THEN a ELSE b
           /\ PromisedList!Max({a, b}) = IF a > b THEN a ELSE b
           /\ Min({a, b}) = IF a < b THEN a ELSE b
           /\ Max({a, b}) = IF a > b THEN a ELSE b
BY DEF PromisedList!Min, PromisedList!Max, Min, Max

\* A sequence the other way round.
LEMMA ReverseIs ==
    ASSUME NEW S, NEW s \in Seq(S)
    PROVE  LET r == PromisedList!Reverse(s)
           IN  /\ r = [i \in 1 .. Len(s) |-> s[Len(s) + 1 - i]]
               /\ r \in Seq(S) /\ Len(r) = Len(s)
<1> DEFINE n == Len(s)
           r == PromisedList!Reverse(s)
<1>1. n \in Nat /\ \A i \in 1 .. n : s[i] \in S
  OBVIOUS
<1>2. r = [i \in 1 .. n |-> s[n - i + 1]]
  BY DEF PromisedList!Reverse
<1> HIDE DEF n, r
<1>3. \A i \in 1 .. n : n - i + 1 = n + 1 - i /\ n + 1 - i \in 1 .. n
  BY <1>1
<1>4. r = [i \in 1 .. n |-> s[n + 1 - i]]
  BY <1>2, <1>3
<1>5. r \in Seq(S) /\ Len(r) = n
  <2>1. \A i \in 1 .. n : s[n + 1 - i] \in S
    BY <1>1, <1>3
  <2> QED BY <1>1, <1>4, <2>1
<1> QED BY <1>4, <1>5 DEF n, r

\* What the contract says of a pop.
LEMMA PopPromised ==
    ASSUME NEW S, NEW s \in Seq(S), NEW count \in Nat, NEW where
    PROVE  LET m == Popped(count, Len(s))
               order == IF where = "HEAD" THEN s ELSE PromisedList!Reverse(s)
               left == SubSeq(order, m + 1, Len(s))
           IN  /\ PromisedList!Min({count, Len(s)}) = m
               /\ SubSeq(order, 1, m) = PopsGive(s, m, where)
               /\ (IF where = "HEAD" THEN left ELSE PromisedList!Reverse(left))
                     = PopsLeave(s, m, where)
<1> DEFINE n == Len(s)
           m == Popped(count, n)
           k == n - m
           order == IF where = "HEAD" THEN s ELSE PromisedList!Reverse(s)
           left == SubSeq(order, m + 1, n)
<1>1. n \in Nat /\ m \in Nat /\ k \in Nat /\ m + k = n
  BY DEF Popped
<1>2. PromisedList!Min({count, n}) = m
  <2>1. count \in Int /\ n \in Int
    BY <1>1
  <2> HIDE DEF n
  <2> QED BY ONLY <2>1, LimitsAre DEF m, Popped
<1>3. /\ order \in Seq(S) /\ Len(order) = n
      /\ \A i \in 1 .. n : order[i] = IF where = "HEAD" THEN s[i] ELSE s[n + 1 - i]
  <2>1. LET r == PromisedList!Reverse(s)
        IN  /\ r = [i \in 1 .. Len(s) |-> s[Len(s) + 1 - i]]
            /\ r \in Seq(S) /\ Len(r) = Len(s)
    BY ReverseIs
  <2> QED BY <2>1
<1> HIDE DEF n, m, k, order
<1>4. SubSeq(order, 1, m) = PopsGive(s, m, where)
  <2>1. 0 + 1 = 1 /\ 0 + m = m /\ 0 \in Nat /\ 0 + m <= Len(order)
    BY <1>1, <1>3
  <2>2. SubSeq(order, 0 + 1, 0 + m) = [i \in 1 .. m |-> order[i + 0]]
    BY ONLY <1>1, <1>3, <2>1, SubSeqIs
  <2>3. \A i \in 1 .. m : i \in 1 .. n /\ i + 0 = i
    BY <1>1
  <2>4. SubSeq(order, 1, m) = [i \in 1 .. m |-> order[i]]
    BY <2>1, <2>2, <2>3
  <2>5. SubSeq(order, 1, m) = [i \in 1 .. m |-> IF where = "HEAD" THEN s[i] ELSE s[n + 1 - i]]
    BY <1>3, <2>3, <2>4
  <2> QED BY <2>5 DEF PopsGive, n
<1>5. left \in Seq(S) /\ Len(left) = k /\ left = [i \in 1 .. k |-> order[i + m]]
  <2>1. m + k <= Len(order)
    BY <1>1, <1>3
  <2>2. LET t == SubSeq(order, m + 1, m + k)
        IN  t = [i \in 1 .. k |-> order[i + m]] /\ t \in Seq(S) /\ Len(t) = k
    BY ONLY <1>1, <1>3, <2>1, SubSeqIs
  <2> QED BY <1>1, <2>2
<1>6. (IF where = "HEAD" THEN left ELSE PromisedList!Reverse(left)) = PopsLeave(s, m, where)
  <2>1. \A i \in 1 .. k : i + m \in 1 .. n /\ k + 1 - i \in 1 .. k /\ (k + 1 - i) + m \in 1 .. n
                          /\ n + 1 - ((k + 1 - i) + m) = i
    BY <1>1
  <2> HIDE DEF left
  <2>2. CASE where = "HEAD"
    <3>1. left = [i \in 1 .. k |-> s[i + m]]
      BY <1>3, <1>5, <2>1, <2>2
    <3> QED BY <2>2, <3>1 DEF PopsLeave, n, k
  <2>3. CASE where # "HEAD"
    <3>1. PromisedList!Reverse(left) = [i \in 1 .. k |-> left[k + 1 - i]]
      <4>1. PromisedList!Reverse(left) = [i \in 1 .. Len(left) |-> left[Len(left) + 1 - i]]
        BY <1>5, ReverseIs
      <4> QED BY <1>5, <4>1
    <3>2. \A i \in 1 .. k : left[k + 1 - i] = s[i]
      <4> TAKE i \in 1 .. k
      <4> DEFINE a == k + 1 - i
      <4>1. a \in 1 .. k /\ a + m \in 1 .. n /\ n + 1 - (a + m) = i
        BY <2>1
      <4> HIDE DEF a
      <4>2. left[a] = order[a + m]
        BY <1>5, <4>1
      <4>3. order[a + m] = s[i]
        BY <1>3, <2>3, <4>1
      <4> QED BY <4>2, <4>3 DEF a
    <3>3. PromisedList!Reverse(left) = [i \in 1 .. k |-> s[i]]
      BY <3>1, <3>2
    <3> QED BY <2>3, <3>3 DEF PopsLeave, n, k
  <2> QED BY <2>2, <2>3
<1> QED BY <1>2, <1>4, <1>6 DEF n, m, order

\* A stored list has values.
LEMMA ItemsAre ==
    LInv => /\ StoredItems # <<>> <=> HoldsList(key)
            /\ HoldsList(key) => StoredItems = Items(key.val)
BY StoredItemsIs DEF LInv, ListEntryOK, ItemsOf, HoldsList

\* An entry made for a list shows its values.
LEMMA EntryItems ==
    ASSUME NEW list, ListOK(list), NEW ver \in 0 .. VersionMax, NEW due \in Nat \cup {NoTTL}
    PROVE  ItemsOf([type |-> REDIS_LIST, val |-> list, ver |-> ver, due |-> due]) = Items(list)
<1> DEFINE e == [type |-> REDIS_LIST, val |-> list, ver |-> ver, due |-> due]
<1>1. list \in ListObjects
  BY ListTyped
<1>2. e \in TypedEntry({REDIS_LIST}, ListObjects)
  BY <1>1 DEF TypedEntry
<1>3. e.type = REDIS_LIST /\ e.val = list
  OBVIOUS
<1> HIDE DEF e
<1>4. e # Absent
  BY <1>2, ListMarkAssumption
<1>5. ItemsOf(e) = Items(list)
  BY <1>3, <1>4 DEF ItemsOf, HoldsList
<1> QED BY <1>5 DEF e

\* So do those that the write commands store.
LEMMA WrittenItems ==
    ASSUME LInv, HasType(REDIS_LIST), NEW r \in Requests, NEW list, ListOK(list)
    PROVE  /\ ItemsOf(Written(REDIS_LIST, list, r)) = Items(list)
           /\ key # Absent =>
                 ItemsOf([Written(REDIS_LIST, list, r) EXCEPT !.due = key.due]) = Items(list)
<1> DEFINE ver == WriteVersion(r)
           due == ExpireOrNot(r)
           old == key.due
<1>1. r \in [ver : 0 .. VersionMax, care : BOOLEAN, et : Int] /\ VersionMax \in Nat
  BY RequestAssumption
<1>2. key # Absent => key.ver \in 0 .. VersionMax /\ old \in Nat \cup {NoTTL}
  BY DEF LInv, ListEntryOK, HasType
<1>3. ver \in 0 .. VersionMax
  BY <1>1, <1>2 DEF WriteVersion
<1>4. due \in Nat \cup {NoTTL}
  BY <1>1, <1>2 DEF ExpireOrNot
<1>5. Written(REDIS_LIST, list, r) = [type |-> REDIS_LIST, val |-> list, ver |-> ver, due |-> due]
  BY DEF Written
<1> HIDE DEF ver, due, old
<1>6. [Written(REDIS_LIST, list, r) EXCEPT !.due = old]
      = [type |-> REDIS_LIST, val |-> list, ver |-> ver, due |-> old]
  BY <1>5
<1> QED BY <1>2, <1>3, <1>4, <1>5, <1>6, EntryItems DEF old

\* A stored value replaced.
LEMMA KeptItems ==
    ASSUME LInv, Readable(REDIS_LIST), NEW list, ListOK(list)
    PROVE  ItemsOf([key EXCEPT !.val = list]) = Items(list)
<1> DEFINE ver == key.ver
           due == key.due
           v == key.val
<1>1. key = [type |-> REDIS_LIST, val |-> v, ver |-> ver, due |-> due]
      /\ ver \in 0 .. VersionMax /\ due \in Nat \cup {NoTTL}
  BY DEF LInv, ListEntryOK, Readable, HasType
<1> HIDE DEF ver, due, v
<1>2. [key EXCEPT !.val = list] = [type |-> REDIS_LIST, val |-> list, ver |-> ver, due |-> due]
  BY <1>1
<1> QED BY <1>1, <1>2, EntryItems

\* What is left, if anything.
LEMMA RestItems ==
    ASSUME LInv, HasType(REDIS_LIST), NEW r \in Requests, NEW list, ListOK(list)
    PROVE  ItemsOf(Rest(list, r)) = Items(list)
<1>1. listTypeLength(list) = Len(Items(list)) /\ Items(list) \in Seq(ListValues)
  BY ListIs
<1>2. CASE listTypeLength(list) = 0
  <2>1. Items(list) = <<>>
    BY <1>1, <1>2, EmptyIs
  <2> QED BY <1>2, <2>1 DEF Rest, ItemsOf, HoldsList
<1>3. CASE listTypeLength(list) # 0
  BY <1>3, WrittenItems DEF Rest
<1> QED BY <1>2, <1>3

\* What a command answers.
LEMMA ListStep ==
    ASSUME NEW cmd, NEW arg, NEW rc, NEW val, Answer(cmd, arg, rc, val)
    PROVE  /\ PromisedList!Answering(cmd) /\ PromisedList!Asked(arg)
           /\ PromisedList!Answers(rc, val)
           /\ ItemsOf(key') = ItemsOf(key) => PromisedList!Says(rc, val)
<1>1. reply' = [cmd |-> cmd, arg |-> arg, rc |-> rc, val |-> val]
  BY DEF Answer, AnswerForBoth
<1> QED BY <1>1, StoredItemsIs DEF PromisedList!Answering, PromisedList!Asked,
           PromisedList!Answers, PromisedList!Says

\* A command that only answers.
LEMMA ListSays ==
    ASSUME NEW cmd, NEW arg, NEW rc, NEW val, Reply(cmd, arg, rc, val)
    PROVE  /\ PromisedList!Answering(cmd) /\ PromisedList!Asked(arg)
           /\ PromisedList!Says(rc, val)
BY ListStep DEF Reply

\* A command that is refused.
LEMMA ListRefused ==
    ASSUME NEW cmd, NEW arg, NEW rc, Refuse(cmd, arg, rc)
    PROVE  /\ PromisedList!Answering(cmd) /\ PromisedList!Asked(arg)
           /\ PromisedList!Refuses(rc)
BY ListSays DEF Refuse, PromisedList!Refuses

\* A command that finds no list to read.
LEMMA ListRefusedRead ==
    ASSUME LInv, NEW cmd, NEW arg, RefuseRead(cmd, arg, REDIS_LIST)
    PROVE  /\ PromisedList!Answering(cmd) /\ PromisedList!Asked(arg)
           /\ PromisedList!Nothing
<1>1. PICK rc \in {"NOT_EXIST", "WRONG_TYPE"} : Refuse(cmd, arg, rc)
  BY DEF RefuseRead
<1>2. StoredItems = <<>>
  BY ItemsAre DEF RefuseRead, HasType, HoldsList
<1> QED BY <1>1, <1>2, ListRefused DEF PromisedList!Nothing

\* A command that finds no list to write, or another version of it.
LEMMA ListRefusedWrite ==
    ASSUME LInv, NEW cmd, NEW arg, NEW r, RefuseWrite(cmd, arg, REDIS_LIST, r)
    PROVE  /\ PromisedList!Answering(cmd) /\ PromisedList!Asked(arg)
           /\ PromisedList!Nothing \/ PromisedList!Conflict
<1>1. CASE RefuseRead(cmd, arg, REDIS_LIST)
  BY <1>1, ListRefusedRead
<1>2. CASE HasType(REDIS_LIST) /\ ~VersionOK(r) /\ Refuse(cmd, arg, "VERSION_ERROR")
  <2>1. StoredItems # <<>>
    BY <1>2, ItemsAre DEF VersionOK, HasType, HoldsList
  <2> QED BY <1>2, <2>1, ListRefused DEF PromisedList!Conflict
<1> QED BY <1>1, <1>2 DEF RefuseWrite

\* What a command that reads or writes a list finds.
LEMMA ListFound ==
    ASSUME LInv, Readable(REDIS_LIST)
    PROVE  /\ HasType(REDIS_LIST) /\ ListOK(key.val) /\ Few(key.val)
           /\ StoredItems = Items(key.val) /\ StoredItems # <<>>
           /\ StoredItems \in Seq(ListValues) /\ Len(StoredItems) \in Nat /\ Len(StoredItems) # 0
<1>1. HoldsList(key)
  BY DEF Readable, HasType, HoldsList
<1> QED BY <1>1, ItemsAre, ListReadable

\* LLEN.
LEMMA LlenStep == ASSUME LInv, Llen PROVE PromisedList!Next
<1>1. CASE RefuseRead("LLEN", <<>>, REDIS_LIST)
  BY <1>1, ListRefusedRead DEF PromisedList!Next, PromisedList!Length
<1>2. CASE Readable(REDIS_LIST) /\ Reply("LLEN", <<>>, "OK", listTypeLength(key.val))
  <2>1. listTypeLength(key.val) = Len(StoredItems) /\ StoredItems # <<>>
    BY <1>2, ListFound, ListIs
  <2>2. PromisedList!Answering("LLEN") /\ PromisedList!Says("OK", Len(StoredItems))
    BY <1>2, <2>1, ListSays
  <2> QED BY <2>1, <2>2 DEF PromisedList!Next, PromisedList!Length
<1> QED BY <1>1, <1>2 DEF Llen

\* Where a command finds an index.
LEMMA PlaceIs ==
    ASSUME NEW list, ListOK(list), Items(list) = StoredItems, NEW index \in Int
    PROVE  LET p == listTypeIndex(list, index)
               place == PromisedList!Place(index)
           IN  /\ p = 0 <=> place \notin DOMAIN StoredItems
               /\ p # 0 => p = place /\ p \in 1 .. Len(StoredItems)
<1> DEFINE s == StoredItems
           n == Len(s)
           p == listTypeIndex(list, index)
           place == PromisedList!Place(index)
           at == IF index < 0 THEN n + index + 1 ELSE index + 1
<1>1. s \in Seq(ListValues) /\ n \in Nat /\ DOMAIN s = 1 .. n
  BY ListIs
<1>2. place = at
  BY DEF PromisedList!Place
<1>3. p = IF at \in 1 .. n THEN at ELSE 0
  BY FoundIs
<1>4. ~(0 \in 1 .. n)
  BY <1>1
<1> HIDE DEF s, n, p, place, at
<1>5. /\ p = 0 <=> place \notin DOMAIN s
      /\ p # 0 => p = place /\ p \in 1 .. n
  BY <1>1, <1>2, <1>3, <1>4
<1> QED BY <1>5 DEF s, n, p, place

\* LINDEX.
LEMMA LindexStep ==
    ASSUME LInv, NEW index \in IndexArgs, Lindex(index)
    PROVE  PromisedList!Next
<1> DEFINE p == listTypeIndex(key.val, index)
<1> SUFFICES PromisedList!Answering("LINDEX") /\ PromisedList!Asked(index)
             /\ PromisedList!ValueAt(index)
  BY DEF PromisedList!Next
<1>1. CASE RefuseRead("LINDEX", index, REDIS_LIST)
  BY <1>1, ListRefusedRead DEF PromisedList!ValueAt
<1>2. ASSUME Readable(REDIS_LIST)
      PROVE  /\ Items(key.val) = StoredItems /\ StoredItems # <<>>
             /\ p = 0 <=> PromisedList!Place(index) \notin DOMAIN StoredItems
             /\ p # 0 => p = PromisedList!Place(index)
  <2>1. index \in Int
    BY ListArguments
  <2>2. ListOK(key.val) /\ Items(key.val) = StoredItems /\ StoredItems # <<>>
    BY <1>2, ListFound
  <2> QED BY <2>1, <2>2, PlaceIs
<1> HIDE DEF p
<1>3. CASE Readable(REDIS_LIST) /\ p = 0 /\ Refuse("LINDEX", index, "OUT_OF_RANGE")
  BY <1>2, <1>3, ListRefused DEF PromisedList!ValueAt
<1>4. CASE Readable(REDIS_LIST) /\ p # 0 /\ Reply("LINDEX", index, "OK", Items(key.val)[p])
  <2> DEFINE val == Items(key.val)[p]
  <2>1. val = StoredItems[PromisedList!Place(index)]
    BY <1>2, <1>4
  <2>2. Reply("LINDEX", index, "OK", val)
    BY <1>4
  <2> HIDE DEF val
  <2>3. PromisedList!Answering("LINDEX") /\ PromisedList!Asked(index)
        /\ PromisedList!Says("OK", val)
    BY <2>2, ListSays
  <2> QED BY <1>2, <1>4, <2>1, <2>3 DEF PromisedList!ValueAt
<1> QED BY <1>1, <1>3, <1>4 DEF Lindex, p

\* LRANGE.
LEMMA LrangeStep ==
    ASSUME LInv, NEW start \in IndexArgs, NEW end \in IndexArgs, Lrange(start, end)
    PROVE  PromisedList!Next
<1> DEFINE llen == listTypeLength(key.val)
           from == Start(start, llen)
           to == Finish(end, llen)
           none == NoneBetween(start, end, llen)
           p == listTypeIndex(key.val, from)
           arg == <<start, end>>
           val == SubSeq(Items(key.val), p, p + to - from)
           slice == PromisedList!Slice(start, end)
<1> SUFFICES PromisedList!Answering("LRANGE") /\ PromisedList!Asked(arg)
             /\ PromisedList!Between(start, end)
  BY DEF PromisedList!Next
<1>1. CASE RefuseRead("LRANGE", arg, REDIS_LIST)
  <2> HIDE DEF arg
  <2> QED BY <1>1, ListRefusedRead DEF PromisedList!Between
<1>2. ASSUME Readable(REDIS_LIST)
      PROVE  /\ StoredItems # <<>>
             /\ none => slice = <<>>
             /\ ~none => slice = val /\ slice # <<>>
  <2> DEFINE s == StoredItems
             n == Len(s)
  <2>1. start \in Int /\ end \in Int
    BY ListArguments
  <2>2. ListOK(key.val) /\ Items(key.val) = s /\ s # <<>> /\ s \in Seq(ListValues) /\ n \in Nat
    BY <1>2, ListFound
  <2>3. llen = n
    BY <2>2, ListIs
  <2>4. /\ from \in Nat /\ to \in Int /\ to < n
        /\ none => slice = <<>>
        /\ ~none => from <= to /\ slice = SubSeq(s, from + 1, to + 1) /\ slice # <<>>
    <3> HIDE DEF s
    <3>1. s = StoredItems
      BY DEF s
    <3> QED BY <2>1, <2>2, <2>3, <3>1, SliceIs
  <2> HIDE DEF none, slice, from, to, llen
  <2>5. ASSUME ~none PROVE val = SubSeq(s, from + 1, to + 1)
    <3>1. p = from + 1
      <4>1. p = IF from + 1 \in 1 .. n THEN from + 1 ELSE 0
        <5>1. from \in Int /\ ~(from < 0)
          BY <2>4
        <5> QED BY <2>2, <5>1, FoundIs
      <4>2. from + 1 \in 1 .. n
        <5> HIDE DEF n
        <5> QED BY <2>2, <2>4, <2>5
      <4> QED BY <4>1, <4>2
    <3>2. p + to - from = to + 1
      <4> HIDE DEF p
      <4> QED BY <2>4, <3>1
    <3> QED BY <2>2, <3>1, <3>2
  <2> QED BY <2>2, <2>4, <2>5
<1> HIDE DEF none, arg, val, slice
<1>3. CASE Readable(REDIS_LIST) /\ none /\ Refuse("LRANGE", arg, "OUT_OF_RANGE")
  BY <1>2, <1>3, ListRefused DEF PromisedList!Between, slice
<1>4. CASE Readable(REDIS_LIST) /\ ~none /\ Reply("LRANGE", arg, "OK", val)
  BY <1>2, <1>4, ListSays DEF PromisedList!Between, slice
<1> QED BY <1>1, <1>3, <1>4 DEF Lrange, arg, none, val

\* LTRIM.
LEMMA LtrimStep ==
    ASSUME LInv, NEW start \in IndexArgs, NEW end \in IndexArgs, NEW r \in Requests,
           Ltrim(start, end, r)
    PROVE  PromisedList!Next
<1> DEFINE llen == listTypeLength(key.val)
           none == NoneBetween(start, end, llen)
           from == Start(start, llen)
           to == Finish(end, llen)
           ltrim == IF none THEN llen ELSE from
           rtrim == IF none THEN 0 ELSE llen - to - 1
           new == Trimmed(key.val, ltrim, rtrim)
           arg == <<start, end>>
           slice == PromisedList!Slice(start, end)
<1> SUFFICES PromisedList!Answering("LTRIM") /\ PromisedList!Asked(arg)
             /\ PromisedList!KeepOnly(start, end)
  BY DEF PromisedList!Next
<1>1. CASE RefuseWrite("LTRIM", arg, REDIS_LIST, r)
  <2> HIDE DEF arg
  <2> QED BY <1>1, ListRefusedWrite DEF PromisedList!KeepOnly
<1>2. CASE Writable(REDIS_LIST, r) /\ key' = Rest(new, r) /\ Answer("LTRIM", arg, "OK", 0)
  <2> DEFINE s == StoredItems
             n == Len(s)
  <2>1. start \in Int /\ end \in Int
    BY ListArguments
  <2>2. /\ HasType(REDIS_LIST) /\ ListOK(key.val) /\ Few(key.val)
        /\ Items(key.val) = s /\ s # <<>> /\ s \in Seq(ListValues) /\ n \in Nat
    BY <1>2, ListFound DEF Writable
  <2>3. llen = n
    BY <2>2, ListIs
  <2>4. /\ from \in Nat /\ to \in Int /\ to < n
        /\ none => slice = <<>>
        /\ ~none => from <= to /\ slice = SubSeq(s, from + 1, to + 1) /\ slice # <<>>
    <3> HIDE DEF s
    <3>1. s = StoredItems
      BY DEF s
    <3> QED BY <2>1, <2>2, <2>3, <3>1, SliceIs
  <2>5. from \in Nat /\ n - to - 1 \in Nat
    BY <2>1, <2>2, <2>3, TrimsAre
  <2>6. key' = Rest(new, r) /\ Answer("LTRIM", arg, "OK", 0)
    BY <1>2
  <2> HIDE DEF none, slice, from, to, llen, n
  <2>7. /\ ltrim \in Nat /\ rtrim \in Nat /\ ltrim + rtrim <= n
        /\ none => ltrim = n /\ rtrim = 0
        /\ ~none => ltrim = from /\ n - rtrim = to + 1
    BY <2>2, <2>3, <2>4, <2>5
  <2> HIDE DEF ltrim, rtrim
  <2>8. ListOK(new) /\ Items(new) = SubSeq(s, ltrim + 1, n - rtrim)
    <3>1. ltrim + rtrim <= Len(Items(key.val))
      BY <2>2, <2>7 DEF n
    <3> QED BY <2>2, <2>7, <3>1, ListTrimmed, TrimmedItems DEF n
  <2> HIDE DEF new
  <2>9. SubSeq(s, ltrim + 1, n - rtrim) = slice
    <3>1. CASE none
      <4>1. SubSeq(s, n + 1, n) = <<>>
        <5> HIDE DEF s
        <5> QED BY <2>2
      <4> QED BY <2>2, <2>4, <2>7, <3>1, <4>1
    <3>2. CASE ~none
      BY <2>4, <2>7, <3>2
    <3> QED BY <3>1, <3>2
  <2>10. ItemsOf(key') = slice
    BY <2>2, <2>6, <2>8, <2>9, RestItems
  <2>11. StoredItems' = slice /\ PromisedList!Answers("OK", 0)
         /\ PromisedList!Answering("LTRIM") /\ PromisedList!Asked(arg)
    BY <2>6, <2>10, StoredItemsIs, ListStep
  <2> QED BY <2>2, <2>11 DEF PromisedList!KeepOnly, slice
<1> HIDE DEF arg, new
<1> QED BY <1>1, <1>2 DEF Ltrim, arg, new

\* LPOP and RPOP.
LEMMA PopStep ==
    ASSUME LInv, NEW where \in {"HEAD", "TAIL"}, NEW count \in PopCounts, NEW r \in Requests,
           popnGenericCommand(where, count, r)
    PROVE  PromisedList!Next
<1> DEFINE popped == Pops(key.val, where)[count]
           arg == <<where, count>>
<1> SUFFICES PromisedList!Answering("POP") /\ PromisedList!Asked(arg)
             /\ PromisedList!Pop(where, count)
  BY DEF PromisedList!Next
<1>1. CASE RefuseRead("POP", arg, REDIS_LIST)
  <2> HIDE DEF arg
  <2> QED BY <1>1, ListRefusedRead DEF PromisedList!Pop
<1>2. CASE Readable(REDIS_LIST) /\ count <= 0 /\ Refuse("POP", arg, "OK_BUT_CZERO")
  <2>1. StoredItems # <<>>
    BY <1>2, ListFound
  <2> HIDE DEF arg
  <2> QED BY <1>2, <2>1, ListRefused DEF PromisedList!Pop
<1>3. CASE Readable(REDIS_LIST) /\ ~VersionOK(r) /\ Refuse("POP", arg, "VERSION_ERROR")
  <2>1. StoredItems # <<>>
    BY <1>3, ListFound
  <2> HIDE DEF arg
  <2> QED BY <1>3, <2>1, ListRefused DEF PromisedList!Pop, PromisedList!Conflict
<1>4. CASE /\ Writable(REDIS_LIST, r) /\ count > 0
           /\ key' = Rest(popped.list, r) /\ Answer("POP", arg, "OK", popped.out)
  <2> DEFINE s == StoredItems
             n == Len(s)
             m == Popped(count, n)
             order == IF where = "HEAD" THEN s ELSE PromisedList!Reverse(s)
             left == SubSeq(order, m + 1, n)
             gives == SubSeq(order, 1, m)
             leaves == IF where = "HEAD" THEN left ELSE PromisedList!Reverse(left)
  <2>1. /\ HasType(REDIS_LIST) /\ ListOK(key.val) /\ Few(key.val)
        /\ Items(key.val) = s /\ s # <<>> /\ s \in Seq(ListValues)
    BY <1>4, ListFound DEF Writable
  <2>2. count \in Nat
    BY <1>4, ListArguments
  <2>3. popped \in PoppedBy(key.val, where, count)
    BY <2>1, <2>2, AllPopped
  <2>4. key' = Rest(popped.list, r) /\ Answer("POP", arg, "OK", popped.out) /\ count > 0
    BY <1>4
  <2> HIDE DEF popped, s
  <2>5. popped \in Popping /\ ListOK(popped.list)
        /\ Items(popped.list) = PopsLeave(s, m, where) /\ popped.out = PopsGive(s, m, where)
    BY <2>1, <2>3 DEF PoppedBy, Popping
  <2>6. /\ PromisedList!Min({count, n}) = m
        /\ gives = PopsGive(s, m, where)
        /\ leaves = PopsLeave(s, m, where)
    BY <2>1, <2>2, PopPromised
  <2> HIDE DEF gives, leaves, m, arg
  <2>7. ItemsOf(key') = leaves
    BY <2>1, <2>4, <2>5, <2>6, RestItems
  <2>8. StoredItems' = leaves /\ PromisedList!Answers("OK", gives)
        /\ PromisedList!Answering("POP") /\ PromisedList!Asked(arg)
    BY <2>4, <2>5, <2>6, <2>7, StoredItemsIs, ListStep
  <2>9. PromisedList!Pop(where, count)
    <3>1. s = StoredItems
      BY DEF s
    <3>2. leaves = LET least == PromisedList!Min({count, Len(s)})
                       behind == SubSeq(order, least + 1, Len(s))
                   IN  IF where = "HEAD" THEN behind ELSE PromisedList!Reverse(behind)
      BY <2>6 DEF leaves
    <3>3. gives = SubSeq(order, 1, PromisedList!Min({count, Len(s)}))
      BY <2>6 DEF gives
    <3> QED BY <2>1, <2>4, <2>8, <3>1, <3>2, <3>3 DEF PromisedList!Pop
  <2> QED BY <2>8, <2>9
<1> HIDE DEF arg, popped
<1> QED BY <1>1, <1>2, <1>3, <1>4 DEF popnGenericCommand, arg, popped, Pops

\* LSET, which may have converted the list when it finds no place.
LEMMA LsetStep ==
    ASSUME LInv, NEW index \in IndexArgs, NEW v \in ListValues, NEW r \in Requests,
           Lset(index, v, r)
    PROVE  PromisedList!Next
<1> DEFINE list == listTypeTryConversion(key.val, v)
           p == listTypeIndex(list, index)
           place == PromisedList!Place(index)
           new == Replaced(list, p, v)
           arg == <<index, v>>
<1> SUFFICES PromisedList!Answering("LSET") /\ PromisedList!Asked(arg)
             /\ PromisedList!SetAt(index, v)
  BY DEF PromisedList!Next
<1>1. CASE RefuseWrite("LSET", arg, REDIS_LIST, r)
  <2> HIDE DEF arg
  <2> QED BY <1>1, ListRefusedWrite DEF PromisedList!SetAt
<1>2. ASSUME Writable(REDIS_LIST, r)
      PROVE  /\ Readable(REDIS_LIST) /\ HasType(REDIS_LIST) /\ key # Absent
             /\ ListOK(list) /\ Few(list) /\ (IsZiplist(list) => v \in ShortValues)
             /\ Items(list) = StoredItems /\ StoredItems # <<>> /\ StoredItems = ItemsOf(key)
             /\ p = 0 <=> place \notin DOMAIN StoredItems
             /\ p # 0 => p = place /\ p \in 1 .. Len(StoredItems)
  <2>1. Readable(REDIS_LIST) /\ key # Absent
    BY <1>2 DEF Writable, Readable
  <2>2. /\ HasType(REDIS_LIST) /\ ListOK(key.val) /\ Few(key.val)
        /\ Items(key.val) = StoredItems /\ StoredItems # <<>>
    BY <2>1, ListFound
  <2>3. ListOK(list) /\ Few(list) /\ Items(list) = StoredItems
        /\ (IsZiplist(list) => v \in ShortValues)
    BY <2>2, ListTried
  <2>4. index \in Int
    BY ListArguments
  <2> HIDE DEF list
  <2>5. /\ p = 0 <=> place \notin DOMAIN StoredItems
        /\ p # 0 => p = place /\ p \in 1 .. Len(StoredItems)
    BY <2>3, <2>4, PlaceIs
  <2> QED BY <2>1, <2>2, <2>3, <2>5, StoredItemsIs
<1> HIDE DEF arg, list, p
<1>3. CASE /\ Writable(REDIS_LIST, r) /\ p = 0
           /\ key' = [key EXCEPT !.val = list] /\ Answer("LSET", arg, "OUT_OF_RANGE", 0)
  <2>1. ItemsOf(key') = ItemsOf(key)
    BY <1>2, <1>3, KeptItems
  <2>2. PromisedList!Answering("LSET") /\ PromisedList!Asked(arg)
        /\ PromisedList!Refuses("OUT_OF_RANGE")
    BY <1>3, <2>1, ListStep DEF PromisedList!Refuses
  <2> QED BY <1>2, <1>3, <2>2 DEF PromisedList!SetAt, place
<1>4. CASE /\ Writable(REDIS_LIST, r) /\ p # 0
           /\ key' = [Written(REDIS_LIST, new, r) EXCEPT !.due = key.due]
           /\ Answer("LSET", arg, "OK", 0)
  <2> DEFINE s == StoredItems
  <2>1. p \in 1 .. Len(s) /\ p = place /\ Items(list) = s /\ s \in Seq(ListValues)
    BY <1>2, <1>4, ListIs
  <2>2. ListOK(new) /\ Items(new) = [s EXCEPT ![p] = v]
    BY <1>2, <1>4, <2>1, ListReplaced
  <2> HIDE DEF new
  <2>3. ItemsOf(key') = [s EXCEPT ![p] = v]
    BY <1>2, <1>4, <2>2, WrittenItems
  <2> HIDE DEF s
  <2>4. PromisedList!ReplaceAt(s, place, v) = [s EXCEPT ![p] = v]
    BY <2>1 DEF PromisedList!ReplaceAt
  <2>5. place \in DOMAIN s
    BY <2>1
  <2>6. PromisedList!Answering("LSET") /\ PromisedList!Asked(arg)
        /\ PromisedList!Answers("OK", 0)
    BY <1>4, ListStep
  <2>7. StoredItems' = PromisedList!ReplaceAt(s, place, v)
    BY <2>3, <2>4, StoredItemsIs
  <2> QED BY <2>5, <2>6, <2>7 DEF PromisedList!SetAt, place, s
<1> HIDE DEF new
<1> QED BY <1>1, <1>3, <1>4 DEF Lset, arg, list, p, new

\* Neither before nor after.
LEMMA LinsertMalformedStep == ASSUME LInv, LinsertMalformed PROVE PromisedList!Next
<1>1. PromisedList!Answering("LINSERT") /\ PromisedList!Asked(<<>>)
      /\ PromisedList!Refuses("SYNTAX_ERROR")
  BY ListRefused DEF LinsertMalformed
<1> QED BY <1>1 DEF PromisedList!Next

\* The contract's own operators on sequences and sets of positions.
LEMMA ListOperatorsAre ==
    /\ \A S : PromisedList!Min(S) = Min(S)
    /\ \A s, p, v : PromisedList!InsertAt(s, p, v) = InsertAt(s, p, v)
<1>1. \A S : PromisedList!Min(S) = Min(S)
  BY DEF PromisedList!Min, Min
<1>2. \A s, p, v : PromisedList!InsertAt(s, p, v) = InsertAt(s, p, v)
  BY DEF PromisedList!InsertAt, InsertAt
<1> QED BY <1>1, <1>2

\* The first position of a value, 0 if there is none.
FirstOf(s, v) == SelectInSeq(s, LAMBDA w : w = v)

LEMMA FirstOfIs ==
    ASSUME NEW s \in Seq(ListValues), NEW v, NEW I, I = {i \in DOMAIN s : s[i] = v}
    PROVE  LET found == FirstOf(s, v)
           IN  /\ I = {} => found = 0
               /\ I # {} => found = Min(I) /\ found \in 1 .. Len(s) /\ found # 0
<1> DEFINE found == FirstOf(s, v)
<1>1. found = IF I # {} THEN Min(I) ELSE 0
  <2> DEFINE J == {i \in 1 .. Len(s) : s[i] = v}
  <2>1. found = IF J # {} THEN Min(J) ELSE 0
    BY DEF SelectInSeq, FirstOf
  <2>2. I = J
    OBVIOUS
  <2> HIDE DEF J, found
  <2> QED BY <2>1, <2>2
<1>2. ASSUME I # {} PROVE Min(I) \in I
  <2>1. I \in SUBSET Nat
    OBVIOUS
  <2>2. \E i \in I : \A j \in I : i <= j
    BY <1>2, <2>1, LeastNat
  <2> QED BY <2>2 DEF Min
<1>3. \A i \in I : i \in 1 .. Len(s) /\ i # 0
  OBVIOUS
<1> HIDE DEF found
<1>4. /\ I = {} => found = 0
      /\ I # {} => found = Min(I) /\ found \in 1 .. Len(s) /\ found # 0
  BY <1>1, <1>2, <1>3
<1> QED BY <1>4 DEF found

\* LINSERT, which may have converted the list when it finds no pivot.
LEMMA LinsertStep ==
    ASSUME LInv, NEW where \in {"before", "after"}, NEW pivot \in ListValues,
           NEW v \in ListValues, NEW r \in Requests, Linsert(where, pivot, v, r)
    PROVE  PromisedList!Next
<1> DEFINE list == listTypeTryConversion(key.val, v)
           s == StoredItems
           I == {i \in DOMAIN s : s[i] = pivot}
           found == FirstOf(Items(list), pivot)
           p == IF where = "before" THEN found ELSE found + 1
           at == IF where = "before" THEN PromisedList!Min(I) ELSE PromisedList!Min(I) + 1
           new == listTypeInsert(list, p, v)
           kept == IF IsZiplist(new) /\ listTypeLength(new) > list_max_ziplist_entries
                   THEN listTypeConvert(new) ELSE new
           arg == <<where, pivot, v>>
<1> SUFFICES PromisedList!Answering("LINSERT") /\ PromisedList!Asked(arg)
             /\ PromisedList!InsertBeside(where, pivot, v)
  BY DEF PromisedList!Next
<1>1. CASE RefuseWrite("LINSERT", arg, REDIS_LIST, r)
  <2> HIDE DEF arg
  <2> QED BY <1>1, ListRefusedWrite DEF PromisedList!InsertBeside
<1>2. ASSUME Writable(REDIS_LIST, r)
      PROVE  /\ Readable(REDIS_LIST) /\ HasType(REDIS_LIST)
             /\ ListOK(list) /\ Few(list) /\ (IsZiplist(list) => v \in ShortValues)
             /\ Items(list) = s /\ s # <<>> /\ s = ItemsOf(key)
             /\ s \in Seq(ListValues) /\ Len(s) \in Nat
             /\ I = {} => found = 0
             /\ I # {} => found = Min(I) /\ found \in 1 .. Len(s) /\ found # 0
  <2>1. Readable(REDIS_LIST)
    BY <1>2 DEF Writable
  <2>2. /\ HasType(REDIS_LIST) /\ ListOK(key.val) /\ Few(key.val)
        /\ Items(key.val) = s /\ s # <<>> /\ s \in Seq(ListValues) /\ Len(s) \in Nat
    BY <2>1, ListFound
  <2>3. ListOK(list) /\ Few(list) /\ Items(list) = s /\ (IsZiplist(list) => v \in ShortValues)
    BY <2>2, ListTried
  <2> HIDE DEF list
  <2>4. /\ I = {} => found = 0
        /\ I # {} => found = Min(I) /\ found \in 1 .. Len(s) /\ found # 0
    <3> HIDE DEF s, I
    <3>1. I = {i \in DOMAIN s : s[i] = pivot} /\ found = FirstOf(s, pivot)
      BY <2>3 DEF I
    <3> HIDE DEF found
    <3> QED BY <2>2, <3>1, FirstOfIs
  <2> HIDE DEF found, I
  <2> QED BY <2>1, <2>2, <2>3, <2>4, StoredItemsIs
<1> HIDE DEF arg, list, found
<1>3. CASE /\ Writable(REDIS_LIST, r) /\ found = 0
           /\ key' = [key EXCEPT !.val = list] /\ Answer("LINSERT", arg, "CNEGO", 0)
  <2>1. ItemsOf(key') = ItemsOf(key)
    BY <1>2, <1>3, KeptItems
  <2>2. PromisedList!Answering("LINSERT") /\ PromisedList!Asked(arg)
        /\ PromisedList!Refuses("CNEGO")
    BY <1>3, <2>1, ListStep DEF PromisedList!Refuses
  <2>3. I = {}
    BY <1>2, <1>3
  <2> QED BY <1>2, <1>3, <2>2, <2>3 DEF PromisedList!InsertBeside
<1>4. CASE /\ Writable(REDIS_LIST, r) /\ found # 0 /\ key' = Written(REDIS_LIST, kept, r)
           /\ Answer("LINSERT", arg, "OK", <<1, listTypeLength(new)>>)
  <2>1. I # {} /\ found = Min(I) /\ found \in 1 .. Len(s)
    BY <1>2, <1>4
  <2>2. p \in 1 .. Len(s) + 1 /\ p = at
    <3> HIDE DEF s, I
    <3> QED BY <1>2, <1>4, <2>1, ListOperatorsAre
  <2> HIDE DEF p, s, at, I
  <2>3. ListOK(new) /\ Items(new) = WithAt(s, p, v) /\ Len(Items(new)) = Len(s) + 1
    BY <1>2, <1>4, <2>2, ListInserted
  <2>4. listTypeLength(new) = Len(s) + 1
    BY <2>3, ListIs
  <2> HIDE DEF new
  <2>5. ListOK(kept) /\ Items(kept) = WithAt(s, p, v)
    <3>1. LET conv == listTypeConvert(new) IN ListOK(conv) /\ Items(conv) = Items(new)
      BY <2>3, ListConverted
    <3> QED BY <2>3, <3>1
  <2> HIDE DEF kept
  <2>6. ItemsOf(key') = WithAt(s, p, v)
    BY <1>2, <1>4, <2>5, WrittenItems
  <2>7. PromisedList!InsertAt(s, at, v) = WithAt(s, p, v)
    BY <1>2, <1>4, <2>2, InsertedAt, ListOperatorsAre
  <2>8. PromisedList!Answering("LINSERT") /\ PromisedList!Asked(arg)
        /\ PromisedList!Answers("OK", <<1, Len(s) + 1>>)
    BY <1>4, <2>4, ListStep
  <2>9. StoredItems' = PromisedList!InsertAt(s, at, v)
    BY <2>6, <2>7, StoredItemsIs
  <2>10. PromisedList!InsertBeside(where, pivot, v)
    BY <2>1, <2>8, <2>9 DEF PromisedList!InsertBeside, s, at, I
  <2> QED BY <2>8, <2>10
<1> HIDE DEF new, kept
<1> QED BY <1>1, <1>3, <1>4 DEF Linsert, arg, list, found, new, kept, FirstOf

\* As many values as there is room for, at an end of a list.
Admits(vs, n) ==
    n = PromisedList!Min({Len(vs), PromisedList!Max({list_max_size - Len(StoredItems), 0})})

LEMMA PushedSome ==
    ASSUME NEW old, ListOK(old), Few(old), Items(old) = StoredItems,
           NEW vs \in Seq(ListValues), NEW where, NEW n, n = Admitted(old, Len(vs)),
           NEW some \in Seq(ListValues), Len(some) = n, NEW new, new = PushAll(old, some, where),
           NEW put, put = PromisedList!Put(some, where)
    PROVE  /\ Admits(vs, n) /\ ListOK(new) /\ Items(new) = put
           /\ listTypeLength(new) = Len(StoredItems) + n
           /\ n = 0 => put = StoredItems
<1> DEFINE s == StoredItems
           size == Len(vs)
           room == list_max_size - Len(s)
<1>1. /\ s \in Seq(ListValues) /\ Len(s) \in Nat /\ listTypeLength(old) = Len(s)
      /\ list_max_size \in Nat /\ size \in Nat /\ room \in Int /\ 0 \in Int
  <2>1. s \in Seq(ListValues) /\ Len(s) \in Nat /\ listTypeLength(old) = Len(s)
    BY ListIs
  <2> HIDE DEF s
  <2> QED BY <2>1, ListsAssumption
<1>2. n \in 0 .. size
  BY <1>1, AdmittedIs
<1>3. n = PromisedList!Min({size, PromisedList!Max({room, 0})})
  <2>1. n = Min({size, Max({room, 0})})
    BY <1>1 DEF Admitted
  <2> HIDE DEF room, size
  <2>2. PromisedList!Max({room, 0}) = Max({room, 0}) /\ Max({room, 0}) \in Int
    <3>1. PromisedList!Max({room, 0}) = IF room > 0 THEN room ELSE 0
      BY ONLY <1>1, LimitsAre
    <3>2. Max({room, 0}) = IF room > 0 THEN room ELSE 0
      BY ONLY <1>1, LimitsAre
    <3> QED BY ONLY <1>1, <3>1, <3>2
  <2> DEFINE more == Max({room, 0})
  <2>3. n = Min({size, more}) /\ more \in Int /\ PromisedList!Max({room, 0}) = more
    BY <2>1, <2>2
  <2> HIDE DEF more
  <2>4. size \in Int
    BY <1>1
  <2>5. PromisedList!Min({size, more}) = Min({size, more})
    <3>1. PromisedList!Min({size, more}) = IF size < more THEN size ELSE more
      BY ONLY <2>3, <2>4, LimitsAre
    <3>2. Min({size, more}) = IF size < more THEN size ELSE more
      BY ONLY <2>3, <2>4, LimitsAre
    <3> QED BY ONLY <3>1, <3>2
  <2> QED BY <2>3, <2>5
<1> HIDE DEF s
<1>4. some \in Seq(ListValues) /\ Len(some) = n
  OBVIOUS
<1>5. /\ ListOK(new) /\ Items(new) = Placed(s, some, Len(some), where)
      /\ Len(Items(new)) = Len(s) + n
  BY <1>4, AllPushed DEF s
<1>6. Placed(s, some, Len(some), where)
      = IF where = "HEAD" THEN PromisedList!Reverse(some) \o s ELSE s \o some
  BY <1>1, <1>4, PlacedIs
<1>7. put = Placed(s, some, Len(some), where)
  BY <1>6 DEF PromisedList!Put, s
<1>8. n = 0 => put = s
  <2> SUFFICES ASSUME n = 0 PROVE Placed(s, some, 0, where) = s
    BY <1>4, <1>7
  <2>1. \A i \in 1 .. Len(s) : ~(i <= 0) /\ i - 0 = i
    BY <1>1
  <2>2. s = [i \in 1 .. Len(s) |-> s[i]]
    BY <1>1
  <2> QED BY <1>1, <2>1, <2>2 DEF Placed
<1>9. listTypeLength(new) = Len(s) + n
  BY <1>5, ListIs
<1> QED BY <1>3, <1>5, <1>7, <1>8, <1>9 DEF s, size, room, Admits

\* What the contract says of such a push.
LEMMA PushPromised ==
    ASSUME NEW cmd, NEW arg, NEW vs, NEW where, NEW n, Admits(vs, n),
           StoredItems' = PromisedList!Put(SubSeq(vs, 1, n), where),
           Answer(cmd, arg, IF n < Len(vs) THEN "LEN_LIMITED" ELSE "OK",
                  <<n, Len(StoredItems) + n>>)
    PROVE  PromisedList!Answering(cmd) /\ PromisedList!Asked(arg)
           /\ PromisedList!PushSome(where, vs)
<1> DEFINE rc == IF n < Len(vs) THEN "LEN_LIMITED" ELSE "OK"
           val == <<n, Len(StoredItems) + n>>
<1>1. Answer(cmd, arg, rc, val)
  OBVIOUS
<1> HIDE DEF rc, val
<1>2. PromisedList!Answering(cmd) /\ PromisedList!Asked(arg) /\ PromisedList!Answers(rc, val)
  BY <1>1, ListStep
<1> QED BY <1>2 DEF PromisedList!PushSome, rc, val, Admits

\* LPUSH and RPUSH.
LEMMA PushStep ==
    ASSUME LInv, NEW where \in {"HEAD", "TAIL"}, NEW vs \in PushArgs, NEW r \in Requests,
           pushnGenericCommand(where, vs, r)
    PROVE  PromisedList!Next
<1> DEFINE old == IF key = Absent THEN createZiplistObject ELSE key.val
           n == Admitted(old, Len(vs))
           some == SubSeq(vs, 1, n)
           new == PushAll(old, some, where)
           arg == <<where, vs>>
           rc == IF n < Len(vs) THEN "LEN_LIMITED" ELSE "OK"
<1> SUFFICES PromisedList!Answering("PUSH") /\ PromisedList!Asked(arg)
             /\ PromisedList!Push(where, vs)
  BY DEF PromisedList!Next
<1>1. CASE ~HasType(REDIS_LIST) /\ Refuse("PUSH", arg, "WRONG_TYPE")
  <2> HIDE DEF arg
  <2>1. StoredItems = <<>>
    BY <1>1, ItemsAre DEF HasType, HoldsList
  <2> QED BY <1>1, <2>1, ListRefused DEF PromisedList!Push
<1>2. CASE HasType(REDIS_LIST) /\ ~VersionOK(r) /\ Refuse("PUSH", arg, "VERSION_ERROR")
  <2> HIDE DEF arg
  <2>1. StoredItems # <<>>
    BY <1>2, ItemsAre DEF VersionOK, HasType, HoldsList
  <2> QED BY <1>2, <2>1, ListRefused DEF PromisedList!Push, PromisedList!Conflict
<1>3. CASE /\ HasType(REDIS_LIST)
           /\ IF n = 0 THEN UNCHANGED key ELSE key' = Written(REDIS_LIST, new, r)
           /\ Answer("PUSH", arg, rc, <<n, listTypeLength(new)>>)
  <2>1. ListOK(old) /\ Few(old) /\ Items(old) = StoredItems
    <3>1. CASE key = Absent
      <4>1. StoredItems = <<>>
        BY <3>1, StoredItemsIs DEF ItemsOf, HoldsList
      <4> QED BY <3>1, <4>1, NewList
    <3>2. CASE key # Absent
      BY <1>3, <3>2, ListFound DEF Readable
    <3> QED BY <3>1, <3>2
  <2>2. vs \in Seq(ListValues)
    BY ListArguments
  <2> HIDE DEF old
  <2> DEFINE put == PromisedList!Put(some, where)
  <2>3. /\ Admits(vs, n) /\ ListOK(new) /\ Items(new) = put
        /\ listTypeLength(new) = Len(StoredItems) + n
        /\ n = 0 => put = StoredItems
    <3>1. n \in 0 .. Len(vs)
      BY <2>1, <2>2, AdmittedIs
    <3> HIDE DEF n
    <3>2. some \in Seq(ListValues) /\ Len(some) = n
      BY <2>2, <3>1
    <3> HIDE DEF some, new, put
    <3>3. n = Admitted(old, Len(vs)) /\ new = PushAll(old, some, where)
      BY DEF n, some, new
    <3>4. put = PromisedList!Put(some, where)
      BY DEF put
    <3> QED BY ONLY <2>1, <2>2, <3>2, <3>3, <3>4, PushedSome
  <2>4. /\ n = 0 => key' = key
        /\ n # 0 => key' = Written(REDIS_LIST, new, r)
        /\ Answer("PUSH", arg, rc, <<n, listTypeLength(new)>>)
    BY <1>3
  <2> HIDE DEF n, new, put, arg
  <2>5. StoredItems' = put
    BY <1>3, <2>3, <2>4, WrittenItems, StoredItemsIs
  <2>6. Answer("PUSH", arg, rc, <<n, Len(StoredItems) + n>>)
    BY <2>3, <2>4
  <2>7. StoredItems' = PromisedList!Put(SubSeq(vs, 1, n), where)
    BY <2>5 DEF put
  <2> HIDE DEF some
  <2>8. PromisedList!Answering("PUSH") /\ PromisedList!Asked(arg)
        /\ PromisedList!PushSome(where, vs)
    BY <2>2, <2>3, <2>6, <2>7, PushPromised
  <2> QED BY <2>8 DEF PromisedList!Push
<1> HIDE DEF arg, n, new
<1> QED BY <1>1, <1>2, <1>3 DEF pushnGenericCommand, arg, n, new

\* LPUSHX and RPUSHX.
LEMMA PushxStep ==
    ASSUME LInv, NEW where \in {"HEAD", "TAIL"}, NEW vs \in PushArgs, NEW r \in Requests,
           Pushx(where, vs, r)
    PROVE  PromisedList!Next
<1> DEFINE old == key.val
           n == Admitted(old, Len(vs))
           same == [i \in DOMAIN vs |-> vs[1]]
           some == [i \in 1 .. n |-> vs[1]]
           new == PushAll(old, some, where)
           arg == <<where, vs>>
           rc == IF n < Len(vs) THEN "LEN_LIMITED" ELSE "OK"
<1> SUFFICES PromisedList!Answering("PUSHX") /\ PromisedList!Asked(arg)
             /\ PromisedList!PushIfThere(where, vs)
  BY DEF PromisedList!Next
<1>1. CASE RefuseWrite("PUSHX", arg, REDIS_LIST, r)
  <2> HIDE DEF arg
  <2> QED BY <1>1, ListRefusedWrite DEF PromisedList!PushIfThere
<1>2. CASE /\ Writable(REDIS_LIST, r) /\ key' = Written(REDIS_LIST, new, r)
           /\ Answer("PUSHX", arg, rc, <<n, listTypeLength(new)>>)
  <2>1. /\ HasType(REDIS_LIST) /\ ListOK(old) /\ Few(old) /\ Items(old) = StoredItems
        /\ StoredItems # <<>>
    BY <1>2, ListFound DEF Writable
  <2>2. vs \in Seq(ListValues) /\ Len(vs) \in Nat /\ Len(vs) # 0
    BY ListArguments
  <2>3. same \in Seq(ListValues) /\ Len(same) = Len(vs)
    <3>1. vs[1] \in ListValues /\ DOMAIN vs = 1 .. Len(vs)
      BY <2>2
    <3> QED BY <2>2, <3>1
  <2> HIDE DEF old
  <2>4. n \in 0 .. Len(vs)
    BY <2>1, <2>2, AdmittedIs
  <2>5. some = SubSeq(same, 1, n)
    <3> HIDE DEF n
    <3>1. n \in Nat /\ n <= Len(vs) /\ DOMAIN vs = 1 .. Len(vs)
      BY <2>2, <2>4
    <3>2. \A i \in 1 .. n : same[i] = vs[1]
      BY <2>2, <3>1
    <3>3. SubSeq(same, 1, n) = [i \in 1 .. n |-> same[i]]
      <4> HIDE DEF same
      <4> QED BY <2>2, <2>3, <3>1
    <3> HIDE DEF same
    <3> QED BY <3>2, <3>3
  <2> DEFINE put == PromisedList!Put(some, where)
  <2>6. /\ Admits(same, n) /\ ListOK(new) /\ Items(new) = put
        /\ listTypeLength(new) = Len(StoredItems) + n
    <3>1. n = Admitted(old, Len(same)) /\ n \in 0 .. Len(vs)
      BY <2>3, <2>4
    <3> HIDE DEF n, same
    <3>2. some \in Seq(ListValues) /\ Len(some) = n
      <4>1. vs[1] \in ListValues /\ n \in Nat
        BY <2>2, <3>1
      <4> QED BY <4>1
    <3> HIDE DEF some, new, put
    <3>3. new = PushAll(old, some, where)
      BY DEF new
    <3>4. put = PromisedList!Put(some, where)
      BY DEF put
    <3> QED BY ONLY <2>1, <2>3, <3>1, <3>2, <3>3, <3>4, PushedSome
  <2>7. /\ key' = Written(REDIS_LIST, new, r)
        /\ Answer("PUSHX", arg, rc, <<n, listTypeLength(new)>>)
    BY <1>2
  <2> HIDE DEF n, new, put, arg, same
  <2>8. StoredItems' = put
    BY <2>1, <2>6, <2>7, WrittenItems, StoredItemsIs
  <2>9. Answer("PUSHX", arg, IF n < Len(same) THEN "LEN_LIMITED" ELSE "OK",
               <<n, Len(StoredItems) + n>>)
    BY <2>3, <2>6, <2>7
  <2>10. StoredItems' = PromisedList!Put(SubSeq(same, 1, n), where)
    BY <2>5, <2>8 DEF put
  <2> HIDE DEF some
  <2>11. PromisedList!Answering("PUSHX") /\ PromisedList!Asked(arg)
         /\ PromisedList!PushSome(where, same)
    BY <2>3, <2>6, <2>9, <2>10, PushPromised
  <2> QED BY <2>1, <2>11 DEF PromisedList!PushIfThere, same
<1> HIDE DEF arg, n, new
<1> QED BY <1>1, <1>2 DEF Pushx, arg, n, new

\* What the contract says of a removal that leaves t.
LEMMA RemovePromised ==
    ASSUME NEW count \in Int, NEW v \in ListValues, NEW s, s = StoredItems,
           s \in Seq(ListValues), s # <<>>,
           NEW F, F = Gone(s, v, count, IF count < 0 THEN -count ELSE count),
           NEW t, t = StoredItems', LeftOf(s, (1 .. Len(s)) \ F, t),
           PromisedList!Answers("OK", Cardinality(F))
    PROVE  PromisedList!RemoveValue(count, v)
<1> DEFINE equal == {i \in DOMAIN StoredItems : StoredItems[i] = v}
           Beyond(i) == IF count < 0 THEN {j \in equal : j > i} ELSE {j \in equal : j < i}
           gone == {i \in equal : count = 0 \/ PromisedList!Cardinality(Beyond(i))
                                               < PromisedList!Max({count, -count})}
           kept == DOMAIN StoredItems \ gone
<1>1. PromisedList!Max({count, -count}) = IF count < 0 THEN -count ELSE count
  <2>1. -count \in Int
    OBVIOUS
  <2>2. PromisedList!Max({count, -count}) = IF count > -count THEN count ELSE -count
    BY ONLY <2>1, LimitsAre, count \in Int
  <2> QED BY <2>2
<1>2. gone = F
  <2> DEFINE most == IF count < 0 THEN -count ELSE count
  <2>1. F = {i \in equal : count = 0 \/ Cardinality(Beyond(i)) < most}
    BY DEF Gone
  <2> HIDE DEF equal, Beyond, most
  <2>2. gone = {i \in equal : count = 0 \/ Cardinality(Beyond(i)) < most}
    BY <1>1, ListCount DEF most
  <2> QED BY <2>1, <2>2
<1>3. kept = (1 .. Len(s)) \ F
  <2> HIDE DEF gone
  <2> QED BY <1>2
<1> HIDE DEF kept, gone
<1>4. Len(t) = Cardinality(kept) /\ \A i \in kept : t[Cardinality({j \in kept : j <= i})] = s[i]
  BY <1>3 DEF LeftOf, Rank
<1>5. /\ Len(StoredItems') = PromisedList!Cardinality(kept)
      /\ \A i \in kept :
            StoredItems'[PromisedList!Cardinality({j \in kept : j <= i})] = StoredItems[i]
  BY <1>4, ListCount
<1>6. PromisedList!Answers("OK", PromisedList!Cardinality(gone))
  BY <1>2, ListCount
<1> QED BY <1>5, <1>6 DEF PromisedList!RemoveValue, kept, gone

\* LREM.
LEMMA LremStep ==
    ASSUME LInv, NEW count \in RemoveCounts, NEW v \in ListValues, NEW r \in Requests,
           Lrem(count, v, r)
    PROVE  PromisedList!Next
<1> DEFINE toremove == IF count < 0 THEN -count ELSE count
           direction == IF count < 0 THEN "HEAD" ELSE "TAIL"
           index == IF count < 0 THEN -1 ELSE 0
           first == listTypeIndex(key.val, index)
           size == Len(Items(key.val))
           done == Removals(key.val, first, v, toremove, direction)[size]
           arg == <<count, v>>
<1> SUFFICES PromisedList!Answering("LREM") /\ PromisedList!Asked(arg)
             /\ PromisedList!RemoveValue(count, v)
  BY DEF PromisedList!Next
<1>1. CASE RefuseWrite("LREM", arg, REDIS_LIST, r)
  <2> HIDE DEF arg
  <2> QED BY <1>1, ListRefusedWrite DEF PromisedList!RemoveValue
<1>2. CASE /\ Writable(REDIS_LIST, r) /\ key' = Rest(done.list, r)
           /\ Answer("LREM", arg, "OK", done.removed)
  <2> DEFINE s == Items(key.val)
  <2>1. /\ HasType(REDIS_LIST) /\ ListOK(key.val) /\ Few(key.val)
        /\ s = StoredItems /\ s # <<>> /\ s \in Seq(ListValues) /\ size \in Nat
    BY <1>2, ListFound DEF Writable
  <2>2. toremove \in Nat /\ count \in Int
    BY ListArguments
  <2>3. direction \in {"HEAD", "TAIL"} /\ index = IF direction = "HEAD" THEN -1 ELSE 0
    OBVIOUS
  <2>4. Asks(count, toremove, direction)
    BY DEF Asks
  <2>5. key' = Rest(done.list, r) /\ Answer("LREM", arg, "OK", done.removed)
    BY <1>2
  <2> HIDE DEF toremove, direction, index, arg
  <2>6. done \in RemovedBy(key.val, v, toremove, direction, size)
    <3>1. first = listTypeIndex(key.val, IF direction = "HEAD" THEN -1 ELSE 0)
      BY <2>3
    <3> HIDE DEF first, size
    <3> QED BY <2>1, <2>2, <2>3, <3>1, AllRemoved
  <2> HIDE DEF done
  <2>7. ListOK(done.list)
    BY <2>6 DEF RemovedBy, Removing
  <2>8. PICK m \in 0 .. size : /\ RemovedIn(done, s, v, toremove, direction, m)
                               /\ m # size => toremove # 0 /\ done.removed = toremove
    <3>1. size <= size
      BY <2>1
    <3> QED BY <2>6, <3>1 DEF RemovedBy
  <2> DEFINE F == Found(s, v, direction, m)
             t == Items(done.list)
  <2>9. /\ LeftOf(s, (1 .. Len(s)) \ F, t) /\ done.removed = Cardinality(F)
        /\ toremove # 0 => Cardinality(F) <= toremove
        /\ m # Len(s) => toremove # 0 /\ Cardinality(F) = toremove
    BY <2>8 DEF RemovedIn, Staying
  <2> HIDE DEF F, t, s
  <2>10. F = Gone(s, v, count, toremove)
    <3>1. F = Found(s, v, direction, m) /\ m \in 0 .. Len(s)
      BY DEF F, s
    <3> QED BY ONLY <2>1, <2>2, <2>4, <2>9, <3>1, FoundIsGone
  <2>11. StoredItems' = t
    BY <2>1, <2>5, <2>7, RestItems, StoredItemsIs DEF t
  <2>12. PromisedList!Answering("LREM") /\ PromisedList!Asked(arg)
         /\ PromisedList!Answers("OK", Cardinality(F))
    BY <2>5, <2>9, ListStep
  <2>13. F = Gone(s, v, count, IF count < 0 THEN -count ELSE count)
    BY <2>4, <2>10 DEF Asks
  <2>14. PromisedList!RemoveValue(count, v)
    BY <2>1, <2>2, <2>9, <2>11, <2>12, <2>13, RemovePromised
  <2> QED BY <2>12, <2>14
<1> HIDE DEF arg, done
<1> QED BY <1>1, <1>2 DEF Lrem, Removals, arg, done

\* Every command of lists answers as the contract says.
LEMMA ListCommandStep == ASSUME LInv, ListCommand PROVE PromisedList!Next
<1>1. ASSUME NEW r \in Requests, NEW where \in {"HEAD", "TAIL"}, NEW vs \in PushArgs,
             pushnGenericCommand(where, vs, r) \/ Pushx(where, vs, r)
      PROVE  PromisedList!Next
  BY <1>1, PushStep, PushxStep
<1>2. ASSUME NEW r \in Requests, NEW where \in {"HEAD", "TAIL"}, NEW count \in PopCounts,
             popnGenericCommand(where, count, r)
      PROVE  PromisedList!Next
  BY <1>2, PopStep
<1>3. ASSUME NEW r \in Requests, NEW where \in {"before", "after"}, NEW pivot \in ListValues,
             NEW v \in ListValues, Linsert(where, pivot, v, r)
      PROVE  PromisedList!Next
  BY <1>3, LinsertStep
<1>4. ASSUME NEW r \in Requests, NEW index \in IndexArgs, NEW v \in ListValues,
             Lset(index, v, r)
      PROVE  PromisedList!Next
  BY <1>4, LsetStep
<1>5. ASSUME NEW r \in Requests, NEW start \in IndexArgs, NEW end \in IndexArgs,
             Ltrim(start, end, r)
      PROVE  PromisedList!Next
  BY <1>5, LtrimStep
<1>6. ASSUME NEW r \in Requests, NEW count \in RemoveCounts, NEW v \in ListValues,
             Lrem(count, v, r)
      PROVE  PromisedList!Next
  BY <1>6, LremStep
<1>7. CASE LinsertMalformed
  BY <1>7, LinsertMalformedStep
<1>8. CASE Llen
  BY <1>8, LlenStep
<1>9. ASSUME NEW index \in IndexArgs, Lindex(index) PROVE PromisedList!Next
  BY <1>9, LindexStep
<1>10. ASSUME NEW start \in IndexArgs, NEW end \in IndexArgs, Lrange(start, end)
       PROVE  PromisedList!Next
  BY <1>10, LrangeStep
<1> QED BY <1>1, <1>2, <1>3, <1>4, <1>5, <1>6, <1>7, <1>8, <1>9, <1>10 DEF ListCommand

-----------------------------------------------------------------------------
(* The other steps.                                                        *)

\* A key that holds something else, if anything.
LEMMA NoList ==
    ASSUME NEW e, NEW type, type # REDIS_LIST, HoldsOnly(e, type)
    PROVE  ListEntryOK(e)
BY DEF HoldsOnly, ListEntryOK

\* Every step keeps the invariant.
LEMMA ListStepHolds == ASSUME IInv, LInv, [Next]_typedVars PROVE LInv'
<1>1. REDIS_HASH # REDIS_LIST /\ REDIS_SET # REDIS_LIST
  BY TypesAssumption
<1>2. CASE ListCommand
  BY <1>2, ListCommandKeeps
<1>3. CASE HashCommand
  <2>1. key' = key \/ HoldsOnly(key', REDIS_HASH)
    BY <1>3, HashKeeps DEF IInv, Keeps
  <2> QED BY <1>1, <2>1, NoList DEF LInv
<1>4. CASE SetCommand
  <2>1. key' = key \/ HoldsOnly(key', REDIS_SET)
    BY <1>4, SetTouches DEF SetsTouched
  <2> QED BY <1>1, <2>1, NoList DEF LInv
<1>5. CASE Goes \/ StoredOtherwise \/ OtherGoes \/ OtherStored
  <2> DEFINE string == [type |-> REDIS_STRING, val |-> 0, ver |-> 0, due |-> NoTTL]
  <2>1. HoldsOnly(Absent, REDIS_HASH) /\ HoldsOnly(string, REDIS_STRING)
    BY DEF HoldsOnly
  <2> HIDE DEF string
  <2>2. key' \in {key, Absent, string}
    BY <1>5 DEF Goes, StoredOtherwise, OtherGoes, OtherStored, string
  <2>3. REDIS_STRING # REDIS_LIST
    BY TypesAssumption
  <2> QED BY <1>1, <2>1, <2>2, <2>3, NoList DEF LInv
<1>6. CASE UNCHANGED typedVars
  BY <1>6 DEF typedVars, LInv
<1> QED BY <1>2, <1>3, <1>4, <1>5, <1>6 DEF Next

\* Whatever the commands of the three types do, a key that holds a list holds
\* a well-formed one with values.
THEOREM ListsStayOK == Spec => []LInv
<1>1. Init => LInv
  BY DEF Init, TypedInit, LInv, ListEntryOK
<1>2. IInv /\ LInv /\ [Next]_typedVars => LInv'
  BY ListStepHolds
<1> QED BY <1>1, <1>2, SetsStayOK, PTL DEF Spec

\* The commands of hashes and of sets.
LEMMA ListOthersStep ==
    ASSUME LInv, Keeps(REDIS_HASH, HashCommands) \/ SetsTouched
    PROVE  PromisedList!Next
<1>1. REDIS_HASH # REDIS_LIST /\ REDIS_SET # REDIS_LIST
  BY TypesAssumption
<1>2. ASSUME NEW type \in {REDIS_HASH, REDIS_SET}, HasType(type)
      PROVE  ItemsOf(key) = <<>>
  BY <1>1, <1>2 DEF HasType, ItemsOf, HoldsList
<1>3. ASSUME NEW type \in {REDIS_HASH, REDIS_SET}, HoldsOnly(key', type)
      PROVE  ItemsOf(key') = <<>>
  BY <1>1, <1>3 DEF HoldsOnly, ItemsOf, HoldsList
<1>4. /\ reply'.cmd \notin ListCommands \cup {"NONE"}
      /\ \/ ItemsOf(key') = ItemsOf(key)
         \/ reply'.cmd = "SINTERSTORE" /\ ItemsOf(key') = <<>>
  <2>1. CASE Keeps(REDIS_HASH, HashCommands)
    <3>1. reply'.cmd \notin ListCommands \cup {"NONE"}
      BY <2>1 DEF Keeps, ListCommands, HashCommands
    <3>2. key' = key \/ (HasType(REDIS_HASH) /\ HoldsOnly(key', REDIS_HASH))
      BY <2>1 DEF Keeps
    <3> QED BY <1>2, <1>3, <3>1, <3>2
  <2>2. CASE SetsTouched
    <3>1. reply'.cmd \notin ListCommands \cup {"NONE"}
      BY <2>2 DEF SetsTouched, SetCommands, ListCommands
    <3>2. \/ key' = key
          \/ /\ HasType(REDIS_SET) \/ reply'.cmd = "SINTERSTORE"
             /\ HoldsOnly(key', REDIS_SET)
      BY <2>2 DEF SetsTouched
    <3> QED BY <1>2, <1>3, <3>1, <3>2
  <2> QED BY <2>1, <2>2
<1>5. \/ StoredItems' = StoredItems
      \/ reply'.cmd = "SINTERSTORE" /\ StoredItems' = <<>>
  BY <1>4, StoredItemsIs
<1> QED BY <1>4, <1>5 DEF PromisedList!Next

\* Keys that go, and keys another type's command stores.
LEMMA ListGoingStep ==
    ASSUME Goes \/ StoredOtherwise \/ OtherGoes \/ OtherStored
    PROVE  PromisedList!Next
<1> DEFINE string == [type |-> REDIS_STRING, val |-> 0, ver |-> 0, due |-> NoTTL]
<1>1. ItemsOf(Absent) = <<>>
  BY DEF ItemsOf, HoldsList
<1>2. ItemsOf(string) = <<>>
  BY TypesAssumption DEF ItemsOf, HoldsList
<1> HIDE DEF string
<1>3. reply' = NoReply /\ key' \in {key, Absent, string}
  BY DEF Goes, StoredOtherwise, OtherGoes, OtherStored, string
<1>4. PromisedList!Answering("NONE")
  BY <1>3 DEF NoReply, PromisedList!Answering
<1>5. PromisedList!Elsewhere
  BY <1>1, <1>2, <1>3, StoredItemsIs DEF PromisedList!Elsewhere
<1> QED BY <1>4, <1>5 DEF PromisedList!Next

\* Every step is a step of the contract, or none.
LEMMA ListStepImplements ==
    ASSUME IInv, LInv, [Next]_typedVars
    PROVE  [PromisedList!Next]_(PromisedList!vars)
<1>1. CASE ListCommand
  BY <1>1, ListCommandStep
<1>2. CASE HashCommand
  BY <1>2, HashKeeps, ListOthersStep DEF IInv
<1>3. CASE SetCommand
  BY <1>3, SetTouches, ListOthersStep
<1>4. CASE Goes \/ StoredOtherwise \/ OtherGoes \/ OtherStored
  BY <1>4, ListGoingStep
<1>5. CASE UNCHANGED typedVars
  <2>1. key' = key /\ reply' = reply
    BY <1>5 DEF typedVars
  <2> QED BY <2>1, StoredItemsIs DEF PromisedList!vars
<1> QED BY <1>1, <1>2, <1>3, <1>4, <1>5 DEF Next

\* Lists behind both of their encodings implement ValueList: every command of
\* t_list.c answers and changes its values as a plain sequence would, whether a
\* ziplist becomes a linked list on the way, an insert or a delete makes the
\* fields of its neighbours grow, or LREM walks on from an entry it has deleted.
THEOREM ListsImplementValueList == Spec => ImplementsValueList
<1>1. Init => PromisedList!Init
  <2>1. Init => StoredItems = <<>> /\ reply.cmd = "NONE"
    BY StoredItemsIs DEF Init, TypedInit, NoReply, ItemsOf, HoldsList
  <2> QED BY <2>1 DEF PromisedList!Init
<1>2. IInv /\ LInv /\ [Next]_typedVars => [PromisedList!Next]_(PromisedList!vars)
  BY ListStepImplements
<1> QED BY <1>1, <1>2, SetsStayOK, ListsStayOK, PTL
        DEF Spec, ImplementsValueList, PromisedList!Spec

-----------------------------------------------------------------------------
(* What the runs check of lists.                                           *)

\* A stored list is what the invariant says of its entry.
LEMMA StoredListIs ==
    ASSUME LInv, IsList
    PROVE  ListOK(key.val) /\ Few(key.val) /\ Items(key.val) # <<>>
BY DEF LInv, ListEntryOK, IsList

\* Each entry of a stored ziplist has the length of the one before it, however
\* __ziplistCascadeUpdate (ziplist.c:377-434) made fields grow and the inserts
\* and deletes moved entries: the walks from the tail can rely on it.
THEOREM PrevLensStay == Spec => []PrevLensHold
<1>1. LInv => PrevLensHold
  BY StoredListIs, ListIs, ZiplistIs DEF PrevLensHold, IsStoredZiplist
<1> QED BY <1>1, ListsStayOK, PTL

\* The tail offset, the size and the length in the header of a stored ziplist
\* are those of its entries, whatever the cascade of ziplist.c:377-434 and
\* __ziplistDelete (ziplist.c:437-487) changed behind or before the tail.
THEOREM HeadersStay == Spec => []HeaderHolds
<1>1. LInv => HeaderHolds
  BY StoredListIs, ListIs, ZiplistIs DEF HeaderHolds, IsStoredZiplist
<1> QED BY <1>1, ListsStayOK, PTL

\* No list is stored empty, and none stays a ziplist with too many values or
\* with a string that is too long, whichever command of t_list.c made it grow
\* (t_list.c:17-22 looks at the strings only, listTypePush at the number).
THEOREM ListEncodingsFit == Spec => []EncodingFits
<1>1. ASSUME LInv, IsStoredZiplist
      PROVE  LET s == Items(key.val)
             IN  /\ Len(s) <= list_max_ziplist_entries
                 /\ \A p \in DOMAIN s :
                       s[p] \in Integers16 \/ PayloadSize[s[p]] <= list_max_ziplist_value
  <2> DEFINE s == Items(key.val)
  <2>1. s \in Seq(ShortValues) /\ Len(s) <= list_max_ziplist_entries
    BY <1>1, StoredListIs, ListIs DEF IsStoredZiplist, Few
  <2> HIDE DEF s
  <2>2. \A p \in DOMAIN s : s[p] \in ShortValues
    BY <2>1
  <2> QED BY <2>1, <2>2 DEF s, ShortValues
<1>2. LInv => EncodingFits
  BY <1>1, StoredListIs DEF EncodingFits
<1> QED BY <1>2, ListsStayOK, PTL

-----------------------------------------------------------------------------
(* The types of both keys.                                                 *)

\* A key holds a value of one of the types, or what StoredOtherwise put there.
HoldsOne(e, types) == e # Absent =>
    /\ e.type \in types \cup {REDIS_STRING}
    /\ e.type = REDIS_STRING => e.ver = 0 /\ e.due = NoTTL

KInv ==
    /\ HoldsOne(key, {REDIS_LIST, REDIS_HASH, REDIS_SET})
    /\ HoldsOne(other, {REDIS_SET})

\* A command stores values of its own type.
LEMMA OneOf ==
    ASSUME NEW e, NEW type, NEW types, type \in types, type # REDIS_STRING, HoldsOnly(e, type)
    PROVE  HoldsOne(e, types)
BY DEF HoldsOnly, HoldsOne

\* What the commands of sets do to the other key.
LEMMA OtherTouched ==
    ASSUME IInv, SetCommand
    PROVE  other' = other \/ HoldsOnly(other', REDIS_SET)
<1> DEFINE Fine == other' = other \/ HoldsOnly(other', REDIS_SET)
<1>1. /\ \A cmd, arg, rc, val : Answer(cmd, arg, rc, val) => Fine
      /\ \A cmd, arg, rc, val : Reply(cmd, arg, rc, val) => Fine
      /\ \A cmd, arg, rc : Refuse(cmd, arg, rc) => Fine
      /\ \A cmd, arg, type : RefuseRead(cmd, arg, type) => Fine
      /\ \A cmd, arg, type, r : RefuseWrite(cmd, arg, type, r) => Fine
  BY DEF Answer, Reply, Refuse, RefuseRead, RefuseWrite
<1>2. /\ HoldsOnly(Absent, REDIS_SET)
      /\ \A set, ver : HoldsOnly(Fresh(set, ver), REDIS_SET)
  BY DEF HoldsOnly, Fresh
<1>3. \A e, set : EntryOK(e) /\ e # Absent /\ e.type = REDIS_SET =>
                   HoldsOnly([e EXCEPT !.val = set], REDIS_SET)
  BY OtherReplaced
<1>4. EntryOK(key) /\ EntryOK(other)
  BY DEF IInv
<1>5. DOMAIN Holding = Names /\ Holding["key"] = key /\ Holding["other"] = other
      /\ "other" \in Names /\ Names = {"key", "other"}
  BY SetsAre DEF Names
<1> HIDE DEF Fine
<1>6. ASSUME NEW r, NEW e, saddCommand(e, r) \/ sremCommand(e, r) PROVE Fine
  BY <1>1, <1>6 DEF saddCommand, sremCommand
<1>7. ASSUME NEW r, spopCommand(r) PROVE Fine
  BY <1>1, <1>7 DEF spopCommand
<1>8. ASSUME NEW e, sismemberCommand(e) \/ scardCommand PROVE Fine
  BY <1>1, <1>8 DEF sismemberCommand, scardCommand
<1>9. ASSUME NEW ver, NEW from \in Names, NEW to \in Names, NEW e,
             smoveCommand(from, to, e, ver)
      PROVE  Fine
  <2> DEFINE dst == IF Holding[to] = Absent THEN Fresh(setTypeCreate(e), ver) ELSE Holding[to]
             into == [dst EXCEPT !.val = setTypeAdd(@, e)]
             out == MovedOut(from, e)
  <2>1. CASE \E rc : Refuse("SMOVE", <<from, to, e>>, rc)
    BY <1>1, <2>1
  <2>2. CASE /\ HoldsSet(from) /\ (Holding[to] = Absent \/ HoldsSet(to)) /\ from # to
             /\ Become([out EXCEPT ![to] = into])
    <3>1. DOMAIN out = Names /\ (from = "other" => HoldsOnly(out["other"], REDIS_SET))
      BY <1>2, <1>3, <1>4, <1>5, <2>2 DEF MovedOut, HoldsSet
    <3>2. to = "other" => HoldsOnly(into, REDIS_SET)
      <4> DEFINE set == setTypeCreate(e)
      <4>1. [Fresh(set, ver) EXCEPT !.val = setTypeAdd(@, e)] = Fresh(setTypeAdd(set, e), ver)
        BY DEF Fresh
      <4>2. CASE to = "other" /\ Holding[to] = Absent
        BY <1>2, <4>1, <4>2
      <4>3. CASE to = "other" /\ HoldsSet(to)
        BY <1>3, <1>4, <1>5, <4>3 DEF HoldsSet
      <4> QED BY <2>2, <4>2, <4>3
    <3> HIDE DEF into, out
    <3>3. other' = IF to = "other" THEN into ELSE out["other"]
      BY <1>5, <2>2, <3>1 DEF Become
    <3>4. to = "other" \/ from = "other"
      BY <1>5, <2>2
    <3> QED BY <3>1, <3>2, <3>3, <3>4 DEF Fine
  <2> QED BY <1>9, <2>1, <2>2 DEF smoveCommand
<1>10. ASSUME NEW ver, NEW dst \in Names, NEW names, sinterstoreCommand(dst, names, ver)
       PROVE  Fine
  <2>1. ASSUME NEW e, HoldsOnly(e, REDIS_SET), Become([Holding EXCEPT ![dst] = e])
        PROVE  Fine
    <3>1. other' = IF dst = "other" THEN e ELSE other
      BY <1>5, <2>1 DEF Become
    <3> QED BY <2>1, <3>1 DEF Fine
  <2> QED BY <1>1, <1>2, <1>10, <2>1 DEF sinterstoreCommand
<1>11. ASSUME NEW names, sinterCommand(names) PROVE Fine
  BY <1>1, <1>11 DEF sinterCommand
<1>12. Fine
  BY <1>5, <1>6, <1>7, <1>8, <1>9, <1>10, <1>11 DEF SetCommand
<1> QED BY <1>12 DEF Fine

\* Every step leaves both keys with values of the known types.
LEMMA KnownTypesStay == ASSUME IInv, KInv, [Next]_typedVars PROVE KInv'
<1> DEFINE types == {REDIS_LIST, REDIS_HASH, REDIS_SET}
<1>1. REDIS_LIST # REDIS_STRING /\ REDIS_HASH # REDIS_STRING /\ REDIS_SET # REDIS_STRING
  BY TypesAssumption, SetMarkAssumption
<1>2. \A e : \A type \in types : HoldsOnly(e, type) => HoldsOne(e, types)
  BY <1>1, OneOf
<1>3. \A e : HoldsOnly(e, REDIS_SET) => HoldsOne(e, {REDIS_SET})
  BY <1>1, OneOf
<1>4. HoldsOne(key, types) /\ HoldsOne(other, {REDIS_SET})
  BY DEF KInv
<1>5. HoldsOne(key', types) /\ HoldsOne(other', {REDIS_SET}) => KInv'
  BY DEF KInv
<1>6. CASE ListCommand \/ HashCommand
  <2>1. Keeps(REDIS_LIST, ListCommands) \/ Keeps(REDIS_HASH, HashCommands)
    BY <1>6, ListKeeps, HashKeeps DEF IInv
  <2> QED BY <2>1, <1>2, <1>4, <1>5 DEF Keeps
<1>7. CASE SetCommand
  BY <1>2, <1>3, <1>4, <1>5, <1>7, SetTouches, OtherTouched DEF SetsTouched
<1>8. CASE Goes \/ StoredOtherwise \/ OtherGoes \/ OtherStored
  <2> DEFINE string == [type |-> REDIS_STRING, val |-> 0, ver |-> 0, due |-> NoTTL]
  <2>1. \A any : HoldsOne(Absent, any) /\ HoldsOne(string, any)
    BY DEF HoldsOne
  <2> HIDE DEF string
  <2>2. key' \in {key, Absent, string} /\ other' \in {other, Absent, string}
    BY <1>8 DEF Goes, StoredOtherwise, OtherGoes, OtherStored, string
  <2> QED BY <1>4, <1>5, <2>1, <2>2
<1>9. CASE UNCHANGED typedVars
  BY <1>9 DEF typedVars, KInv
<1> QED BY <1>6, <1>7, <1>8, <1>9 DEF Next

\* An entry whose parts have their types.
LEMMA EntryTyped ==
    ASSUME NEW e, NEW types, e = [type |-> e.type, val |-> e.val, ver |-> e.ver, due |-> e.due],
           e.type \in types, e.ver \in 0 .. VersionMax, e.due \in Nat \cup {NoTTL}
    PROVE  e \in TypedEntry(types, {e.val})
BY DEF TypedEntry

\* The key of this module has its type.
LEMMA KeyTyped ==
    ASSUME IInv, HInv, LInv, KInv, key # Absent
    PROVE  key \in TypedEntry({REDIS_STRING, REDIS_LIST, REDIS_HASH, REDIS_SET}, {key.val})
<1>1. key.type \in {REDIS_STRING, REDIS_LIST, REDIS_HASH, REDIS_SET}
  BY DEF KInv, HoldsOne
<1>2. key = [type |-> key.type, val |-> key.val, ver |-> key.ver, due |-> key.due]
  BY DEF LInv, ListEntryOK
<1>3. 0 \in 0 .. VersionMax
  BY RequestAssumption
<1>4. key.ver \in 0 .. VersionMax /\ key.due \in Nat \cup {NoTTL}
  BY <1>1, <1>3 DEF KInv, HoldsOne, IInv, EntryOK, HInv, HashEntryOK, LInv, ListEntryOK
<1> QED BY <1>1, <1>2, <1>4, EntryTyped

\* So has the other one.
LEMMA OtherTyped ==
    ASSUME IInv, KInv, other # Absent
    PROVE  other \in TypedEntry({REDIS_STRING, REDIS_SET}, {other.val})
<1>1. other.type \in {REDIS_STRING, REDIS_SET}
  BY DEF KInv, HoldsOne
<1>2. other = [type |-> other.type, val |-> other.val, ver |-> other.ver, due |-> other.due]
  BY DEF IInv, EntryOK
<1>3. 0 \in 0 .. VersionMax
  BY RequestAssumption
<1>4. other.ver \in 0 .. VersionMax /\ other.due \in Nat \cup {NoTTL}
  BY <1>1, <1>3 DEF KInv, HoldsOne, IInv, EntryOK
<1> QED BY <1>1, <1>2, <1>4, EntryTyped

\* Both keys, and what they hold in each encoding, have their types whatever
\* the commands of t_list.c, t_hash.c and t_set.c make of them: a prevlen field
\* takes one byte or five, and the free bytes behind a value fit their byte.
THEOREM ContainersTyped == Spec => []TypeOK
<1>1. Init => KInv
  BY DEF Init, TypedInit, KInv, HoldsOne
<1>2. IInv /\ KInv /\ [Next]_typedVars => KInv'
  BY KnownTypesStay
<1>3. IInv /\ HInv /\ LInv /\ KInv => TypeOK
  <2> SUFFICES ASSUME IInv, HInv, LInv, KInv PROVE TypeOK
    OBVIOUS
  <2>1. IsList => Items(key.val) \in Seq(ListValues)
    BY StoredListIs, ListIs
  <2>2. IsStoredZiplist => \A p \in 1 .. Len(key.val.ptr.entries) :
           key.val.ptr.entries[p].prevsize \in {1, 5}
    <3> SUFFICES ASSUME IsStoredZiplist, NEW p \in 1 .. Len(key.val.ptr.entries)
                 PROVE  key.val.ptr.entries[p].prevsize \in {1, 5}
      OBVIOUS
    <3>1. ZiplistOK(key.val.ptr)
      BY StoredListIs, ListIs DEF IsStoredZiplist
    <3>2. key.val.ptr.entries \in Seq(ListEntries)
      BY <3>1 DEF ZiplistOK, WellButAt
    <3>3. key.val.ptr.entries[p] \in ListEntries
      BY <3>2
    <3> QED BY <3>3 DEF ListEntries
  <2>3. IsHash => Map(key.val) \in [FieldsOf(key.val) -> HashValues]
    BY StoredHashIs, HashIs
  <2>4. IsStoredZipmap => \A i \in DOMAIN key.val.ptr.entries :
           key.val.ptr.entries[i].free \in 0 .. ZIPMAP_VALUE_MAX_FREE - 1
    <3> SUFFICES ASSUME IsStoredZipmap, NEW i \in DOMAIN key.val.ptr.entries
                 PROVE  key.val.ptr.entries[i].free \in 0 .. ZIPMAP_VALUE_MAX_FREE - 1
      OBVIOUS
    <3>1. ZipmapOK(key.val.ptr)
      BY StoredHashIs, HashIs DEF IsStoredZipmap
    <3>2. key.val.ptr.entries[i] \in ZipmapEntries
      BY <3>1 DEF ZipmapOK
    <3> QED BY <3>2 DEF ZipmapEntries
  <2>5. ASSUME NEW n \in DOMAIN Holding
        PROVE  /\ HoldsSet(n) => MembersOf(Holding[n].val) \subseteq SetMembers
               /\ StoredIntset(n) => Holding[n].val.ptr \in Intsets
    BY StoredSetIs, SetIs DEF StoredIntset
  <2> QED BY <2>1, <2>2, <2>3, <2>4, <2>5, KeyTyped, OtherTyped DEF TypeOK
<1> QED BY <1>1, <1>2, <1>3, SetsStayOK, HashesStayOK, ListsStayOK, PTL DEF Spec

=============================================================================
