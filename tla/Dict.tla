-------------------------------- MODULE Dict --------------------------------
(***************************************************************************)
(* The hash table of dict.c, as the keyspace uses it (db->dict and         *)
(* db->expires): two tables, entries moving from the first to the second a *)
(* bucket at a time while the dict is in use, and serverCron shrinking a   *)
(* sparse dict and moving entries of an idle one.                          *)
(*                                                                         *)
(* A bucket is the set of its chain's entries: the order of a chain, which *)
(* only iteration can see, is left out.  No code makes a safe iterator, so *)
(* d->iterators is always 0 and _dictRehashStep always takes its step; no  *)
(* code calls dictDisableResize, so dict_can_resize is always 1.           *)
(***************************************************************************)
EXTENDS Integers, FiniteSets

CONSTANTS
    Keys, Vals,
    None,                  \* a NULL entry
    Hash,                  \* key -> d->type->hashFunction(key)
    DICT_HT_INITIAL_SIZE,
    REDIS_HT_MINFILL,
    MaxDoublings           \* bound: no table is doubled more often than this

VARIABLES
    dict,   \* the dict: ht0, ht1, rehashidx
    reply   \* what the last call returned

vars == <<dict, reply>>

Entry == [key : Keys, val : Vals]

\* A dictht: NULL table and zeros, or used entries in size buckets.
TableOfSize(size) == [size : {size}, used : Nat, table : [0 .. size - 1 -> SUBSET Entry]]

\* The sizes _dictNextPower can return.
Capacities == {DICT_HT_INITIAL_SIZE * 2 ^ i : i \in 0 .. MaxDoublings}
IsNextPower(c, size) == c >= size /\ \A p \in Capacities : p >= size => c <= p

ASSUME DictAssumption ==
    /\ IsFiniteSet(Keys)
    /\ None \notin Vals
    /\ Hash \in [Keys -> Nat]
    /\ DICT_HT_INITIAL_SIZE \in Nat \ {0}
    /\ REDIS_HT_MINFILL \in Nat
    /\ MaxDoublings \in Nat
\* The bound on table sizes is never reached.
ASSUME CapacityAssumption ==
    /\ \A c \in Capacities : c \in Nat \ {0}
    /\ \A size \in 0 .. 2 * Cardinality(Keys) + DICT_HT_INITIAL_SIZE :
          \E c \in Capacities : IsNextPower(c, size)

-----------------------------------------------------------------------------
(* One table.                                                              *)

_dictReset == [size |-> 0, used |-> 0, table |-> [i \in {} |-> {}]]

NewTable(size) == [size |-> size, used |-> 0, table |-> [i \in 0 .. size - 1 |-> {}]]

\* dictHashKey(d, k) & sizemask, for a size that is a power of two.
Index(t, k) == Hash[k] % t.size

Contents(t) == UNION {t.table[i] : i \in 0 .. t.size - 1}

\* The entries a walk along the key's chain compares equal.
Chain(t, k) == {e \in t.table[Index(t, k)] : e.key = k}

Insert(t, e) ==
    [t EXCEPT !.used = @ + 1,
              !.table = [t.table EXCEPT ![Index(t, e.key)] = @ \cup {e}]]

\* Unlinking an entry, and writing its value field.
Unlink(t, e) ==
    [t EXCEPT !.used = @ - 1,
              !.table = [t.table EXCEPT ![Index(t, e.key)] = @ \ {e}]]
SetVal(t, e, v) ==
    [t EXCEPT !.table =
        [t.table EXCEPT ![Index(t, e.key)] = (@ \ {e}) \cup {[key |-> e.key, val |-> v]}]]

-----------------------------------------------------------------------------
(* Rehashing and resizing.                                                 *)

dictIsRehashing(d) == d.rehashidx # -1
dictSlots(d) == d.ht0.size + d.ht1.size
dictSize(d) == d.ht0.used + d.ht1.used

\* The first bucket from rehashidx on that is not empty.
NextBucket(d) ==
    CHOOSE i \in d.rehashidx .. d.ht0.size - 1 :
        /\ d.ht0.table[i] # {}
        /\ \A j \in d.rehashidx .. i - 1 : d.ht0.table[j] = {}

\* Mutant: one entry is counted for a whole bucket.
MoveBucketCountingOne(d, i) ==
    LET moving == d.ht0.table[i]
    IN  [ht0 |-> [d.ht0 EXCEPT !.used = @ - 1, !.table = [d.ht0.table EXCEPT ![i] = {}]],
         ht1 |-> [size |-> d.ht1.size, used |-> d.ht1.used + 1,
                  table |-> [j \in 0 .. d.ht1.size - 1 |->
                      d.ht1.table[j] \cup {e \in moving : Index(d.ht1, e.key) = j}]],
         rehashidx |-> i + 1]

MoveBucket(d, i) ==
    LET moving == d.ht0.table[i]
        n == Cardinality(moving)
    IN  [ht0 |-> [d.ht0 EXCEPT !.used = @ - n, !.table = [d.ht0.table EXCEPT ![i] = {}]],
         ht1 |-> [size |-> d.ht1.size, used |-> d.ht1.used + n,
                  table |-> [j \in 0 .. d.ht1.size - 1 |->
                      d.ht1.table[j] \cup {e \in moving : Index(d.ht1, e.key) = j}]],
         rehashidx |-> i + 1]

\* Mutant: the emptied first table is kept.
dictRehashKeeping(d) ==
    IF ~dictIsRehashing(d) \/ d.ht0.used = 0 THEN d ELSE MoveBucket(d, NextBucket(d))

\* dictRehash(d, 1): move a bucket, or give up the first table once it is
\* empty.
dictRehash(d) ==
    IF ~dictIsRehashing(d) THEN d
    ELSE IF d.ht0.used = 0
         THEN [ht0 |-> d.ht1, ht1 |-> _dictReset, rehashidx |-> -1]
    ELSE MoveBucket(d, NextBucket(d))

_dictNextPower(size) == CHOOSE c \in Capacities : IsNextPower(c, size)

dictExpand(d, size) ==
    IF dictIsRehashing(d) \/ d.ht0.used > size THEN d
    ELSE IF d.ht0.size = 0
         THEN [d EXCEPT !.ht0 = NewTable(_dictNextPower(size))]
    ELSE [d EXCEPT !.ht1 = NewTable(_dictNextPower(size)), !.rehashidx = 0]

_dictExpandIfNeeded(d) ==
    IF dictIsRehashing(d) THEN d
    ELSE IF d.ht0.size = 0 THEN dictExpand(d, DICT_HT_INITIAL_SIZE)
    ELSE IF d.ht0.used >= d.ht0.size THEN dictExpand(d, d.ht0.used * 2)
    ELSE d

htNeedsResize(d) ==
    /\ dictSize(d) # 0
    /\ dictSlots(d) > DICT_HT_INITIAL_SIZE
    /\ (dictSize(d) * 100) \div dictSlots(d) < REDIS_HT_MINFILL

dictResize(d) ==
    dictExpand(d, IF d.ht0.used < DICT_HT_INITIAL_SIZE
                  THEN DICT_HT_INITIAL_SIZE ELSE d.ht0.used)

-----------------------------------------------------------------------------
(* The calls.                                                              *)

\* Every call on a dict with a table first takes a rehashing step.
Stepped(d) == IF d.ht0.size = 0 THEN d ELSE dictRehash(d)

\* Mutants: a lookup that stops after the first table, a check for an
\* existing key that looks at the table to be filled only.
InSecondNever(d, k) == FALSE
HasInFilled(d, k) ==
    IF dictIsRehashing(d) THEN Chain(d.ht1, k) # {}
    ELSE d.ht0.size # 0 /\ Chain(d.ht0, k) # {}

\* The key's entry in one of the tables; the second counts only while
\* rehashing.
InFirst(d, k) == d.ht0.size # 0 /\ Chain(d.ht0, k) # {}
InSecond(d, k) == dictIsRehashing(d) /\ Chain(d.ht1, k) # {}
Has(d, k) == InFirst(d, k) \/ InSecond(d, k)
EntryOf(d, k) ==
    CHOOSE e \in IF InFirst(d, k) THEN Chain(d.ht0, k) ELSE Chain(d.ht1, k) : TRUE

Returns(call, k, ret) == reply' = [call |-> call, key |-> k, ret |-> ret]

\* What dictAdd does to the dict before it looks for the key.
Prepared(d) == _dictExpandIfNeeded(Stepped(d))

\* Mutants: the first table is filled while it is emptied, and an index of
\* the first table is used in the second.
AddedToFirst(d, e) == [d EXCEPT !.ht0 = Insert(@, e)]
AddedAtFirstIndex(d, e) ==
    IF dictIsRehashing(d)
    THEN [d EXCEPT !.ht1.used = @ + 1,
                   !.ht1.table = [d.ht1.table EXCEPT
                       ![Index(d.ht0, e.key) % d.ht1.size] = @ \cup {e}]]
    ELSE [d EXCEPT !.ht0 = Insert(@, e)]

\* A new entry goes to the table that is being filled.
Added(d, e) ==
    IF dictIsRehashing(d) THEN [d EXCEPT !.ht1 = Insert(@, e)]
    ELSE [d EXCEPT !.ht0 = Insert(@, e)]

dictAdd(k, v) ==
    LET d == Prepared(dict)
    IN  \/ /\ ~Has(d, k)
           /\ dict' = Added(d, [key |-> k, val |-> v])
           /\ Returns("dictAdd", k, TRUE)
        \/ /\ Has(d, k)
           /\ dict' = d
           /\ Returns("dictAdd", k, FALSE)

Overwritten(d, k, v) ==
    IF InFirst(d, k) THEN [d EXCEPT !.ht0 = SetVal(@, EntryOf(d, k), v)]
    ELSE [d EXCEPT !.ht1 = SetVal(@, EntryOf(d, k), v)]

\* dictReplace and dictSuperReplace: dictAdd, and when that fails dictFind,
\* which takes a rehashing step of its own, to set the value.
dictReplace(k, v) ==
    LET d == Prepared(dict)
    IN  \/ /\ ~Has(d, k)
           /\ dict' = Added(d, [key |-> k, val |-> v])
           /\ Returns("dictReplace", k, TRUE)
        \/ /\ Has(d, k)
           /\ dict' = Overwritten(Stepped(d), k, v)
           /\ Returns("dictReplace", k, FALSE)

\* Mutant: the loop over the tables counts down in the one it reached last.
RemovedCountingSecond(d, k) ==
    IF InFirst(d, k)
    THEN [d EXCEPT !.ht0 = [Unlink(@, EntryOf(d, k)) EXCEPT !.used = @ + 1],
                   !.ht1.used = @ - 1]
    ELSE [d EXCEPT !.ht1 = Unlink(@, EntryOf(d, k))]

Removed(d, k) ==
    IF InFirst(d, k) THEN [d EXCEPT !.ht0 = Unlink(@, EntryOf(d, k))]
    ELSE [d EXCEPT !.ht1 = Unlink(@, EntryOf(d, k))]

dictDelete(k) ==
    LET d == Stepped(dict)
    IN  \/ /\ ~Has(d, k)
           /\ dict' = d
           /\ Returns("dictDelete", k, FALSE)
        \/ /\ Has(d, k)
           /\ dict' = Removed(d, k)
           /\ Returns("dictDelete", k, TRUE)

dictFind(k) ==
    LET d == Stepped(dict)
    IN  /\ dict' = d
        /\ Returns("dictFind", k, IF Has(d, k) THEN EntryOf(d, k).val ELSE None)

\* A random bucket among those of both tables, then a random entry of it.
dictGetRandomKey ==
    \/ /\ dictSize(dict) = 0
       /\ UNCHANGED dict
       /\ Returns("dictGetRandomKey", None, None)
    \/ /\ dictSize(dict) # 0
       /\ LET d == Stepped(dict)
          IN  /\ dict' = d
              /\ \E e \in Contents(d.ht0) \cup Contents(d.ht1) :
                    Returns("dictGetRandomKey", e.key, e.val)

dictEmpty ==
    /\ dict' = [ht0 |-> _dictReset, ht1 |-> _dictReset, rehashidx |-> -1]
    /\ UNCHANGED reply

\* serverCron's two visits to the dict.  incrementallyRehash takes steps for
\* a millisecond; nothing runs between them, and each is an action here.
tryResizeHashTables ==
    /\ htNeedsResize(dict)
    /\ dict' = dictResize(dict)
    /\ UNCHANGED reply

incrementallyRehash ==
    /\ dictIsRehashing(dict)
    /\ dict' = dictRehash(dict)
    /\ UNCHANGED reply

Init ==
    /\ dict = [ht0 |-> _dictReset, ht1 |-> _dictReset, rehashidx |-> -1]
    /\ reply = [call |-> "dictCreate", key |-> None, ret |-> None]

Next ==
    \/ \E k \in Keys, v \in Vals : dictAdd(k, v) \/ dictReplace(k, v)
    \/ \E k \in Keys : dictDelete(k) \/ dictFind(k)
    \/ dictGetRandomKey
    \/ dictEmpty
    \/ tryResizeHashTables
    \/ incrementallyRehash

Spec == Init /\ [][Next]_vars

\* serverCron comes round again and again.
FairSpec == Spec /\ WF_vars(tryResizeHashTables) /\ WF_vars(incrementallyRehash)

-----------------------------------------------------------------------------
(* Properties.                                                             *)

IsTable(t) == t.size \in Nat /\ t \in TableOfSize(t.size)

\* Two tables of entries, neither used count below zero (it is unsigned),
\* and rehashidx -1 or an index up to the size of the first table.
TypeOK ==
    /\ IsTable(dict.ht0) /\ IsTable(dict.ht1)
    /\ dict.rehashidx \in -1 .. dict.ht0.size

InPlace(t) == \A i \in 0 .. t.size - 1 : \A e \in t.table[i] : Index(t, e.key) = i

\* Every entry is in the bucket its key hashes to, in either table, whatever
\* size the table had when the entry came to it.
EntriesInPlace == InPlace(dict.ht0) /\ InPlace(dict.ht1)

\* A key has one entry, in one of the tables: rehashing neither copies an
\* entry nor lets dictAdd miss one on the other side.
NoDuplicates ==
    /\ \A e, f \in Contents(dict.ht0) \cup Contents(dict.ht1) : e.key = f.key => e = f
    /\ Contents(dict.ht0) \cap Contents(dict.ht1) = {}

\* The used counts tell when rehashing is over and when to resize.
UsedCounts ==
    /\ dict.ht0.used = Cardinality(Contents(dict.ht0))
    /\ dict.ht1.used = Cardinality(Contents(dict.ht1))

\* "rehashidx can't overflow as we are sure there are more elements" (204):
\* what is left in the first table is at rehashidx or after it, and without
\* rehashing there is no second table.
RehashIndexSane ==
    IF dictIsRehashing(dict)
    THEN /\ dict.ht0.size > 0 /\ dict.ht1.size > 0
         /\ \A i \in 0 .. dict.rehashidx - 1 : dict.ht0.table[i] = {}
    ELSE dict.ht1 = _dictReset

\* Rehashing comes to an end, though calls go on all the time.
RehashingEnds == dictIsRehashing(dict) ~> ~dictIsRehashing(dict)

-----------------------------------------------------------------------------

\* The map a dict stands for.
MapOf(d) ==
    [k \in Keys |->
        IF \E e \in Contents(d.ht0) \cup Contents(d.ht1) : e.key = k
        THEN (CHOOSE e \in Contents(d.ht0) \cup Contents(d.ht1) : e.key = k).val
        ELSE None]

Map == INSTANCE DictMap WITH map <- MapOf(dict)

\* A dict answers as the map would, at every point of a rehashing.
ImplementsMap == Map!Spec

=============================================================================
