------------------------------- MODULE Hashes -------------------------------
(***************************************************************************)
(* The hashes of t_hash.c: one key that may hold a hash, as a zipmap while *)
(* it has few fields and short values, and as a dict from then on.  A dict *)
(* is a function here.  A hash is [enc, ptr].                              *)
(***************************************************************************)
EXTENDS Zipmap, TypedKey

CONSTANTS
    REDIS_HASH,              \* the type of hash objects
    Fields,
    HashValues,              \* strings, those that read as an integer as that
    HashIntegers,            \* the integers of a long long among them
    Int32Min, Int32Max,      \* range of an int32_t
    hash_max_zipmap_entries,
    hash_max_zipmap_value,
    hash_max_size,
    SetArgs,                 \* arguments: sequences of <<field, value>>
    Increments               \* arguments: integers

\* The limit of a zipmap's values (64) is above the digits of any long long,
\* which is why the length of an integer need not be looked at.
ASSUME HashesAssumption ==
    /\ hash_max_size \in Nat \ {0}
    /\ hash_max_zipmap_entries \in Nat /\ hash_max_zipmap_value \in Nat
    /\ ZIPMAP_BIGLEN \in Nat
    /\ Int32Min \in Int /\ Int32Max \in Int /\ 0 \in Int32Min .. Int32Max
    /\ Int32Min .. Int32Max \subseteq HashIntegers
    /\ HashIntegers \subseteq Int /\ HashIntegers \subseteq HashValues
    /\ \A s \in Fields \cup HashValues : StringSize[s] \in Nat
    /\ \A n \in HashIntegers : StringSize[n] <= hash_max_zipmap_value
    /\ SetArgs \subseteq Seq(Fields \X HashValues) \ {<<>>}
    /\ Increments \subseteq Int

ZIPMAP == "ZIPMAP"
HT == "HT"

\* What a hash may be.
ZipmapEntries ==
    [field : Fields, val : HashValues, free : 0 .. ZIPMAP_VALUE_MAX_FREE - 1]
Zipmaps == [len : Nat, bytes : Nat, entries : Seq(ZipmapEntries)]
HashObjects ==
    [enc : {ZIPMAP}, ptr : Zipmaps] \cup
    [enc : {HT}, ptr : UNION {[S -> HashValues] : S \in SUBSET Fields}]

ASSUME HashMarkAssumption == Absent \notin TypedEntry({REDIS_HASH}, HashObjects)

createHashObject == [enc |-> ZIPMAP, ptr |-> zipmapNew]
IsZipmap(hash) == hash.enc = ZIPMAP

\* A number cut to an int32_t: the sum of HINCRBY, whose terms may be longer.
HashInt32(n) == ((n - Int32Min) % (Int32Max - Int32Min + 1)) + Int32Min

-----------------------------------------------------------------------------
(* Either encoding.                                                        *)

\* convertToRealHash walks the zipmap; dictAdd keeps the first of two values.
FieldsOf(hash) == IF IsZipmap(hash) THEN {e.field : e \in ToSet(hash.ptr.entries)}
                  ELSE DOMAIN hash.ptr
hashTypeGet(hash, f) == IF IsZipmap(hash) THEN zipmapGet(hash.ptr, f) ELSE hash.ptr[f]
hashTypeExists(hash, f) == IF IsZipmap(hash) THEN zipmapExists(hash.ptr, f)
                           ELSE f \in DOMAIN hash.ptr
Map(hash) == [f \in FieldsOf(hash) |-> hashTypeGet(hash, f)]
convertToRealHash(hash) == [enc |-> HT, ptr |-> Map(hash)]

\* Only strings that are no numbers can be too long.
hashTypeTryConversion(hash, strings) ==
    IF IsZipmap(hash) /\ \E s \in strings : StringSize[s] > hash_max_zipmap_value
    THEN convertToRealHash(hash) ELSE hash

SetInDict(dict, f, v) == [g \in DOMAIN dict \cup {f} |-> IF g = f THEN v ELSE dict[g]]

\* Mutant: a zipmap that is full already may take one more field.
SetConvertingLate(hash, f, v) ==
    LET zm == zipmapSet(hash.ptr, f, v)
    IN  IF ~IsZipmap(hash) THEN [hash EXCEPT !.ptr = SetInDict(@, f, v)]
        ELSE IF zipmapLen(zm) > hash_max_zipmap_entries + 1
        THEN convertToRealHash([hash EXCEPT !.ptr = zm])
        ELSE [hash EXCEPT !.ptr = Counted(zm)]

\* Mutant: the dict is made from the zipmap without the new field.
SetConvertingFirst(hash, f, v) ==
    LET zm == zipmapSet(hash.ptr, f, v)
    IN  IF ~IsZipmap(hash) THEN [hash EXCEPT !.ptr = SetInDict(@, f, v)]
        ELSE IF zipmapLen(zm) > hash_max_zipmap_entries THEN convertToRealHash(hash)
        ELSE [hash EXCEPT !.ptr = Counted(zm)]

hashTypeSet(hash, f, v) ==
    LET zm == zipmapSet(hash.ptr, f, v)
    IN  IF ~IsZipmap(hash) THEN [hash EXCEPT !.ptr = SetInDict(@, f, v)]
        ELSE IF zipmapLen(zm) > hash_max_zipmap_entries
        THEN convertToRealHash([hash EXCEPT !.ptr = zm])
        ELSE [hash EXCEPT !.ptr = Counted(zm)]

hashTypeDelete(hash, f) ==
    [hash EXCEPT !.ptr = IF IsZipmap(hash) THEN zipmapDel(@, f)
                         ELSE Restrict(@, DOMAIN @ \ {f})]

hashTypeLength(hash) ==
    IF IsZipmap(hash) THEN zipmapLen(hash.ptr) ELSE Cardinality(DOMAIN hash.ptr)

\* The hash after its length was asked for.
Measured(hash) ==
    IF IsZipmap(hash) THEN [hash EXCEPT !.ptr = Counted(@)] ELSE hash

-----------------------------------------------------------------------------
(* Writes.                                                                 *)

\* hashTypeLookupWriteOrCreate: refusals, and the hash a command works on.
RefuseHash(cmd, arg, r) ==
    \/ ~HasType(REDIS_HASH) /\ Refuse(cmd, arg, "WRONG_TYPE")
    \/ HasType(REDIS_HASH) /\ ~VersionOK(r) /\ Refuse(cmd, arg, "VERSION_ERROR")
Ready(r) == HasType(REDIS_HASH) /\ VersionOK(r)
Working == IF key = Absent THEN createHashObject ELSE key.val

\* Leaves version and deadline alone.
Kept(hash) == [key EXCEPT !.val = hash]

\* A field too many is put in and taken out again.
Hset(f, v, r) ==
    LET old == hashTypeTryConversion(Working, {f, v})
        new == hashTypeSet(old, f, v)
        Outcome(rc, after, val) == key' = after /\ Answer("HSET", <<f, v>>, rc, val)
    IN  \/ RefuseHash("HSET", <<f, v>>, r)
        \/ /\ Ready(r) /\ hashTypeExists(old, f)
           /\ Outcome("ALREADY_EXIST", Written(REDIS_HASH, new, r), 0)
        \/ /\ Ready(r) /\ ~hashTypeExists(old, f)
           /\ hashTypeLength(new) > hash_max_size
           /\ Outcome("LEN_LIMITED", Kept(hashTypeDelete(Measured(new), f)), 0)
        \/ /\ Ready(r) /\ ~hashTypeExists(old, f)
           /\ hashTypeLength(new) <= hash_max_size
           /\ Outcome("OK", Written(REDIS_HASH, Measured(new), r), 0)

\* No limit on the number of fields is looked at.
Hsetnx(f, v, r) ==
    LET old == hashTypeTryConversion(Working, {f, v})
    IN  \/ RefuseHash("HSETNX", <<f, v>>, r)
        \/ /\ Ready(r) /\ hashTypeExists(old, f)
           /\ key' = Kept(old)
           /\ Answer("HSETNX", <<f, v>>, "ALREADY_EXIST", 0)
        \/ /\ Ready(r) /\ ~hashTypeExists(old, f)
           /\ key' = Written(REDIS_HASH, hashTypeSet(old, f, v), r)
           /\ Answer("HSETNX", <<f, v>>, "OK", 0)

SetAll(hash, pairs) ==
    LET after[n \in 0 .. Len(pairs)] ==
            IF n = 0 THEN hash ELSE hashTypeSet(after[n - 1], pairs[n][1], pairs[n][2])
    IN  after[Len(pairs)]

\* The pairs of an HMSET on a full hash that only change a field, up to the
\* first one that does not.
Changing(hash, pairs) ==
    LET new == {i \in DOMAIN pairs : ~hashTypeExists(hash, pairs[i][1])}
    IN  SubSeq(pairs, 1, IF new = {} THEN Len(pairs) ELSE Min(new) - 1)

\* A hash that is not full takes all pairs.  A full one is looked into with
\* dictFind, which the process survives only if it is a dict.
Hmset(pairs, r) ==
    LET strings == UNION {{pairs[i][1], pairs[i][2]} : i \in DOMAIN pairs}
        old == Measured(hashTypeTryConversion(Working, strings))
        full == hashTypeLength(old) >= hash_max_size
        done == Changing(old, pairs)
        Partly(rc) == Answer("HMSET", pairs, rc, Len(done))
    IN  \/ RefuseHash("HMSET", pairs, r)
        \/ /\ Ready(r) /\ ~full
           /\ key' = Written(REDIS_HASH, SetAll(old, pairs), r)
           /\ Answer("HMSET", pairs, "OK", Len(pairs))
        \/ /\ Ready(r) /\ full /\ ~IsZipmap(old)
           /\ key' = IF done = <<>> THEN Kept(old) ELSE Written(REDIS_HASH, SetAll(old, done), r)
           /\ Partly(IF done = pairs THEN "OK" ELSE "LEN_LIMITED")

\* An odd number of arguments is refused before the key is touched.
HmsetMalformed == Refuse("HMSET", <<>>, "WRONG_NUMBER_ARGUMENTS")

Hincrby(f, incr, r) ==
    LET there == hashTypeExists(Working, f)
        value == HashInt32((IF there THEN hashTypeGet(Working, f) ELSE 0) + incr)
        Refused(rc) == key' = Kept(Measured(key.val)) /\ Answer("HINCRBY", <<f, incr>>, rc, 0)
    IN  \/ RefuseHash("HINCRBY", <<f, incr>>, r)
        \/ /\ Ready(r) /\ there
           /\ hashTypeGet(Working, f) \notin HashIntegers
           /\ Refuse("HINCRBY", <<f, incr>>, "IS_NOT_INTEGER")
        \/ /\ Ready(r) /\ ~there
           /\ hashTypeLength(Working) + 1 > hash_max_size
           /\ Refused("LEN_LIMITED")
        \/ /\ Ready(r)
           /\ there => hashTypeGet(Working, f) \in HashIntegers
           /\ there \/ hashTypeLength(Working) + 1 <= hash_max_size
           /\ key' = Written(REDIS_HASH, hashTypeSet(Working, f, value), r)
           /\ Answer("HINCRBY", <<f, incr>>, "OK", value)

\* An increment that is no number is refused before the key is touched.
HincrbyMalformed == Refuse("HINCRBY", <<>>, "IS_NOT_INTEGER")

\* With its last field the key goes.
Hdel(f, r) ==
    LET less == Measured(hashTypeDelete(key.val, f))
    IN  \/ RefuseWrite("HDEL", f, REDIS_HASH, r)
        \/ /\ Writable(REDIS_HASH, r) /\ ~hashTypeExists(key.val, f)
           /\ Refuse("HDEL", f, "NOT_EXIST")
        \/ /\ Writable(REDIS_HASH, r) /\ hashTypeExists(key.val, f)
           /\ key' = IF hashTypeLength(less) = 0 THEN Absent ELSE Written(REDIS_HASH, less, r)
           /\ Answer("HDEL", f, "OK", 0)

-----------------------------------------------------------------------------
(* Queries.                                                                *)

Hget(f) ==
    \/ RefuseRead("HGET", f, REDIS_HASH)
    \/ /\ Readable(REDIS_HASH) /\ ~hashTypeExists(key.val, f)
       /\ Refuse("HGET", f, "NOT_EXIST")
    \/ /\ Readable(REDIS_HASH) /\ hashTypeExists(key.val, f)
       /\ Reply("HGET", f, "OK", hashTypeGet(key.val, f))

\* A missing field has an empty place in the reply.
Hmget(fs) ==
    \/ RefuseRead("HMGET", fs, REDIS_HASH)
    \/ /\ Readable(REDIS_HASH)
       /\ Reply("HMGET", fs, "OK",
                [i \in DOMAIN fs |-> IF hashTypeExists(key.val, fs[i])
                                     THEN <<hashTypeGet(key.val, fs[i])>> ELSE <<>>])

Hexists(f) ==
    \/ RefuseRead("HEXISTS", f, REDIS_HASH)
    \/ /\ Readable(REDIS_HASH)
       /\ Reply("HEXISTS", f, IF hashTypeExists(key.val, f) THEN "OK" ELSE "NOT_EXIST", 0)

Hlen ==
    \/ RefuseRead("HLEN", <<>>, REDIS_HASH)
    \/ /\ Readable(REDIS_HASH)
       /\ key' = Kept(Measured(key.val))
       /\ Answer("HLEN", <<>>, "OK", hashTypeLength(key.val))

\* HGETALL, HKEYS and HVALS: the fields in the order of a zipmap, or in some
\* order of a dict.
genericHgetallCommand ==
    LET order == IF IsZipmap(key.val)
                 THEN [i \in DOMAIN key.val.ptr.entries |-> key.val.ptr.entries[i].field]
                 ELSE SetToSeq(DOMAIN key.val.ptr)
    IN  \/ RefuseRead("HGETALL", <<>>, REDIS_HASH)
        \/ /\ Readable(REDIS_HASH)
           /\ Reply("HGETALL", <<>>, "OK",
                    [i \in DOMAIN order |-> <<order[i], hashTypeGet(key.val, order[i])>>])

-----------------------------------------------------------------------------

HashCommand ==
    \/ \E r \in Requests :
          \/ \E f \in Fields, v \in HashValues : Hset(f, v, r) \/ Hsetnx(f, v, r)
          \/ \E pairs \in SetArgs : Hmset(pairs, r)
          \/ \E f \in Fields, incr \in Increments : Hincrby(f, incr, r)
          \/ \E f \in Fields : Hdel(f, r)
    \/ HmsetMalformed
    \/ HincrbyMalformed
    \/ \E f \in Fields : Hget(f) \/ Hexists(f)
    \/ \E f, g \in Fields : Hmget(<<f, g>>)
    \/ Hlen
    \/ genericHgetallCommand

-----------------------------------------------------------------------------
(* Properties.                                                             *)

IsHash == key # Absent /\ key.type = REDIS_HASH
IsStoredZipmap == IsHash /\ IsZipmap(key.val)

\* However often values shrink and grow within the bytes left free behind
\* them, and their lengths change from one byte to five and back, every walk
\* over the entries ends at the end of the block.
WalksEnd == IsStoredZipmap => WalkEndsAtEnd(key.val.ptr)

\* The one byte that counts the fields stops at its limit and starts again
\* after deletes; while it counts, HLEN and the conversion can rely on it.
FieldsCounted == IsStoredZipmap => CountsFields(key.val.ptr)

\* A zipmap has few fields and short values, and no hash is stored empty,
\* whatever command made it grow.
HashEncodingFits ==
    /\ IsHash => FieldsOf(key.val) # {}
    /\ IsStoredZipmap =>
          /\ Cardinality(FieldsOf(key.val)) <= hash_max_zipmap_entries
          /\ \A f \in FieldsOf(key.val) :
                StringSize[Map(key.val)[f]] <= hash_max_zipmap_value

=============================================================================
