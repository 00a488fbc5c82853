----------------------------- MODULE Containers -----------------------------
(***************************************************************************)
(* A key that may hold a list, a hash or a set, with the commands of the   *)
(* three types: each refuses the others' values and leaves them alone.     *)
(* The other key, which only the commands of sets know, is there for them. *)
(***************************************************************************)
EXTENDS Lists, Hashes, Sets

ASSUME TypesAssumption ==
    /\ REDIS_SET \notin {REDIS_LIST, REDIS_HASH}
    /\ REDIS_HASH \notin {REDIS_LIST, REDIS_STRING}
    /\ REDIS_LIST # REDIS_STRING

Init == TypedInit

Next ==
    \/ ListCommand
    \/ HashCommand
    \/ SetCommand
    \/ Goes
    \/ StoredOtherwise
    \/ OtherGoes
    \/ OtherStored

Spec == Init /\ [][Next]_typedVars

\* Every part of the key has its type; a prevlen field has one of its two
\* sizes, and the free bytes behind a value fit into their one byte.
TypeOK ==
    /\ key # Absent =>
          key \in TypedEntry({REDIS_STRING, REDIS_LIST, REDIS_HASH, REDIS_SET}, {key.val})
    /\ other # Absent => other \in TypedEntry({REDIS_STRING, REDIS_SET}, {other.val})
    /\ IsList => Items(key.val) \in Seq(ListValues)
    /\ IsStoredZiplist => \A p \in 1 .. Len(key.val.ptr.entries) :
          key.val.ptr.entries[p].prevsize \in {1, 5}
    /\ IsHash => Map(key.val) \in [FieldsOf(key.val) -> HashValues]
    /\ IsStoredZipmap => \A i \in DOMAIN key.val.ptr.entries :
          key.val.ptr.entries[i].free \in 0 .. ZIPMAP_VALUE_MAX_FREE - 1
    /\ \A n \in DOMAIN Holding :
          /\ HoldsSet(n) => MembersOf(Holding[n].val) \subseteq SetMembers
          /\ StoredIntset(n) => Holding[n].val.ptr \in Intsets

ListCommands == {"PUSH", "PUSHX", "LINSERT", "LSET", "POP", "LTRIM", "LREM",
                 "LLEN", "LINDEX", "LRANGE"}
HashCommands == {"HSET", "HSETNX", "HMSET", "HINCRBY", "HDEL", "HGET", "HMGET",
                 "HEXISTS", "HLEN", "HGETALL"}
SetCommands == {"SADD", "SREM", "SPOP", "SISMEMBER", "SCARD", "SMOVE", "SINTER",
                "SINTERSTORE"}

-----------------------------------------------------------------------------
(* What the three types promise.                                           *)

StoredItems == IF IsList THEN Items(key.val) ELSE <<>>

PromisedList == INSTANCE ValueList
    WITH items <- StoredItems,
         Values <- ListValues, MaxLength <- list_max_size, Pushed <- PushArgs,
         Positions <- IndexArgs, Mine <- ListCommands, Stores <- {"SINTERSTORE"}

\* A list that changes its encoding under its commands, with entries whose
\* sizes depend on their neighbours, answers as one sequence of values.
ImplementsValueList == PromisedList!Spec

StoredMap == IF IsHash THEN Map(key.val) ELSE <<>>

PromisedHash == INSTANCE FieldMap
    WITH map <- StoredMap,
         Names <- Fields, Values <- HashValues, Numbers <- HashIntegers,
         Narrow <- HashInt32, MaxFields <- hash_max_size,
         Pairs <- SetArgs,
         Mine <- HashCommands, Stores <- {"SINTERSTORE"}

\* A hash that becomes a dict in the middle of a command, and whose fields a
\* zipmap moves and counts by one byte, answers as one map.
ImplementsFieldMap == PromisedHash!Spec

StoredMembers ==
    [n \in DOMAIN Holding |-> IF HoldsSet(n) THEN MembersOf(Holding[n].val) ELSE {}]

PromisedSets == INSTANCE MemberSets
    WITH set <- StoredMembers,
         Elements <- SetMembers, MaxSize <- set_max_size, Lists <- Intersections,
         Mine <- SetCommands

\* Whatever the encodings of two sets are and become, a member that moves
\* leaves the one and is in the other, and intersections are exact.
ImplementsMemberSets == PromisedSets!Spec

=============================================================================
