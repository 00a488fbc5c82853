-------------------------- MODULE KeyspaceContract --------------------------
(***************************************************************************)
(* Keyspace implements CacheContract.  The entries the caller has are the  *)
(* stored ones that are not stale, each with its deadline.                 *)
(***************************************************************************)
EXTENDS MCKeyspace

\* The mark of an absent entry is not one of the entries the caller has.
ASSUME VisibleMarkAssumption ==
    Absent \notin [type : {REDIS_STRING, REDIS_SET},
                   val : Int \cup Texts \cup SUBSET Elems,
                   ver : 0 .. VersionMax, due : Int \cup {NoTTL}]

VisibleCache ==
    [k \in Keys |->
        IF ~Stored(db, k) \/ Stale(db, k) THEN Absent
        ELSE [type |-> db.dict[k].type, val |-> db.dict[k].val,
              ver |-> db.dict[k].ver, due |-> db.expires[k]]]

Contract == INSTANCE CacheContract
                WITH cache <- VisibleCache, epoch <- db.logiclock

\* Lazy and active collection and the logical clear cannot be told from an
\* instant clear and instant expiry: every command answers as the contract
\* says, touches its own key only, and a refused one changes nothing.
ImplementsContract == Contract!Spec

=============================================================================
