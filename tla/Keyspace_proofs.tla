-------------------------- MODULE Keyspace_proofs --------------------------
(***************************************************************************)
(* TypeOK, DeadlinesHaveKeys, StaleCovered and SetsWithinBounds are        *)
(* invariants of Keyspace, and ClearedStaysCleared holds of its steps, for *)
(* every set of keys and every value of the bounds.                        *)
(*                                                                         *)
(* None of the first three is inductive by itself: need_remove_key stays a *)
(* natural number because it covers the stale keys, and a deadline keeps   *)
(* its key because every command deletes the two together.  Their proof is *)
(* about DbOK, their conjunction for one database record: the functions of *)
(* db.c preserve it one by one, and every action composes some of them.    *)
(*                                                                         *)
(* The other two are about entries.  A step is a move: each entry goes,    *)
(* stays, or gives way to one of the current clock within bounds (Moves).  *)
(* That needs EntriesOK: no entry is ahead of the clock, so that what a    *)
(* lookup has not collected is Fresh.  Off and Leaves say what a function  *)
(* does to its own key; the proofs below about the database use them.      *)
(*                                                                         *)
(* Keyspace implements CacheContract.  The mapping hides the entries       *)
(* stored before the last clear, so a lookup that collects one is a        *)
(* stutter, and a lookup that collects an overdue one drops what the       *)
(* contract calls lapsed (LookupSeen).  Every command then changes the     *)
(* record of its own key at most (Off), which makes it a Store, a Refuse,  *)
(* a Lookup or an Inspect; the collections are a Vanish.  That the clear   *)
(* hides every entry needs EntriesOK again.                                *)
(*                                                                         *)
(* The versions of the store do what clients use them for: whatever the    *)
(* other clients, the cron and the clears do in between, a write made with *)
(* a version the store still has overwrites the value the client read.     *)
(* VersionsCountWrites is inductive together with the types of what the    *)
(* clients hold and the invariant of the store.  A step either is a write  *)
(* of the key, which moves the version by one and is counted (Counts), or  *)
(* leaves the key's entry alone, or takes it away and is noticed.          *)
(***************************************************************************)
EXTENDS KeyspaceContract, OptimisticClients, FiniteSetTheorems, TLAPS

DbType ==
    [dict : [Keys -> Entry \cup {Absent}],
     expires : [Keys -> Int \cup {NoTTL}],
     logiclock : 1 .. ClockMax,
     needRemove : 0 .. Cardinality(Keys)]

DbOK(d) ==
    /\ d \in DbType
    /\ \A k \in Keys : d.expires[k] # NoTTL => Stored(d, k)
    /\ Cardinality(StaleKeys(d)) <= d.needRemove

\* What may be stored under a type.
HasValue(type, val) ==
    \/ type = REDIS_STRING /\ val \in Int \cup Texts
    \/ type = REDIS_SET /\ val \in SUBSET Elems

-----------------------------------------------------------------------------
(* Counting stale keys.                                                    *)

\* The keys are finitely many, and so are the stale ones of a database.
LEMMA KeysCounted ==
    /\ Cardinality(Keys) \in Nat
    /\ \A S \in SUBSET Keys : IsFiniteSet(S) /\ Cardinality(S) \in 0 .. Cardinality(Keys)
BY KeysAssumption, FS_Subset, FS_CardinalityType

LEMMA StaleFinite ==
    ASSUME NEW d
    PROVE  IsFiniteSet(StaleKeys(d)) /\ Cardinality(StaleKeys(d)) \in Nat
BY KeysAssumption, FS_Subset, FS_CardinalityType DEF StaleKeys

\* A counter of keys that wraps does not look like one: what the range of
\* need_remove_key in TypeOK rests on.
LEMMA WrapShows ==
    ASSUME NEW n \in 0 .. Cardinality(Keys), NEW m \in 0 .. Cardinality(Keys)
    PROVE  SizeMinus(n, m) \in 0 .. Cardinality(Keys) <=> m <= n
BY KeysCounted, NumberAssumption DEF SizeMinus

\* A step that makes no key stale and leaves need_remove_key alone keeps
\* the stale keys covered.
LEMMA FewerStale ==
    ASSUME NEW d, NEW e,
           StaleKeys(e) \subseteq StaleKeys(d),
           Cardinality(StaleKeys(d)) <= d.needRemove,
           e.needRemove = d.needRemove, d.needRemove \in Nat
    PROVE  Cardinality(StaleKeys(e)) <= e.needRemove
<1>1. Cardinality(StaleKeys(e)) <= Cardinality(StaleKeys(d))
  BY StaleFinite, FS_Subset
<1> QED BY <1>1, StaleFinite

\* dbDelete's part of collecting keys: what is left is as it was.
LEMMA CollectOK ==
    ASSUME NEW d, DbOK(d), NEW S \in SUBSET Keys
    PROVE  /\ DbOK(Collect(d, S))
           /\ \A k \in Keys : Stored(Collect(d, S), k) <=> Stored(d, k) /\ k \notin S
           /\ \A k \in Keys \ S : Collect(d, S).dict[k] = d.dict[k]
<1> DEFINE e == Collect(d, S)
           hit == StaleKeys(d) \cap S
<1>1. /\ e.dict = [k \in Keys |-> IF k \in S THEN Absent ELSE d.dict[k]]
      /\ e.expires = [k \in Keys |-> IF k \in S THEN NoTTL ELSE d.expires[k]]
      /\ e.logiclock = d.logiclock
      /\ e.needRemove = SizeMinus(d.needRemove, Cardinality(hit))
  BY DEF DbOK, DbType, Collect
<1>2. /\ IsFiniteSet(hit) /\ Cardinality(hit) \in Nat
      /\ Cardinality(hit) <= Cardinality(StaleKeys(d))
      /\ Cardinality(StaleKeys(d) \ S) = Cardinality(StaleKeys(d)) - Cardinality(hit)
  BY StaleFinite, FS_Subset, FS_CardinalityType, FS_Difference
<1>3. e.needRemove = d.needRemove - Cardinality(hit) /\ e.needRemove \in 0 .. Cardinality(Keys)
  BY <1>1, <1>2, KeysCounted, StaleFinite DEF SizeMinus, DbOK, DbType
<1>4. StaleKeys(e) = StaleKeys(d) \ S
  BY <1>1 DEF StaleKeys, Stale, Stored
<1>5. Cardinality(StaleKeys(e)) <= e.needRemove
  BY <1>2, <1>3, <1>4, StaleFinite DEF DbOK, DbType
<1>6. e \in DbType
  <2>1. e.dict \in [Keys -> Entry \cup {Absent}] /\ e.expires \in [Keys -> Int \cup {NoTTL}]
    BY <1>1 DEF DbOK, DbType
  <2> QED BY <1>1, <1>3, <2>1 DEF DbOK, DbType, Collect
<1>7. \A k \in Keys : e.expires[k] # NoTTL => Stored(e, k)
  BY <1>1 DEF DbOK, Stored
<1> HIDE DEF e
<1> QED BY <1>1, <1>5, <1>6, <1>7 DEF DbOK, Stored, e

\* A lookup's check.
LEMMA ExpireIfNeededOK ==
    ASSUME NEW d, DbOK(d), NEW k \in Keys, NEW t
    PROVE  DbOK(expireIfNeeded(d, k, t))
BY CollectOK DEF expireIfNeeded

-----------------------------------------------------------------------------
(* Writing an entry and its deadline.                                      *)

\* A value under its type makes an entry.
LEMMA EntryMade ==
    ASSUME NEW type, NEW val, HasValue(type, val),
           NEW ver \in 0 .. VersionMax, NEW clk \in 1 .. ClockMax
    PROVE  [type |-> type, val |-> val, ver |-> ver, clk |-> clk] \in Entry
BY DEF HasValue, Entry, StringEntry, SetEntry

\* A stored entry is an Entry, and its value is one of its type.
LEMMA EntryStored ==
    ASSUME NEW d, DbOK(d), NEW k \in Keys, Stored(d, k)
    PROVE  /\ d.dict[k] \in Entry
           /\ d.dict[k].ver \in 0 .. VersionMax
           /\ d.dict[k].clk \in 1 .. ClockMax
           /\ HasValue(d.dict[k].type, d.dict[k].val)
<1>1. d.dict[k] \in Entry
  BY DEF DbOK, DbType, Stored
<1> QED BY <1>1 DEF Entry, StringEntry, SetEntry, HasValue

\* Putting an entry that is not stale, or is stamped like the one it takes
\* the place of, makes no key stale.
LEMMA PutOK ==
    ASSUME NEW d, DbOK(d), NEW k \in Keys, NEW x \in Entry,
           x.clk = d.logiclock \/ (Stored(d, k) /\ x.clk = d.dict[k].clk)
    PROVE  LET e == [d EXCEPT !.dict = [@ EXCEPT ![k] = x]]
           IN  DbOK(e) /\ Stored(e, k) /\ e.expires = d.expires
<1> DEFINE e == [d EXCEPT !.dict = [@ EXCEPT ![k] = x]]
<1>1. /\ e.dict = [d.dict EXCEPT ![k] = x] /\ e.expires = d.expires
      /\ e.logiclock = d.logiclock /\ e.needRemove = d.needRemove
  BY DEF DbOK, DbType
<1>2. e.dict \in [Keys -> Entry \cup {Absent}] /\ e.dict[k] = x /\ x # Absent
  BY <1>1, MarkAssumption DEF DbOK, DbType
<1>3. e \in DbType
  BY <1>1, <1>2 DEF DbOK, DbType
<1>4. \A j \in Keys : e.expires[j] # NoTTL => Stored(e, j)
  BY <1>1, <1>2 DEF DbOK, DbType, Stored
<1>5. StaleKeys(e) \subseteq StaleKeys(d)
  <2> SUFFICES ASSUME NEW j \in Keys, Stale(e, j)
               PROVE  Stale(d, j)
    BY DEF StaleKeys
  <2>1. CASE j = k
    BY <1>1, <1>2, <2>1 DEF Stale, Stored, DbOK, DbType
  <2>2. CASE j # k
    BY <1>1, <2>2 DEF Stale, Stored, DbOK, DbType
  <2> QED BY <2>1, <2>2
<1>6. Cardinality(StaleKeys(e)) <= e.needRemove
  BY <1>1, <1>5, FewerStale DEF DbOK, DbType
<1> QED BY <1>1, <1>2, <1>3, <1>4, <1>6 DEF DbOK, Stored

\* dbSuperReplace and dbReplace store the key.
LEMMA ReplaceOK ==
    ASSUME NEW d, DbOK(d), NEW k \in Keys,
           NEW type, NEW val, HasValue(type, val), NEW ver \in 0 .. VersionMax
    PROVE  /\ DbOK(dbSuperReplace(d, k, type, val, ver))
           /\ Stored(dbSuperReplace(d, k, type, val, ver), k)
           /\ DbOK(dbReplace(d, k, type, val, ver))
           /\ Stored(dbReplace(d, k, type, val, ver), k)
<1>1. d.logiclock \in 1 .. ClockMax
  BY DEF DbOK, DbType
<1>2. DbOK(dbAdd(d, k, type, val, ver)) /\ Stored(dbAdd(d, k, type, val, ver), k)
  BY <1>1, EntryMade, PutOK DEF dbAdd
<1>3. CASE ~Stored(d, k)
  BY <1>2, <1>3 DEF dbSuperReplace, dbReplace
<1>4. CASE Stored(d, k)
  <2> DEFINE Ent(w) == [type |-> type, val |-> val, ver |-> w, clk |-> d.dict[k].clk]
  <2>1. \A w \in 0 .. VersionMax : Ent(w) \in Entry /\ Ent(w).clk = d.dict[k].clk
    BY <1>4, EntryStored, EntryMade
  <2>2. d.dict[k].ver \in 0 .. VersionMax
    BY <1>4, EntryStored
  <2> QED BY <1>4, <2>1, <2>2, PutOK DEF dbSuperReplace, dbReplace
<1> QED BY <1>3, <1>4

\* Setting a stored key's deadline, or removing any key's.
LEMMA DeadlineOK ==
    ASSUME NEW d, DbOK(d), NEW k \in Keys
    PROVE  /\ \A when \in Int : Stored(d, k) => DbOK(setExpire(d, k, when))
           /\ DbOK(removeExpire(d, k))
<1>1. ASSUME NEW when \in Int \cup {NoTTL}, when # NoTTL => Stored(d, k)
      PROVE  DbOK([d EXCEPT !.expires = [@ EXCEPT ![k] = when]])
  <2> DEFINE e == [d EXCEPT !.expires = [@ EXCEPT ![k] = when]]
  <2>1. /\ e.expires = [d.expires EXCEPT ![k] = when] /\ e.dict = d.dict
        /\ e.logiclock = d.logiclock /\ e.needRemove = d.needRemove
    BY DEF DbOK, DbType
  <2>2. e \in DbType
    <3>1. e.expires \in [Keys -> Int \cup {NoTTL}]
      BY <2>1 DEF DbOK, DbType
    <3> QED BY <2>1, <3>1 DEF DbOK, DbType
  <2>3. \A j \in Keys : e.expires[j] # NoTTL => Stored(e, j)
    BY <1>1, <2>1 DEF DbOK, DbType, Stored
  <2>4. StaleKeys(e) = StaleKeys(d)
    BY <2>1 DEF StaleKeys, Stale, Stored
  <2> QED BY <2>1, <2>2, <2>3, <2>4 DEF DbOK
<1> QED BY <1>1 DEF setExpire, removeExpire

\* The expire time a write command carries.
LEMMA ExpireOrNotOK ==
    ASSUME NEW d, DbOK(d), NEW k \in Keys, NEW et \in Int
    PROVE  DbOK(EXPIRE_OR_NOT(d, k, et))
BY DeadlineOK DEF EXPIRE_OR_NOT, setXExpire, removeXExpire

\* Deleting keys without a look at need_remove_key (DEL, emptyDb, the
\* emptied set): it then covers more than it has to.
LEMMA DropOK ==
    ASSUME NEW d, DbOK(d), NEW S \in SUBSET Keys, NEW e \in DbType,
           \A k \in Keys : e.dict[k] = IF k \in S THEN Absent ELSE d.dict[k],
           \A k \in Keys : e.expires[k] = IF k \in S THEN NoTTL ELSE d.expires[k],
           e.logiclock = d.logiclock, e.needRemove = d.needRemove
    PROVE  DbOK(e)
<1>1. StaleKeys(e) \subseteq StaleKeys(d)
  BY DEF StaleKeys, Stale, Stored
<1>2. Cardinality(StaleKeys(e)) <= e.needRemove
  BY <1>1, FewerStale DEF DbOK, DbType
<1> QED BY <1>2 DEF DbOK, Stored

\* dbDelete.
LEMMA DeleteOK ==
    ASSUME NEW d, DbOK(d), NEW k \in Keys
    PROVE  DbOK(dbDelete(d, k))
<1> DEFINE e == dbDelete(d, k)
<1>1. /\ e.dict = [d.dict EXCEPT ![k] = Absent]
      /\ e.expires = [d.expires EXCEPT ![k] = NoTTL]
      /\ e.logiclock = d.logiclock /\ e.needRemove = d.needRemove
  BY DEF dbDelete, DbOK, DbType
<1>2. e.dict \in [Keys -> Entry \cup {Absent}] /\ e.expires \in [Keys -> Int \cup {NoTTL}]
  BY <1>1 DEF DbOK, DbType
<1>3. e \in DbType
  BY <1>1, <1>2 DEF dbDelete, DbOK, DbType
<1>4. /\ \A j \in Keys : e.dict[j] = IF j \in {k} THEN Absent ELSE d.dict[j]
      /\ \A j \in Keys : e.expires[j] = IF j \in {k} THEN NoTTL ELSE d.expires[j]
  BY <1>1 DEF DbOK, DbType
<1>5. {k} \in SUBSET Keys
  OBVIOUS
<1> HIDE DEF e
<1>6. DbOK(e)
  BY <1>1, <1>3, <1>4, <1>5, DropOK
<1> QED BY <1>6 DEF e

-----------------------------------------------------------------------------
(* The actions.                                                            *)

IInv == DbOK(db) /\ now \in Nat

\* A request's fields have their types.
LEMMA RequestType ==
    ASSUME NEW r \in Request
    PROVE  r.ver \in 0 .. VersionMax /\ r.et \in Int
BY ArgumentAssumption DEF Request

\* The version a writer stores.
LEMMA WriteVersionType ==
    ASSUME NEW d, DbOK(d), NEW k \in Keys, NEW r \in Request
    PROVE  WriteVersion(d, k, r) \in 0 .. VersionMax
<1>1. LookupVersion(d, k) \in 0 .. VersionMax
  BY EntryStored, NumberAssumption DEF LookupVersion
<1> QED BY <1>1, NumberAssumption DEF WriteVersion, NextVersion

\* SET and its family.
LEMMA SetGenericOK ==
    ASSUME IInv, NEW cmd, NEW k \in Keys, NEW nx, NEW v \in Values,
           NEW expire, expire = Nil \/ expire \in ExpireArgs, NEW r \in Request,
           setGenericCommand(cmd, k, nx, v, expire, r)
    PROVE  IInv'
<1> DEFINE d == expireIfNeeded(db, k, now)
           put == dbSuperReplace(d, k, REDIS_STRING, v, WriteVersion(d, k, r))
           timed == IF expire # Nil THEN setExpire(put, k, expire)
                    ELSE IF r.et = 0 THEN removeXExpire(put, k) ELSE put
<1>1. DbOK(d)
  BY ExpireIfNeededOK DEF IInv
<1>2. DbOK(put) /\ Stored(put, k)
  BY <1>1, WriteVersionType, ReplaceOK, ArgumentAssumption DEF HasValue
<1>3. expire # NotInteger => DbOK(timed)
  BY <1>2, DeadlineOK, ArgumentAssumption DEF removeXExpire
<1>4. \/ UNCHANGED db
      \/ db' = d
      \/ expire # NotInteger /\ db' = timed
  BY DEF setGenericCommand
<1> HIDE DEF d, put, timed
<1> QED BY <1>1, <1>3, <1>4 DEF IInv, setGenericCommand

\* GETSET.
LEMMA GetsetOK ==
    ASSUME IInv, NEW k \in Keys, NEW v \in Values, NEW r \in Request, Getset(k, v, r)
    PROVE  IInv'
<1> DEFINE d == expireIfNeeded(db, k, now)
           put == removeExpire(dbReplace(d, k, REDIS_STRING, v, r.ver), k)
<1>1. DbOK(d)
  BY ExpireIfNeededOK DEF IInv
<1>2. DbOK(put)
  BY <1>1, RequestType, ReplaceOK, DeadlineOK, ArgumentAssumption DEF HasValue
<1>3. db' \in {d, put} /\ now' = now
  BY DEF Getset
<1> HIDE DEF d, put
<1> QED BY <1>1, <1>2, <1>3 DEF IInv

\* INCR and its family.
LEMMA IncrDecrOK ==
    ASSUME IInv, NEW k \in Keys, NEW init \in IncrArgs \cup {0}, NEW incr \in IncrArgs,
           NEW r \in Request, incrDecrCommand(k, init, incr, r)
    PROVE  IInv'
<1> DEFINE d == expireIfNeeded(db, k, now)
           old == IF Stored(d, k) THEN d.dict[k].val ELSE init
           put == dbSuperReplace(d, k, REDIS_STRING, Int32(old + incr),
                                 WriteVersion(d, k, r))
<1>1. DbOK(d)
  BY ExpireIfNeededOK DEF IInv
<1>2. ASSUME NotInteger \notin {init, incr}, HasType(d, k, REDIS_STRING), old \notin Texts
      PROVE  DbOK(EXPIRE_OR_NOT(put, k, r.et))
  <2>1. old \in Int /\ incr \in Int
    BY <1>1, <1>2, EntryStored, ArgumentAssumption, MarkAssumption DEF HasType, HasValue
  <2>2. Int32(old + incr) \in Int
    BY <2>1, NumberAssumption DEF Int32
  <2>3. HasValue(REDIS_STRING, Int32(old + incr))
    BY <2>2 DEF HasValue
  <2>4. DbOK(put)
    BY <1>1, <2>3, WriteVersionType, ReplaceOK
  <2> QED BY <2>4, RequestType, ExpireOrNotOK
<1>3. \/ UNCHANGED db
      \/ db' = d
      \/ /\ NotInteger \notin {init, incr} /\ HasType(d, k, REDIS_STRING)
         /\ old \notin Texts /\ db' = EXPIRE_OR_NOT(put, k, r.et)
  BY DEF incrDecrCommand
<1>4. now' = now
  BY DEF incrDecrCommand
<1> HIDE DEF d, old, put
<1> QED BY <1>1, <1>2, <1>3, <1>4 DEF IInv

\* SADD.
LEMMA SaddOK ==
    ASSUME IInv, NEW k \in Keys, NEW e \in Elems, NEW r \in Request, Sadd(k, e, r)
    PROVE  IInv'
<1> DEFINE d == expireIfNeeded(db, k, now)
           old == IF Stored(d, k) THEN d.dict[k].val ELSE {}
           put == dbSuperReplace(d, k, REDIS_SET, old \cup {e}, WriteVersion(d, k, r))
<1>1. DbOK(d)
  BY ExpireIfNeededOK DEF IInv
<1>2. ASSUME HasType(d, k, REDIS_SET)
      PROVE  DbOK(EXPIRE_OR_NOT(put, k, r.et))
  <2>1. HasValue(REDIS_SET, old \cup {e})
    BY <1>1, <1>2, EntryStored, MarkAssumption DEF HasType, HasValue
  <2>2. DbOK(put)
    BY <1>1, <2>1, WriteVersionType, ReplaceOK
  <2> QED BY <2>2, RequestType, ExpireOrNotOK
<1>3. \/ db' = d
      \/ HasType(d, k, REDIS_SET) /\ db' = EXPIRE_OR_NOT(put, k, r.et)
  BY DEF Sadd
<1>4. now' = now
  BY DEF Sadd
<1> HIDE DEF d, old, put
<1> QED BY <1>1, <1>2, <1>3, <1>4 DEF IInv

\* SREM.
LEMMA SremOK ==
    ASSUME IInv, NEW k \in Keys, NEW e \in Elems, NEW r \in Request, Srem(k, e, r)
    PROVE  IInv'
<1> DEFINE d == expireIfNeeded(db, k, now)
           left == d.dict[k].val \ {e}
           put == dbSuperReplace(d, k, REDIS_SET, left, WriteVersion(d, k, r))
           cut == IF left = {} THEN dbDelete(put, k) ELSE put
<1>1. DbOK(d) /\ DbOK(EXPIRE_OR_NOT(d, k, r.et))
  BY ExpireIfNeededOK, RequestType, ExpireOrNotOK DEF IInv
<1>2. ASSUME Stored(d, k), HasType(d, k, REDIS_SET)
      PROVE  DbOK(EXPIRE_OR_NOT(cut, k, r.et))
  <2>1. HasValue(REDIS_SET, left)
    BY <1>1, <1>2, EntryStored, MarkAssumption DEF HasType, HasValue
  <2>2. DbOK(put)
    BY <1>1, <2>1, WriteVersionType, ReplaceOK
  <2>3. DbOK(cut)
    BY <2>2, DeleteOK
  <2> QED BY <2>3, RequestType, ExpireOrNotOK
<1>3. \/ db' \in {d, EXPIRE_OR_NOT(d, k, r.et)}
      \/ /\ Stored(d, k) /\ HasType(d, k, REDIS_SET)
         /\ db' = EXPIRE_OR_NOT(cut, k, r.et)
  BY DEF Srem
<1>4. now' = now
  BY DEF Srem
<1> HIDE DEF d, left, put, cut
<1> QED BY <1>1, <1>2, <1>3, <1>4 DEF IInv

\* GET, EXISTS, TYPE and TTL.
LEMMA ReadOK ==
    ASSUME IInv, NEW k \in Keys, Read(k)
    PROVE  IInv'
<1>1. db' \in {db, expireIfNeeded(db, k, now)} /\ now' = now
  BY DEF Read, Get, Exists, TypeOf, Ttl
<1> QED BY <1>1, ExpireIfNeededOK DEF IInv

\* EXPIRE and PERSIST: the deadline they set is an integer.
LEMMA ExpireOK ==
    ASSUME IInv, NEW k \in Keys,
           Persist(k) \/ \E s \in ExpireArgs : Expire(k, s)
    PROVE  IInv'
<1>1. CASE Persist(k)
  BY <1>1, DeadlineOK DEF Persist, IInv
<1>2. ASSUME NEW s \in ExpireArgs, Expire(k, s)
      PROVE  IInv'
  <2>1. s # NotInteger => Deadline(s, now) \in Int
    BY ArgumentAssumption DEF Deadline, IInv
  <2> QED BY <1>2, <2>1, DeadlineOK DEF Expire, IInv
<1> QED BY <1>1, <1>2

\* DEL and emptyDb.
LEMMA DelOK ==
    ASSUME IInv, (\E S \in (SUBSET Keys) \ {{}} : Del(S)) \/ EmptyDb
    PROVE  IInv'
<1>1. PICK S \in SUBSET Keys :
        db' = [db EXCEPT !.dict = [k \in Keys |-> IF k \in S THEN Absent ELSE @[k]],
                         !.expires = [k \in Keys |-> IF k \in S THEN NoTTL ELSE @[k]]]
  <2>1. CASE EmptyDb
    <3>1. db' = [db EXCEPT
                   !.dict = [k \in Keys |-> IF k \in Keys THEN Absent ELSE @[k]],
                   !.expires = [k \in Keys |-> IF k \in Keys THEN NoTTL ELSE @[k]]]
      BY <2>1 DEF EmptyDb
    <3> QED BY <3>1
  <2>2. CASE \E S \in (SUBSET Keys) \ {{}} : Del(S)
    BY <2>2 DEF Del
  <2> QED BY <2>1, <2>2
<1>2. /\ db'.dict = [k \in Keys |-> IF k \in S THEN Absent ELSE db.dict[k]]
      /\ db'.expires = [k \in Keys |-> IF k \in S THEN NoTTL ELSE db.expires[k]]
      /\ db'.logiclock = db.logiclock /\ db'.needRemove = db.needRemove
  BY <1>1 DEF IInv, DbOK, DbType
<1>3. db' \in DbType
  <2>1. /\ db'.dict \in [Keys -> Entry \cup {Absent}]
        /\ db'.expires \in [Keys -> Int \cup {NoTTL}]
    BY <1>2 DEF IInv, DbOK, DbType
  <2> QED BY <1>1, <1>2, <2>1 DEF IInv, DbOK, DbType
<1>4. DbOK(db')
  <2>1. /\ \A k \in Keys : db'.dict[k] = IF k \in S THEN Absent ELSE db.dict[k]
        /\ \A k \in Keys : db'.expires[k] = IF k \in S THEN NoTTL ELSE db.expires[k]
    BY <1>2
  <2>2. DbOK(db)
    BY DEF IInv
  <2> DEFINE e == db'
  <2> HIDE DEF e
  <2> QED BY <1>2, <1>3, <2>1, <2>2, DropOK DEF e
<1> QED BY <1>4 DEF IInv, DbOK, Stored, StaleKeys, Stale, Del, EmptyDb

\* The collections: dbRandomKey, the cron and the evictions.
LEMMA CollectingOK ==
    ASSUME IInv, RandomKey \/ Cron \/ \E k \in Keys : Evict(k)
    PROVE  IInv'
<1>1. \E S \in SUBSET Keys : db' = Collect(db, S) /\ now' = now
  <2>1. CASE RandomKey
    BY <2>1 DEF RandomKey
  <2>2. CASE Cron
    BY <2>2 DEF Cron, ActiveExpireCycle
  <2>3. ASSUME NEW k \in Keys, Evict(k)
        PROVE  \E S \in SUBSET Keys : db' = Collect(db, S) /\ now' = now
    BY <2>3 DEF Evict
  <2> QED BY <2>1, <2>2, <2>3
<1> QED BY <1>1, CollectOK DEF IInv

\* The clear: need_remove_key becomes the number of stored keys, among
\* which the stale ones are.
LEMMA ClearOK ==
    ASSUME IInv, Clear
    PROVE  IInv'
<1> DEFINE all == {k \in Keys : Stored(db, k)}
<1>1. /\ db'.dict = db.dict /\ db'.expires = db.expires
      /\ db'.logiclock = db.logiclock + 1 /\ db'.needRemove = Cardinality(all)
  BY DEF Clear, IInv, DbOK, DbType
<1>2. IsFiniteSet(all) /\ Cardinality(all) \in Nat
  BY KeysAssumption, FS_Subset, FS_CardinalityType
<1>3. db' \in DbType
  <2>1. db \in DbType
    BY DEF IInv, DbOK
  <2>2. db'.logiclock \in 1 .. ClockMax
    BY <1>1, <2>1, NumberAssumption DEF Clear, DbType
  <2>3. db'.needRemove \in 0 .. Cardinality(Keys)
    BY <1>1, KeysCounted
  <2> QED BY <1>1, <2>1, <2>2, <2>3 DEF Clear, DbType
<1>4. StaleKeys(db') \subseteq all
  BY <1>1 DEF StaleKeys, Stale, Stored
<1>5. Cardinality(StaleKeys(db')) <= db'.needRemove
  BY <1>1, <1>2, <1>4, FS_Subset
<1>6. DbOK(db')
  BY <1>1, <1>3, <1>5 DEF IInv, DbOK, Stored
<1> QED BY <1>6 DEF IInv, Clear, DbOK, Stored, StaleKeys, Stale

-----------------------------------------------------------------------------
(* The invariant.                                                          *)

\* The empty database satisfies it.
LEMMA InitOK == Init => IInv
<1> SUFFICES ASSUME Init PROVE IInv
  OBVIOUS
<1>1. db \in DbType
  <2>1. 0 \in 0 .. Cardinality(Keys) /\ 1 \in 1 .. ClockMax
    BY KeysCounted, NumberAssumption
  <2> QED BY <2>1 DEF Init, DbType
<1>2. StaleKeys(db) = {}
  BY DEF Init, StaleKeys, Stale, Stored
<1>3. Cardinality(StaleKeys(db)) <= db.needRemove
  BY <1>2, FS_EmptySet DEF Init
<1> QED BY <1>1, <1>3, NumberAssumption DEF Init, IInv, DbOK

\* Every step preserves it.
LEMMA NextOK == IInv /\ [Next]_vars => IInv'
<1> SUFFICES ASSUME IInv, [Next]_vars PROVE IInv'
  OBVIOUS
<1>1. CASE UNCHANGED vars
  BY <1>1 DEF vars, IInv, DbOK, DbType, StaleKeys, Stale, Stored
<1>2. ASSUME NEW k \in Keys, Read(k) PROVE IInv'
  BY <1>2, ReadOK
<1>3. ASSUME NEW k \in Keys, NEW r \in Request, Write(k, r) PROVE IInv'
  <2>1. CASE \E v \in Values : Set(k, v, r) \/ Setnx(k, v, r)
    BY <2>1, SetGenericOK DEF Set, Setnx
  <2>2. CASE \E v \in Values, s \in ExpireArgs : Setex(k, v, s, r) \/ Setnxex(k, v, s, r)
    BY <2>2, SetGenericOK DEF Setex, Setnxex
  <2>3. CASE \E v \in Values : Getset(k, v, r)
    BY <2>3, GetsetOK
  <2>4. CASE \E init \in IncrArgs \cup {0}, incr \in IncrArgs :
               incrDecrCommand(k, init, incr, r)
    BY <2>4, IncrDecrOK
  <2>5. CASE \E e \in Elems : Sadd(k, e, r) \/ Srem(k, e, r)
    BY <2>5, SaddOK, SremOK
  <2> QED BY <1>3, <2>1, <2>2, <2>3, <2>4, <2>5 DEF Write
<1>4. ASSUME NEW k \in Keys, Persist(k) \/ \E s \in ExpireArgs : Expire(k, s)
      PROVE  IInv'
  BY <1>4, ExpireOK
<1>5. CASE (\E S \in (SUBSET Keys) \ {{}} : Del(S)) \/ EmptyDb
  BY <1>5, DelOK
<1>6. CASE RandomKey \/ Cron \/ \E k \in Keys : Evict(k)
  BY <1>6, CollectingOK
<1>7. CASE Clear
  BY <1>7, ClearOK
<1>8. CASE Tick
  BY <1>8 DEF Tick, IInv, DbOK, DbType, StaleKeys, Stale, Stored
<1> QED BY <1>1, <1>2, <1>3, <1>4, <1>5, <1>6, <1>7, <1>8 DEF Next

\* Whatever the commands, the cron and the clears do, the database stays
\* well formed and need_remove_key is never decremented below zero.
THEOREM TypeCorrect == Spec => []TypeOK
<1>1. IInv => TypeOK
  BY DEF IInv, DbOK, DbType, TypeOK
<1> QED BY <1>1, InitOK, NextOK, PTL DEF Spec

\* The assertions of setExpire, removeExpire and getExpire hold: no entry of
\* db->expires is without its key in db->dict.
THEOREM DeadlinesAlwaysHaveKeys == Spec => []DeadlinesHaveKeys
<1>1. IInv => DeadlinesHaveKeys
  BY DEF IInv, DbOK, DeadlinesHaveKeys
<1> QED BY <1>1, InitOK, NextOK, PTL DEF Spec

\* The cron never stops early: while a stale key is left, need_remove_key is
\* positive.
THEOREM StaleAlwaysCovered == Spec => []StaleCovered
<1>1. IInv => StaleCovered
  BY DEF IInv, DbOK, StaleCovered
<1> QED BY <1>1, InitOK, NextOK, PTL DEF Spec
-----------------------------------------------------------------------------
(* What a step may do to an entry.                                         *)

Bounded(type, val) ==
    type = REDIS_SET => val # {} /\ IsFiniteSet(val) /\ Cardinality(val) <= SetMax

\* No entry is ahead of the database's clock, and sets are in bounds.
EntriesOK(d) ==
    \A k \in Keys : Stored(d, k) =>
        d.dict[k].clk <= d.logiclock /\ Bounded(d.dict[k].type, d.dict[k].val)

\* Every entry goes, stays as it is, or gives way to one of the current clock.
Moves(d, e) ==
    /\ e.logiclock = d.logiclock
    /\ \A k \in Keys :
          \/ ~Stored(e, k)
          \/ e.dict[k] = d.dict[k]
          \/ e.dict[k].clk = e.logiclock /\ Bounded(e.dict[k].type, e.dict[k].val)

\* The key has no entry, or one of the current clock.
Fresh(d, k) == Stored(d, k) => d.dict[k].clk = d.logiclock

\* One move after the other is a move.
LEMMA MovesThenMoves ==
    ASSUME NEW d, NEW e, NEW f, Moves(d, e), Moves(e, f)
    PROVE  Moves(d, f)
<1> SUFFICES ASSUME NEW k \in Keys
             PROVE  \/ ~Stored(f, k)
                    \/ f.dict[k] = d.dict[k]
                    \/ f.dict[k].clk = f.logiclock /\ Bounded(f.dict[k].type, f.dict[k].val)
  BY DEF Moves
<1>1. f.logiclock = e.logiclock
  BY DEF Moves
<1>2. CASE f.dict[k] = e.dict[k]
  BY <1>1, <1>2 DEF Moves, Stored
<1>3. CASE f.dict[k] # e.dict[k]
  BY <1>3 DEF Moves
<1> QED BY <1>2, <1>3

\* What a move leaves is in bounds if what it found was.
LEMMA MovesKeepsEntries ==
    ASSUME NEW d, DbOK(d), EntriesOK(d), NEW e, Moves(d, e)
    PROVE  EntriesOK(e)
<1>1. d.logiclock \in Int
  BY DEF DbOK, DbType
<1> QED BY <1>1 DEF EntriesOK, Moves, Stored

\* Deadlines and the counter may change without an entry moving.
LEMMA SameEntries ==
    ASSUME NEW d, NEW e, e.dict = d.dict, e.logiclock = d.logiclock
    PROVE  Moves(d, e)
BY DEF Moves

\* Collecting keys only makes entries go.
LEMMA CollectMoves ==
    ASSUME NEW d, DbOK(d), NEW S \in SUBSET Keys
    PROVE  Moves(d, Collect(d, S))
<1>1. Collect(d, S).logiclock = d.logiclock
  BY DEF Collect, DbOK, DbType
<1> QED BY <1>1, CollectOK DEF Moves

\* After a lookup the key has no entry left from before a clear.
LEMMA LookupMoves ==
    ASSUME NEW d, DbOK(d), EntriesOK(d), NEW k \in Keys, NEW t
    PROVE  LET e == expireIfNeeded(d, k, t)
           IN  DbOK(e) /\ EntriesOK(e) /\ Moves(d, e) /\ Fresh(e, k)
<1> DEFINE e == expireIfNeeded(d, k, t)
<1>1. DbOK(e)
  BY ExpireIfNeededOK
<1>2. CASE Stale(d, k) \/ Overdue(d, k, t)
  <2>1. e = Collect(d, {k}) /\ {k} \in SUBSET Keys
    BY <1>2 DEF expireIfNeeded
  <2>2. Moves(d, e) /\ ~Stored(e, k)
    BY <2>1, CollectMoves, CollectOK
  <2>3. Fresh(e, k)
    BY <2>2 DEF Fresh
  <2>4. EntriesOK(e)
    <3> HIDE DEF e
    <3> QED BY <2>2, MovesKeepsEntries
  <2> QED BY <1>1, <2>2, <2>3, <2>4
<1>3. CASE ~(Stale(d, k) \/ Overdue(d, k, t))
  <2>1. e = d
    BY <1>3 DEF expireIfNeeded
  <2>2. Fresh(d, k)
    <3>1. Stored(d, k) => d.dict[k].clk \in Int /\ d.logiclock \in Int
      BY EntryStored DEF DbOK, DbType
    <3> QED BY <1>3, <3>1 DEF Stale, EntriesOK, Fresh
  <2>3. Moves(d, d)
    BY SameEntries
  <2> QED BY <1>1, <2>1, <2>2, <2>3
<1> QED BY <1>2, <1>3
-----------------------------------------------------------------------------
(* What a step may do to the other keys, and what it leaves under its own. *)

\* The two databases differ at the key, if anywhere.
Off(d, e, k) ==
    /\ e.logiclock = d.logiclock
    /\ \A i \in Keys \ {k} : e.dict[i] = d.dict[i] /\ e.expires[i] = d.expires[i]

\* One change of the key after another.
LEMMA OffThenOff ==
    ASSUME NEW d, NEW e, NEW f, NEW k, Off(d, e, k), Off(e, f, k)
    PROVE  Off(d, f, k)
BY DEF Off

\* Collecting one key leaves the others alone.
LEMMA CollectOff ==
    ASSUME NEW d, DbOK(d), NEW k \in Keys
    PROVE  Off(d, Collect(d, {k}), k)
<1>1. /\ Collect(d, {k}).logiclock = d.logiclock
      /\ Collect(d, {k}).dict = [i \in Keys |-> IF i \in {k} THEN Absent ELSE d.dict[i]]
      /\ Collect(d, {k}).expires = [i \in Keys |-> IF i \in {k} THEN NoTTL ELSE d.expires[i]]
  BY DEF Collect, DbOK, DbType
<1> HIDE DEF Collect
<1> QED BY <1>1 DEF Off

\* A lookup.
LEMMA LookupOff ==
    ASSUME NEW d, DbOK(d), EntriesOK(d), NEW k \in Keys, NEW t
    PROVE  LET e == expireIfNeeded(d, k, t)
           IN  /\ DbOK(e) /\ EntriesOK(e) /\ Fresh(e, k) /\ Off(d, e, k)
               /\ Stored(e, k) => e = d
BY LookupMoves, CollectOff, CollectOK DEF expireIfNeeded, Off

\* An entry of the current clock put under the key.
LEMMA PutOff ==
    ASSUME NEW d, DbOK(d), NEW k \in Keys, NEW x \in Entry, x.clk = d.logiclock
    PROVE  LET e == [d EXCEPT !.dict = [@ EXCEPT ![k] = x]]
           IN  /\ DbOK(e) /\ Stored(e, k) /\ Fresh(e, k) /\ Off(d, e, k)
               /\ e.dict[k] = x /\ e.expires = d.expires
<1> DEFINE e == [d EXCEPT !.dict = [@ EXCEPT ![k] = x]]
<1>1. DbOK(e) /\ Stored(e, k) /\ e.expires = d.expires
  BY PutOK
<1>2. e.dict = [d.dict EXCEPT ![k] = x] /\ e.logiclock = d.logiclock
  BY DEF DbOK, DbType
<1>3. e.dict[k] = x /\ \A i \in Keys \ {k} : e.dict[i] = d.dict[i]
  BY <1>2 DEF DbOK, DbType
<1> HIDE DEF e
<1>4. Fresh(e, k) /\ Off(d, e, k)
  BY <1>1, <1>2, <1>3 DEF Fresh, Off
<1> QED BY <1>1, <1>3, <1>4 DEF e

\* The entry that a write leaves.
Made(d, type, val, ver) ==
    [type |-> type, val |-> val, ver |-> ver, clk |-> d.logiclock]

\* dbAdd stamps the entry with the clock of the database; over the entry a
\* lookup has found, the other two do the same.
LEMMA AddOff ==
    ASSUME NEW d, DbOK(d), NEW k \in Keys,
           NEW type, NEW val, HasValue(type, val), NEW ver \in 0 .. VersionMax
    PROVE  LET e == dbAdd(d, k, type, val, ver)
           IN  /\ DbOK(e) /\ Stored(e, k) /\ Fresh(e, k) /\ Off(d, e, k)
               /\ e.dict[k] = Made(d, type, val, ver)
<1> DEFINE x == Made(d, type, val, ver)
<1>1. d.logiclock \in 1 .. ClockMax
  BY DEF DbOK, DbType
<1>2. x \in Entry /\ x.clk = d.logiclock
  BY <1>1, EntryMade DEF Made
<1>3. dbAdd(d, k, type, val, ver) = [d EXCEPT !.dict = [@ EXCEPT ![k] = x]]
  BY DEF dbAdd, Made
<1> HIDE DEF x
<1>4. LET e == [d EXCEPT !.dict = [@ EXCEPT ![k] = x]]
      IN  DbOK(e) /\ Stored(e, k) /\ Fresh(e, k) /\ Off(d, e, k) /\ e.dict[k] = x
  BY <1>2, PutOff
<1> QED BY <1>3, <1>4 DEF x

\* dbSuperReplace stores the version it is given.
LEMMA SuperReplaceOff ==
    ASSUME NEW d, DbOK(d), NEW k \in Keys, Fresh(d, k),
           NEW type, NEW val, HasValue(type, val), NEW ver \in 0 .. VersionMax
    PROVE  LET e == dbSuperReplace(d, k, type, val, ver)
           IN  /\ DbOK(e) /\ Stored(e, k) /\ Fresh(e, k) /\ Off(d, e, k)
               /\ e.dict[k] = Made(d, type, val, ver)
<1>1. dbSuperReplace(d, k, type, val, ver) = dbAdd(d, k, type, val, ver)
  BY DEF dbSuperReplace, dbAdd, Fresh
<1> QED BY <1>1, AddOff

\* dbReplace keeps the version of a stored key.
LEMMA ReplaceOff ==
    ASSUME NEW d, DbOK(d), NEW k \in Keys, Fresh(d, k),
           NEW type, NEW val, HasValue(type, val), NEW ver \in 0 .. VersionMax,
           NEW w, w = IF Stored(d, k) THEN d.dict[k].ver ELSE ver
    PROVE  LET e == dbReplace(d, k, type, val, ver)
           IN  /\ DbOK(e) /\ Stored(e, k) /\ Fresh(e, k) /\ Off(d, e, k)
               /\ e.dict[k] = Made(d, type, val, w)
<1>1. w \in 0 .. VersionMax
  BY EntryStored
<1>2. dbReplace(d, k, type, val, ver) = dbAdd(d, k, type, val, w)
  BY DEF dbReplace, dbAdd, Fresh
<1> QED BY <1>1, <1>2, AddOff

\* A deadline leaves the entries as they are.
LEMMA DeadlineOff ==
    ASSUME NEW d, DbOK(d), NEW k \in Keys
    PROVE  /\ \A when : LET e == setExpire(d, k, when)
                        IN  Off(d, e, k) /\ e.dict = d.dict
           /\ LET e == removeExpire(d, k) IN Off(d, e, k) /\ e.dict = d.dict
           /\ LET e == removeXExpire(d, k) IN Off(d, e, k) /\ e.dict = d.dict
           /\ \A et : LET e == EXPIRE_OR_NOT(d, k, et)
                      IN  Off(d, e, k) /\ e.dict = d.dict
<1>1. ASSUME NEW when
      PROVE  LET e == [d EXCEPT !.expires = [@ EXCEPT ![k] = when]]
             IN  Off(d, e, k) /\ e.dict = d.dict
  <2> DEFINE e == [d EXCEPT !.expires = [@ EXCEPT ![k] = when]]
  <2>1. /\ e.dict = d.dict /\ e.logiclock = d.logiclock
        /\ e.expires = [d.expires EXCEPT ![k] = when]
    BY DEF DbOK, DbType
  <2>2. \A i \in Keys \ {k} : e.expires[i] = d.expires[i]
    BY <2>1 DEF DbOK, DbType
  <2> HIDE DEF e
  <2>3. Off(d, e, k) /\ e.dict = d.dict
    BY <2>1, <2>2 DEF Off
  <2> QED BY <2>3 DEF e
<1>2. \A when : LET e == setExpire(d, k, when) IN Off(d, e, k) /\ e.dict = d.dict
  BY <1>1 DEF setExpire
<1>3. LET e == removeExpire(d, k) IN Off(d, e, k) /\ e.dict = d.dict
  BY <1>1 DEF removeExpire
<1>4. Off(d, d, k)
  BY DEF Off
<1> QED BY <1>2, <1>3, <1>4 DEF removeXExpire, EXPIRE_OR_NOT, setXExpire

\* A step leaves an entry under the key, under the deadline it likes.
Leaves(d, x, k) ==
    /\ DbOK(d) /\ Off(db, d, k)
    /\ Stored(d, k) /\ Fresh(d, k)
    /\ d.dict[k] = x

\* A deadline set after a write.
LEMMA LeavesDeadline ==
    ASSUME NEW d, NEW x, NEW k \in Keys, Leaves(d, x, k)
    PROVE  /\ \A when \in Int : Leaves(setExpire(d, k, when), x, k)
           /\ Leaves(removeExpire(d, k), x, k)
           /\ Leaves(removeXExpire(d, k), x, k)
           /\ \A et \in Int : Leaves(EXPIRE_OR_NOT(d, k, et), x, k)
<1>1. ASSUME NEW e, DbOK(e), Off(d, e, k), e.dict = d.dict
      PROVE  Leaves(e, x, k)
  BY <1>1, OffThenOff DEF Leaves, Stored, Fresh, Off
<1>2. \A when \in Int : DbOK(setExpire(d, k, when))
  BY DeadlineOK DEF Leaves
<1>3. DbOK(removeExpire(d, k)) /\ DbOK(removeXExpire(d, k))
  BY DeadlineOK DEF Leaves, removeXExpire
<1>4. \A et \in Int : DbOK(EXPIRE_OR_NOT(d, k, et))
  BY ExpireOrNotOK DEF Leaves
<1> QED BY <1>1, <1>2, <1>3, <1>4, DeadlineOff DEF Leaves

\* SET and its family, when they are not refused.
LEMMA SetLeaves ==
    ASSUME IInv, EntriesOK(db), NEW cmd, NEW k \in Keys, NEW nx, NEW v \in Values,
           NEW expire, expire = Nil \/ expire \in ExpireArgs, NEW r \in Request,
           setGenericCommand(cmd, k, nx, v, expire, r), reply'.rc = "OK"
    PROVE  LET d == expireIfNeeded(db, k, now)
           IN  /\ HasType(d, k, REDIS_STRING)
               /\ Leaves(db', Made(d, REDIS_STRING, v, WriteVersion(d, k, r)), k)
<1> DEFINE d == expireIfNeeded(db, k, now)
           put == dbSuperReplace(d, k, REDIS_STRING, v, WriteVersion(d, k, r))
           timed == IF expire # Nil THEN setExpire(put, k, expire)
                    ELSE IF r.et = 0 THEN removeXExpire(put, k) ELSE put
           x == Made(d, REDIS_STRING, v, WriteVersion(d, k, r))
<1>1. DbOK(d) /\ Fresh(d, k) /\ Off(db, d, k)
  BY LookupOff DEF IInv
<1>2. expire # NotInteger /\ HasType(d, k, REDIS_STRING) /\ db' = timed
  BY DEF setGenericCommand, Answer
<1>3. WriteVersion(d, k, r) \in 0 .. VersionMax /\ HasValue(REDIS_STRING, v)
  BY <1>1, WriteVersionType, ArgumentAssumption DEF HasValue
<1>4. Leaves(put, x, k)
  <2>1. DbOK(put) /\ Stored(put, k) /\ Fresh(put, k) /\ Off(d, put, k) /\ put.dict[k] = x
    BY <1>1, <1>3, SuperReplaceOff
  <2> HIDE DEF put, d, x
  <2> QED BY <1>1, <2>1, OffThenOff DEF Leaves
<1>5. expire # Nil => expire \in Int
  BY <1>2, ArgumentAssumption
<1> HIDE DEF put, x
<1> QED BY <1>2, <1>4, <1>5, LeavesDeadline DEF x

\* GETSET.
LEMMA GetsetLeaves ==
    ASSUME IInv, EntriesOK(db), NEW k \in Keys, NEW v \in Values, NEW r \in Request,
           Getset(k, v, r), reply'.rc # "WRONG_TYPE"
    PROVE  LET d == expireIfNeeded(db, k, now)
               w == IF Stored(d, k) THEN d.dict[k].ver ELSE r.ver
           IN  Leaves(db', Made(d, REDIS_STRING, v, w), k)
<1> DEFINE d == expireIfNeeded(db, k, now)
           put == dbReplace(d, k, REDIS_STRING, v, r.ver)
           w == IF Stored(d, k) THEN d.dict[k].ver ELSE r.ver
           x == Made(d, REDIS_STRING, v, w)
<1>1. DbOK(d) /\ Fresh(d, k) /\ Off(db, d, k)
  BY LookupOff DEF IInv
<1>2. db' = removeExpire(put, k)
  BY DEF Getset, Answer
<1>3. r.ver \in 0 .. VersionMax /\ HasValue(REDIS_STRING, v)
  BY RequestType, ArgumentAssumption DEF HasValue
<1>4. Leaves(put, x, k)
  <2>1. DbOK(put) /\ Stored(put, k) /\ Fresh(put, k) /\ Off(d, put, k) /\ put.dict[k] = x
    <3> HIDE DEF d, w
    <3> QED BY <1>1, <1>3, ReplaceOff DEF w
  <2> HIDE DEF put, d, x
  <2> QED BY <1>1, <2>1, OffThenOff DEF Leaves
<1> HIDE DEF put, x
<1> QED BY <1>2, <1>4, LeavesDeadline DEF x

\* INCR and its family.
LEMMA IncrDecrLeaves ==
    ASSUME IInv, EntriesOK(db), NEW k \in Keys, NEW init \in IncrArgs \cup {0},
           NEW incr \in IncrArgs, NEW r \in Request, incrDecrCommand(k, init, incr, r),
           reply'.rc = "OK"
    PROVE  LET d == expireIfNeeded(db, k, now)
           IN  /\ HasType(d, k, REDIS_STRING)
               /\ \E sum : Leaves(db', Made(d, REDIS_STRING, sum, WriteVersion(d, k, r)), k)
<1> DEFINE d == expireIfNeeded(db, k, now)
           old == IF Stored(d, k) THEN d.dict[k].val ELSE init
           sum == Int32(old + incr)
           put == dbSuperReplace(d, k, REDIS_STRING, sum, WriteVersion(d, k, r))
           x == Made(d, REDIS_STRING, sum, WriteVersion(d, k, r))
<1>1. DbOK(d) /\ Fresh(d, k) /\ Off(db, d, k)
  BY LookupOff DEF IInv
<1>2. /\ db' = EXPIRE_OR_NOT(put, k, r.et) /\ HasType(d, k, REDIS_STRING)
      /\ NotInteger \notin {init, incr} /\ old \notin Texts
  BY DEF incrDecrCommand, Answer
<1>3. HasValue(REDIS_STRING, sum) /\ WriteVersion(d, k, r) \in 0 .. VersionMax
  <2>1. old \in Int /\ incr \in Int
    BY <1>1, <1>2, EntryStored, ArgumentAssumption, MarkAssumption DEF HasType, HasValue
  <2>2. Int32(old + incr) \in Int
    BY <2>1, NumberAssumption DEF Int32
  <2> QED BY <1>1, <2>2, WriteVersionType DEF HasValue
<1>4. Leaves(put, x, k)
  <2>1. DbOK(put) /\ Stored(put, k) /\ Fresh(put, k) /\ Off(d, put, k) /\ put.dict[k] = x
    <3> HIDE DEF d, sum
    <3> QED BY <1>1, <1>3, SuperReplaceOff
  <2> HIDE DEF put, d, x
  <2> QED BY <1>1, <2>1, OffThenOff DEF Leaves
<1>5. Leaves(db', x, k)
  <2> HIDE DEF put, x
  <2> QED BY <1>2, <1>4, RequestType, LeavesDeadline
<1> HIDE DEF sum
<1> QED BY <1>2, <1>5

\* SADD.
LEMMA SaddLeaves ==
    ASSUME IInv, EntriesOK(db), NEW k \in Keys, NEW e \in Elems, NEW r \in Request,
           Sadd(k, e, r), reply'.rc \in {"ALREADY_EXIST", "OK"}
    PROVE  LET d == expireIfNeeded(db, k, now)
               old == IF Stored(d, k) THEN d.dict[k].val ELSE {}
           IN  /\ HasType(d, k, REDIS_SET)
               /\ reply'.rc = "ALREADY_EXIST" => e \in old
               /\ Leaves(db', Made(d, REDIS_SET, old \cup {e}, WriteVersion(d, k, r)), k)
<1> DEFINE d == expireIfNeeded(db, k, now)
           old == IF Stored(d, k) THEN d.dict[k].val ELSE {}
           all == old \cup {e}
           put == dbSuperReplace(d, k, REDIS_SET, all, WriteVersion(d, k, r))
           x == Made(d, REDIS_SET, all, WriteVersion(d, k, r))
<1>1. DbOK(d) /\ Fresh(d, k) /\ Off(db, d, k)
  BY LookupOff DEF IInv
<1>2. /\ db' = EXPIRE_OR_NOT(put, k, r.et) /\ HasType(d, k, REDIS_SET)
      /\ reply'.rc = "ALREADY_EXIST" => e \in old
  BY DEF Sadd, Answer
<1>3. HasValue(REDIS_SET, all) /\ WriteVersion(d, k, r) \in 0 .. VersionMax
  BY <1>1, <1>2, EntryStored, WriteVersionType, MarkAssumption DEF HasType, HasValue
<1>4. Leaves(put, x, k)
  <2>1. DbOK(put) /\ Stored(put, k) /\ Fresh(put, k) /\ Off(d, put, k) /\ put.dict[k] = x
    <3> HIDE DEF d, all
    <3> QED BY <1>1, <1>3, SuperReplaceOff
  <2> HIDE DEF put, d, x
  <2> QED BY <1>1, <2>1, OffThenOff DEF Leaves
<1>5. Leaves(db', x, k)
  <2> HIDE DEF put, x
  <2> QED BY <1>2, <1>4, RequestType, LeavesDeadline
<1> HIDE DEF x
<1> QED BY <1>2, <1>5 DEF x

\* SREM, which deletes the set that it empties, and does nothing to one
\* that has not the member.
LEMMA SremLeaves ==
    ASSUME IInv, EntriesOK(db), NEW k \in Keys, NEW e \in Elems, NEW r \in Request,
           Srem(k, e, r), reply'.rc \in {"NOT_EXIST", "OK"}
    PROVE  LET d == expireIfNeeded(db, k, now)
               left == d.dict[k].val \ {e}
           IN  IF ~Stored(d, k) THEN reply'.rc = "NOT_EXIST" /\ db' = d
               ELSE /\ d.dict[k].type = REDIS_SET
                    /\ IF reply'.rc = "NOT_EXIST" THEN Leaves(db', d.dict[k], k)
                       ELSE IF left = {} THEN Off(db, db', k) /\ ~Stored(db', k)
                       ELSE Leaves(db', Made(d, REDIS_SET, left, WriteVersion(d, k, r)), k)
<1> DEFINE d == expireIfNeeded(db, k, now)
           left == d.dict[k].val \ {e}
           put == dbSuperReplace(d, k, REDIS_SET, left, WriteVersion(d, k, r))
           cut == IF left = {} THEN dbDelete(put, k) ELSE put
           x == Made(d, REDIS_SET, left, WriteVersion(d, k, r))
<1>1. DbOK(d) /\ Fresh(d, k) /\ Off(db, d, k)
  BY LookupOff DEF IInv
<1>2. CASE ~Stored(d, k)
  BY <1>2 DEF Srem, Answer
<1>3. CASE Stored(d, k) /\ reply'.rc = "NOT_EXIST"
  <2>1. db' = EXPIRE_OR_NOT(d, k, r.et) /\ d.dict[k].type = REDIS_SET
    BY <1>3 DEF Srem, Answer, HasType
  <2> DEFINE y == d.dict[k]
  <2>2. Leaves(d, y, k)
    BY <1>1, <1>3 DEF Leaves
  <2>3. Leaves(db', y, k)
    <3> HIDE DEF d, y
    <3> QED BY <2>1, <2>2, RequestType, LeavesDeadline
  <2> HIDE DEF d
  <2> QED BY <1>3, <2>1, <2>3 DEF d
<1>4. CASE Stored(d, k) /\ reply'.rc = "OK"
  <2>1. db' = EXPIRE_OR_NOT(cut, k, r.et) /\ d.dict[k].type = REDIS_SET
    BY <1>4 DEF Srem, Answer, HasType
  <2>2. HasValue(REDIS_SET, left) /\ WriteVersion(d, k, r) \in 0 .. VersionMax
    BY <1>1, <1>4, <2>1, EntryStored, WriteVersionType, MarkAssumption DEF HasValue
  <2>3. Leaves(put, x, k)
    <3>1. DbOK(put) /\ Stored(put, k) /\ Fresh(put, k) /\ Off(d, put, k) /\ put.dict[k] = x
      <4> HIDE DEF d, left
      <4> QED BY <1>1, <2>2, SuperReplaceOff
    <3> HIDE DEF put, d, x
    <3> QED BY <1>1, <3>1, OffThenOff DEF Leaves
  <2>4. CASE left # {}
    <3>1. db' = EXPIRE_OR_NOT(put, k, r.et)
      BY <2>1, <2>4
    <3>2. Leaves(db', x, k)
      <4> HIDE DEF put, x
      <4> QED BY <2>3, <3>1, RequestType, LeavesDeadline
    <3> HIDE DEF x, d
    <3> QED BY <1>4, <2>1, <2>4, <3>2 DEF x, d
  <2>5. CASE left = {}
    <3> DEFINE f == dbDelete(put, k)
    <3>1. DbOK(put)
      BY <2>3 DEF Leaves
    <3>2. /\ f.dict = [put.dict EXCEPT ![k] = Absent] /\ f.logiclock = put.logiclock
          /\ f.expires = [put.expires EXCEPT ![k] = NoTTL]
      BY <3>1 DEF dbDelete, DbOK, DbType
    <3>3. /\ f.dict[k] = Absent
          /\ \A i \in Keys \ {k} : f.dict[i] = put.dict[i] /\ f.expires[i] = put.expires[i]
      BY <3>1, <3>2 DEF DbOK, DbType
    <3>4. DbOK(f)
      <4> HIDE DEF put
      <4> QED BY <3>1, DeleteOK
    <3>5. db' = EXPIRE_OR_NOT(f, k, r.et)
      BY <2>1, <2>5
    <3> HIDE DEF f, put
    <3>6. Off(db, f, k) /\ ~Stored(f, k)
      BY <2>3, <3>2, <3>3 DEF Off, Leaves, Stored
    <3>7. Off(db, db', k) /\ ~Stored(db', k)
      BY <3>4, <3>5, <3>6, DeadlineOff, OffThenOff DEF Stored
    <3> HIDE DEF x, d
    <3> QED BY <1>4, <2>1, <2>5, <3>7 DEF d
  <2> QED BY <2>4, <2>5
<1> QED BY <1>2, <1>3, <1>4

-----------------------------------------------------------------------------
(* The bounds of sets, and the cleared entries.                            *)

\* A bounded entry left under a key is a move.
LEMMA LeavesMoves ==
    ASSUME NEW d, NEW x, NEW k \in Keys, Leaves(d, x, k), Bounded(x.type, x.val)
    PROVE  Moves(db, d)
BY DEF Leaves, Off, Fresh, Moves

\* SET and its family.
LEMMA SetGenericMoves ==
    ASSUME IInv, EntriesOK(db), NEW cmd, NEW k \in Keys, NEW nx, NEW v \in Values,
           NEW expire, expire = Nil \/ expire \in ExpireArgs, NEW r \in Request,
           setGenericCommand(cmd, k, nx, v, expire, r)
    PROVE  Moves(db, db')
<1> DEFINE d == expireIfNeeded(db, k, now)
           x == Made(d, REDIS_STRING, v, WriteVersion(d, k, r))
<1>1. Moves(db, d) /\ Moves(db, db)
  BY LookupMoves, SameEntries DEF IInv
<1>2. CASE reply'.rc = "OK"
  <2>1. Leaves(db', x, k)
    BY <1>2, SetLeaves
  <2>2. Bounded(x.type, x.val)
    BY MarkAssumption DEF Bounded, Made
  <2> HIDE DEF x
  <2> QED BY <2>1, <2>2, LeavesMoves
<1>3. CASE reply'.rc # "OK"
  BY <1>1, <1>3 DEF setGenericCommand, Answer
<1> QED BY <1>2, <1>3

\* GETSET.
LEMMA GetsetMoves ==
    ASSUME IInv, EntriesOK(db), NEW k \in Keys, NEW v \in Values, NEW r \in Request,
           Getset(k, v, r)
    PROVE  Moves(db, db')
<1> DEFINE d == expireIfNeeded(db, k, now)
           w == IF Stored(d, k) THEN d.dict[k].ver ELSE r.ver
           x == Made(d, REDIS_STRING, v, w)
<1>1. Moves(db, d)
  BY LookupMoves DEF IInv
<1>2. CASE reply'.rc # "WRONG_TYPE"
  <2>1. Leaves(db', x, k)
    BY <1>2, GetsetLeaves
  <2>2. Bounded(x.type, x.val)
    BY MarkAssumption DEF Bounded, Made
  <2> HIDE DEF x
  <2> QED BY <2>1, <2>2, LeavesMoves
<1>3. CASE reply'.rc = "WRONG_TYPE"
  BY <1>1, <1>3 DEF Getset, Answer
<1> QED BY <1>2, <1>3

\* INCR and its family.
LEMMA IncrDecrMoves ==
    ASSUME IInv, EntriesOK(db), NEW k \in Keys, NEW init \in IncrArgs \cup {0},
           NEW incr \in IncrArgs, NEW r \in Request, incrDecrCommand(k, init, incr, r)
    PROVE  Moves(db, db')
<1> DEFINE d == expireIfNeeded(db, k, now)
<1>1. Moves(db, d) /\ Moves(db, db)
  BY LookupMoves, SameEntries DEF IInv
<1>2. CASE reply'.rc = "OK"
  <2>1. PICK sum : Leaves(db', Made(d, REDIS_STRING, sum, WriteVersion(d, k, r)), k)
    BY <1>2, IncrDecrLeaves
  <2> DEFINE x == Made(d, REDIS_STRING, sum, WriteVersion(d, k, r))
  <2>2. Bounded(x.type, x.val)
    BY MarkAssumption DEF Bounded, Made
  <2> HIDE DEF x
  <2> QED BY <2>1, <2>2, LeavesMoves DEF x
<1>3. CASE reply'.rc # "OK"
  BY <1>1, <1>3 DEF incrDecrCommand, Answer
<1> QED BY <1>2, <1>3

\* SADD: the check of the length is made on the set it then stores.
LEMMA SaddMoves ==
    ASSUME IInv, EntriesOK(db), NEW k \in Keys, NEW e \in Elems, NEW r \in Request,
           Sadd(k, e, r)
    PROVE  Moves(db, db')
<1> DEFINE d == expireIfNeeded(db, k, now)
           old == IF Stored(d, k) THEN d.dict[k].val ELSE {}
           x == Made(d, REDIS_SET, old \cup {e}, WriteVersion(d, k, r))
<1>1. Moves(db, d) /\ EntriesOK(d)
  BY LookupMoves DEF IInv
<1>2. CASE reply'.rc \in {"ALREADY_EXIST", "OK"}
  <2>1. HasType(d, k, REDIS_SET) /\ Leaves(db', x, k)
    BY <1>2, SaddLeaves
  <2>2. e \in old \/ Cardinality(old) + 1 <= SetMax
    BY <1>2 DEF Sadd, Answer
  <2>3. IsFiniteSet(old) /\ Cardinality(old) <= SetMax
    <3>1. CASE Stored(d, k)
      BY <1>1, <2>1, <3>1 DEF EntriesOK, Bounded, HasType
    <3>2. CASE ~Stored(d, k)
      BY <3>2, FS_EmptySet, NumberAssumption
    <3> QED BY <3>1, <3>2
  <2>4. Bounded(REDIS_SET, old \cup {e})
    <3> HIDE DEF old
    <3>1. e \in old => old \cup {e} = old
      OBVIOUS
    <3> QED BY <2>2, <2>3, <3>1, FS_AddElement DEF Bounded
  <2>5. Bounded(x.type, x.val)
    BY <2>4 DEF Made
  <2> HIDE DEF x
  <2> QED BY <2>1, <2>5, LeavesMoves
<1>3. CASE reply'.rc \notin {"ALREADY_EXIST", "OK"}
  BY <1>1, <1>3 DEF Sadd, Answer
<1> QED BY <1>2, <1>3

\* SREM: an emptied set is not left behind, and any other is a part of one
\* within bounds.
LEMMA SremMoves ==
    ASSUME IInv, EntriesOK(db), NEW k \in Keys, NEW e \in Elems, NEW r \in Request,
           Srem(k, e, r)
    PROVE  Moves(db, db')
<1> DEFINE d == expireIfNeeded(db, k, now)
           old == d.dict[k].val
           left == old \ {e}
           x == Made(d, REDIS_SET, left, WriteVersion(d, k, r))
<1>1. Moves(db, d) /\ EntriesOK(d)
  BY LookupMoves DEF IInv
<1>2. CASE reply'.rc \in {"NOT_EXIST", "OK"} /\ Stored(d, k)
  <2>1. /\ d.dict[k].type = REDIS_SET
        /\ IF reply'.rc = "NOT_EXIST" THEN Leaves(db', d.dict[k], k)
           ELSE IF left = {} THEN Off(db, db', k) /\ ~Stored(db', k)
           ELSE Leaves(db', x, k)
    BY <1>2, SremLeaves
  <2>2. Bounded(REDIS_SET, old)
    BY <1>1, <1>2, <2>1 DEF EntriesOK
  <2>3. CASE reply'.rc = "NOT_EXIST"
    <3> DEFINE y == d.dict[k]
    <3>1. Leaves(db', y, k) /\ Bounded(y.type, y.val)
      BY <2>1, <2>2, <2>3
    <3> HIDE DEF y
    <3> QED BY <3>1, LeavesMoves
  <2>4. CASE reply'.rc = "OK" /\ left = {}
    BY <2>1, <2>4 DEF Off, Moves
  <2>5. CASE reply'.rc = "OK" /\ left # {}
    <3>1. Bounded(REDIS_SET, left)
      <4>1. IsFiniteSet(old) /\ Cardinality(old) <= SetMax /\ left \subseteq old
        BY <2>2 DEF Bounded
      <4>2. left # {}
        BY <2>5
      <4> HIDE DEF old, left
      <4>3. IsFiniteSet(left) /\ Cardinality(left) <= Cardinality(old)
        BY <4>1, FS_Subset
      <4>4. Cardinality(left) \in Nat /\ Cardinality(old) \in Nat /\ SetMax \in Nat
        BY <4>1, <4>3, FS_CardinalityType, NumberAssumption
      <4> QED BY <4>1, <4>2, <4>3, <4>4 DEF Bounded
    <3>2. Leaves(db', x, k)
      BY <2>1, <2>5
    <3>3. Bounded(x.type, x.val)
      BY <3>1 DEF Made
    <3> HIDE DEF x
    <3> QED BY <3>2, <3>3, LeavesMoves
  <2> QED BY <1>2, <2>3, <2>4, <2>5
<1>3. CASE reply'.rc \notin {"NOT_EXIST", "OK"} \/ ~Stored(d, k)
  BY <1>1, <1>3 DEF Srem, Answer
<1> QED BY <1>2, <1>3

\* A deadline moves no entry.
LEMMA DeadlineMoves ==
    ASSUME NEW d, DbOK(d), NEW k
    PROVE  /\ \A when : Moves(d, setExpire(d, k, when))
           /\ Moves(d, removeExpire(d, k)) /\ Moves(d, removeXExpire(d, k))
           /\ \A et : Moves(d, EXPIRE_OR_NOT(d, k, et))
<1>1. \A when : LET e == [d EXCEPT !.expires = [@ EXCEPT ![k] = when]]
                IN  e.dict = d.dict /\ e.logiclock = d.logiclock
  BY DEF DbOK, DbType
<1>2. /\ \A when : Moves(d, setExpire(d, k, when))
      /\ Moves(d, removeExpire(d, k)) /\ Moves(d, d)
  BY <1>1, SameEntries DEF setExpire, removeExpire
<1> QED BY <1>2 DEF removeXExpire, EXPIRE_OR_NOT, setXExpire

\* GET, EXISTS, TYPE, TTL, EXPIRE and PERSIST.
LEMMA KeepingMoves ==
    ASSUME IInv, EntriesOK(db), NEW k \in Keys,
           \/ Read(k)
           \/ Persist(k)
           \/ \E s \in ExpireArgs : Expire(k, s)
    PROVE  Moves(db, db')
<1>1. Moves(db, db) /\ Moves(db, expireIfNeeded(db, k, now))
  BY SameEntries, LookupMoves DEF IInv
<1>2. CASE Read(k)
  BY <1>1, <1>2 DEF Read, Get, Exists, TypeOf, Ttl
<1>3. CASE Persist(k)
  BY <1>1, <1>3, DeadlineMoves DEF Persist, IInv
<1>4. CASE \E s \in ExpireArgs : Expire(k, s)
  BY <1>1, <1>4, DeadlineMoves DEF Expire, IInv
<1> QED BY <1>2, <1>3, <1>4

\* The keys that go without a write: DEL, emptyDb and the collections.
LEMMA GoingMoves ==
    ASSUME IInv,
           \/ \E S \in (SUBSET Keys) \ {{}} : Del(S)
           \/ EmptyDb \/ RandomKey \/ Cron
           \/ \E k \in Keys : Evict(k)
    PROVE  Moves(db, db')
<1>1. CASE (\E S \in (SUBSET Keys) \ {{}} : Del(S)) \/ EmptyDb
  <2>1. /\ db'.logiclock = db.logiclock
        /\ \A k \in Keys : db'.dict[k] \in {Absent, db.dict[k]}
    <3>1. CASE EmptyDb
      BY <3>1 DEF EmptyDb, IInv, DbOK, DbType
    <3>2. ASSUME NEW S \in (SUBSET Keys) \ {{}}, Del(S)
          PROVE  /\ db'.logiclock = db.logiclock
                 /\ \A k \in Keys : db'.dict[k] \in {Absent, db.dict[k]}
      <4>1. /\ db'.dict = [k \in Keys |-> IF k \in S THEN Absent ELSE db.dict[k]]
            /\ db'.logiclock = db.logiclock
        BY <3>2 DEF Del, IInv, DbOK, DbType
      <4> QED BY <4>1
    <3> QED BY <1>1, <3>1, <3>2
  <2> QED BY <2>1 DEF Moves, Stored
<1>2. CASE RandomKey \/ Cron \/ \E k \in Keys : Evict(k)
  <2>1. \E S \in SUBSET Keys : db' = Collect(db, S)
    BY <1>2 DEF RandomKey, Cron, ActiveExpireCycle, Evict
  <2> QED BY <2>1, CollectMoves DEF IInv
<1> QED BY <1>1, <1>2

\* Every step but the clear.
LEMMA NextMoves ==
    ASSUME IInv, EntriesOK(db), [Next]_vars
    PROVE  Clear \/ Moves(db, db')
<1>1. CASE UNCHANGED vars \/ Tick
  BY <1>1, SameEntries DEF vars, Tick
<1>2. ASSUME NEW k \in Keys, NEW r \in Request, Write(k, r) PROVE Moves(db, db')
  <2>1. CASE \E v \in Values : Set(k, v, r) \/ Setnx(k, v, r)
    BY <2>1, SetGenericMoves DEF Set, Setnx
  <2>2. CASE \E v \in Values, s \in ExpireArgs : Setex(k, v, s, r) \/ Setnxex(k, v, s, r)
    BY <2>2, SetGenericMoves DEF Setex, Setnxex
  <2>3. CASE \E v \in Values : Getset(k, v, r)
    BY <2>3, GetsetMoves
  <2>4. CASE \E init \in IncrArgs \cup {0}, incr \in IncrArgs :
               incrDecrCommand(k, init, incr, r)
    BY <2>4, IncrDecrMoves
  <2>5. CASE \E e \in Elems : Sadd(k, e, r) \/ Srem(k, e, r)
    BY <2>5, SaddMoves, SremMoves
  <2> QED BY <1>2, <2>1, <2>2, <2>3, <2>4, <2>5 DEF Write
<1> QED BY <1>1, <1>2, KeepingMoves, GoingMoves DEF Next

\* The clear ages every entry and touches none.
LEMMA ClearAges ==
    ASSUME IInv, Clear
    PROVE  db'.dict = db.dict /\ db'.logiclock = db.logiclock + 1
BY DEF Clear, IInv, DbOK, DbType

\* Every step preserves bounds and clocks.
LEMMA NextEntriesOK ==
    ASSUME IInv, EntriesOK(db), [Next]_vars
    PROVE  EntriesOK(db')
<1>1. CASE Clear
  <2>1. db'.dict = db.dict /\ db'.logiclock = db.logiclock + 1
    BY <1>1, ClearAges
  <2>2. db.logiclock \in Int
    BY DEF IInv, DbOK, DbType
  <2>3. \A k \in Keys : Stored(db, k) => db.dict[k].clk \in Int
    BY EntryStored DEF IInv
  <2> QED BY <2>1, <2>2, <2>3 DEF EntriesOK, Stored
<1>2. CASE Moves(db, db')
  BY <1>2, MovesKeepsEntries DEF IInv
<1> QED BY <1>1, <1>2, NextMoves

\* Bounds and clocks hold along every run.
LEMMA EntriesStayOK == Spec => [](IInv /\ EntriesOK(db))
<1>1. Init => EntriesOK(db)
  BY DEF Init, EntriesOK, Stored
<1>2. IInv /\ EntriesOK(db) /\ [Next]_vars => IInv' /\ EntriesOK(db)'
  BY NextOK, NextEntriesOK DEF EntriesOK, Stored, Bounded
<1> QED BY <1>1, <1>2, InitOK, PTL DEF Spec

\* No command leaves an empty set behind or one above set_max_size: SREM
\* deletes the set it empties, SADD refuses before it stores.
THEOREM SetsStayWithinBounds == Spec => []SetsWithinBounds
<1>1. IInv /\ EntriesOK(db) => SetsWithinBounds
  BY DEF EntriesOK, Bounded, SetsWithinBounds
<1> QED BY <1>1, EntriesStayOK, PTL

\* A cleared entry is never served, changed or stamped anew: every step
\* leaves it as it was, removes it, or puts in its place an entry stored
\* under the current logical clock.
THEOREM ClearedEntriesStayCleared == Spec => ClearedStaysCleared
<1> DEFINE Kept ==
      \A k \in Keys : Stale(db, k) =>
          \/ ~Stored(db', k)
          \/ db'.dict[k] = db.dict[k] /\ Stale(db', k)
          \/ db'.dict[k].clk = db'.logiclock
<1>1. ASSUME IInv, EntriesOK(db), [Next]_vars
      PROVE  Kept
  <2>1. CASE Clear
    <3>1. db'.dict = db.dict /\ db'.logiclock = db.logiclock + 1
      BY <1>1, <2>1, ClearAges
    <3>2. db.logiclock \in Int
      BY <1>1 DEF IInv, DbOK, DbType
    <3>3. \A k \in Keys : Stored(db, k) => db.dict[k].clk \in Int
      BY <1>1, EntryStored DEF IInv
    <3> QED BY <3>1, <3>2, <3>3 DEF Stale, Stored
  <2>2. CASE Moves(db, db')
    BY <2>2 DEF Moves, Stale, Stored
  <2> QED BY <1>1, <2>1, <2>2, NextMoves
<1>2. IInv /\ EntriesOK(db) /\ [Next]_vars => [Kept]_vars
  BY <1>1
<1> QED BY <1>2, EntriesStayOK, PTL DEF Spec, ClearedStaysCleared

-----------------------------------------------------------------------------
(* Keyspace implements CacheContract.                                      *)


\* What the caller sees of a stored key, and of a whole database.
Seen(d, k) == [type |-> d.dict[k].type, val |-> d.dict[k].val,
               ver |-> d.dict[k].ver, due |-> d.expires[k]]

Visible(d) ==
    [k \in Keys |-> IF ~Stored(d, k) \/ Stale(d, k) THEN Absent ELSE Seen(d, k)]

\* The mapping.
LEMMA VisibleIs == VisibleCache = Visible(db)
BY DEF VisibleCache, Visible, Seen

\* After a step.
LEMMA VisibleNextIs == VisibleCache' = Visible(db')
BY DEF VisibleCache, Visible, Seen, Stored, Stale

\* A visible entry is not the mark of an absent one.
LEMMA SeenThere ==
    ASSUME NEW d, DbOK(d), NEW k \in Keys, Stored(d, k)
    PROVE  Seen(d, k) # Absent
<1>1. d.expires[k] \in Int \cup {NoTTL}
  BY DEF DbOK, DbType
<1>2. /\ d.dict[k].type \in {REDIS_STRING, REDIS_SET}
      /\ d.dict[k].val \in Int \cup Texts \cup SUBSET Elems
      /\ d.dict[k].ver \in 0 .. VersionMax
  BY EntryStored DEF HasValue
<1> QED BY <1>1, <1>2, VisibleMarkAssumption DEF Seen

\* The key seen through the mapping.
LEMMA VisibleAt ==
    ASSUME NEW d, DbOK(d), NEW k \in Keys, Fresh(d, k)
    PROVE  /\ Visible(d)[k] = IF Stored(d, k) THEN Seen(d, k) ELSE Absent
           /\ Visible(d)[k] = Absent <=> ~Stored(d, k)
<1>1. ~Stale(d, k)
  BY EntryStored DEF Fresh, Stale, DbOK, DbType
<1> QED BY <1>1, SeenThere DEF Visible

\* A change of one key is a change of one visible entry.
LEMMA VisibleOff ==
    ASSUME NEW d, NEW e, NEW k \in Keys, Off(d, e, k)
    PROVE  Visible(e) = [Visible(d) EXCEPT ![k] = Visible(e)[k]]
<1>1. \A i \in Keys \ {k} : Visible(e)[i] = Visible(d)[i]
  BY DEF Off, Visible, Seen, Stored, Stale
<1> QED BY <1>1 DEF Visible

\* A lookup: what it leaves is what the contract's lookup leaves, and it
\* finds the key exactly when the contract has a live entry.
LEMMA LookupSeen ==
    ASSUME IInv, EntriesOK(db), NEW k \in Keys
    PROVE  LET d == expireIfNeeded(db, k, now)
           IN  /\ DbOK(d) /\ EntriesOK(d) /\ Fresh(d, k) /\ Off(db, d, k)
               /\ Visible(d) = Contract!Looked(k)
               /\ Contract!Live(k) <=> Stored(d, k)
               /\ Stored(d, k) => /\ VisibleCache[k] = Seen(d, k)
                                  /\ Contract!Looked(k) = VisibleCache
               /\ Contract!LookedVersion(k) = LookupVersion(d, k)
<1> DEFINE d == expireIfNeeded(db, k, now)
<1>1. DbOK(d) /\ EntriesOK(d) /\ Fresh(d, k) /\ DbOK(db)
  BY LookupMoves DEF IInv
<1>2. Off(db, d, k)
  BY <1>1, CollectOff DEF expireIfNeeded, Off
<1>3. Visible(d) = [Visible(db) EXCEPT ![k] = Visible(d)[k]]
  BY <1>2, VisibleOff
<1>4. CASE ~Stored(db, k) \/ Stale(db, k)
  <2>1. Visible(db)[k] = Absent
    BY <1>4 DEF Visible
  <2>2. ~Stored(d, k)
    BY <1>1, <1>4, CollectOK DEF expireIfNeeded
  <2>3. Visible(d)[k] = Absent
    BY <2>2 DEF Visible
  <2>4. Visible(d) = Visible(db)
    BY <1>3, <2>1, <2>3 DEF Visible
  <2>5. ~Contract!Live(k) /\ Contract!Looked(k) = Visible(db)
    BY <2>1, VisibleIs DEF Contract!Live, Contract!Looked, Contract!Lapsed
  <2>6. Contract!LookedVersion(k) = LookupVersion(d, k)
    BY <2>2, <2>5 DEF Contract!LookedVersion, LookupVersion
  <2> HIDE DEF d
  <2> QED BY <1>1, <1>2, <2>2, <2>4, <2>5, <2>6 DEF d
<1>5. CASE Stored(db, k) /\ ~Stale(db, k)
  <2>1. Visible(db)[k] = Seen(db, k) /\ Seen(db, k) # Absent
    BY <1>1, <1>5, SeenThere DEF Visible
  <2>2. Contract!Lapsed(k) <=> Overdue(db, k, now)
    BY <2>1, VisibleIs DEF Contract!Lapsed, Overdue, Seen
  <2>3. CASE Overdue(db, k, now)
    <3>1. ~Stored(d, k)
      BY <1>1, <2>3, CollectOK DEF expireIfNeeded
    <3>2. Visible(d)[k] = Absent
      BY <3>1 DEF Visible
    <3>3. ~Contract!Live(k) /\ Contract!Looked(k) = Visible(d)
      BY <1>3, <2>2, <2>3, <3>2, VisibleIs DEF Contract!Live, Contract!Looked
    <3>4. Contract!LookedVersion(k) = LookupVersion(d, k)
      BY <3>1, <3>3 DEF Contract!LookedVersion, LookupVersion
    <3> HIDE DEF d
    <3> QED BY <1>1, <1>2, <3>1, <3>3, <3>4 DEF d
  <2>4. CASE ~Overdue(db, k, now)
    <3>1. d = db
      BY <1>5, <2>4 DEF expireIfNeeded
    <3>2. Contract!Live(k) /\ Contract!Looked(k) = Visible(db)
      BY <2>1, <2>2, <2>4, VisibleIs DEF Contract!Live, Contract!Looked
    <3>3. Contract!LookedVersion(k) = LookupVersion(d, k)
      BY <1>5, <2>1, <3>1, <3>2, VisibleIs DEF Contract!LookedVersion, LookupVersion, Seen
    <3> HIDE DEF d
    <3> QED BY <1>1, <1>2, <1>5, <2>1, <3>1, <3>2, <3>3, VisibleIs DEF d
  <2> QED BY <2>3, <2>4
<1> QED BY <1>4, <1>5

-----------------------------------------------------------------------------
(* The contract's actions, met by what a command does to a database.       *)

\* What a command says when it has stored entry x over what lookup found.
Stores(d, k, x) ==
    /\ Contract!Calls({"SET", "GETSET", "INCR", "SADD", "SREM"}, k)
    /\ \/ reply'.rc = "OK"
       \/ reply'.cmd = "GETSET" /\ reply'.rc = "NOT_EXIST" /\ ~Stored(d, k)
       \/ reply'.cmd = "SADD" /\ reply'.rc = "ALREADY_EXIST"
       \/ reply'.cmd = "SREM" /\ reply'.rc = "NOT_EXIST" /\ Stored(d, k)
    /\ x.type = IF reply'.cmd \in {"SADD", "SREM"} THEN REDIS_SET ELSE REDIS_STRING
    /\ Stored(d, k) =>
          /\ x.type = d.dict[k].type
          /\ x.ver \in {d.dict[k].ver, NextVersion(d.dict[k].ver)}
          /\ reply'.rc \in {"ALREADY_EXIST", "NOT_EXIST"} => x.val = d.dict[k].val
    /\ (~Stored(d, k) /\ reply'.cmd # "GETSET") => x.ver \in {0, NextVersion(0)}
    /\ reply'.ver = LookupVersion(d, k)
    /\ reply'.cmd = "GETSET" =>
          reply'.val = IF Stored(d, k) THEN d.dict[k].val ELSE Nil

\* A command that stores an entry is a Store.
LEMMA StoreStep ==
    ASSUME IInv, EntriesOK(db), NEW k \in Keys, NEW x, Leaves(db', x, k),
           Stores(expireIfNeeded(db, k, now), k, x)
    PROVE  Contract!Store(k) /\ db'.logiclock = db.logiclock
<1> DEFINE d == expireIfNeeded(db, k, now)
           f == db'
           new == VisibleCache'[k]
<1>1. /\ Contract!Live(k) <=> Stored(d, k)
      /\ Stored(d, k) => VisibleCache[k] = Seen(d, k)
      /\ Contract!LookedVersion(k) = LookupVersion(d, k)
  BY LookupSeen
<1>2. Stores(d, k, x) /\ Leaves(f, x, k)
  OBVIOUS
<1> HIDE DEF d, f
<1>3. /\ VisibleCache' = [VisibleCache EXCEPT ![k] = new]
      /\ new = Seen(f, k) /\ new # Absent
  BY <1>2, VisibleOff, VisibleAt, VisibleIs, VisibleNextIs DEF Leaves, f
<1>4. new.type = x.type /\ new.ver = x.ver /\ new.val = x.val
  BY <1>2, <1>3 DEF Leaves, Seen
<1>5. Stored(d, k) => /\ VisibleCache[k].type = d.dict[k].type
                      /\ VisibleCache[k].val = d.dict[k].val
                      /\ VisibleCache[k].ver = d.dict[k].ver
  BY <1>1 DEF Seen
<1> HIDE DEF new
<1>6. Contract!Store(k)
  <2>1. Contract!Calls({"SET", "GETSET", "INCR", "SADD", "SREM"}, k)
    BY <1>2 DEF Stores
  <2>2. reply'.rc = "OK" \/ (reply'.cmd = "GETSET" /\ reply'.rc = "NOT_EXIST")
              \/ (reply'.cmd = "SADD" /\ reply'.rc = "ALREADY_EXIST")
              \/ (reply'.cmd = "SREM" /\ reply'.rc = "NOT_EXIST" /\ Contract!Live(k))
    BY <1>1, <1>2 DEF Stores
  <2>3. new.type = IF reply'.cmd \in {"SADD", "SREM"} THEN REDIS_SET ELSE REDIS_STRING
    BY <1>2, <1>4 DEF Stores
  <2>4. Contract!Live(k) =>
              /\ new.type = VisibleCache[k].type
              /\ new.ver \in Contract!Successors(VisibleCache[k].ver)
              /\ reply'.rc \in {"ALREADY_EXIST", "NOT_EXIST"} => new.val = VisibleCache[k].val
    BY <1>1, <1>2, <1>4, <1>5 DEF Stores, NextVersion, Contract!Successors
  <2>5. (~Contract!Live(k) /\ reply'.cmd # "GETSET") => new.ver \in Contract!Successors(0)
    BY <1>1, <1>2, <1>4 DEF Stores, NextVersion, Contract!Successors
  <2>6. reply'.ver = Contract!LookedVersion(k)
    BY <1>1, <1>2 DEF Stores
  <2>7. reply'.cmd = "GETSET" =>
              reply'.val = IF Contract!Live(k) THEN VisibleCache[k].val ELSE Nil
    BY <1>1, <1>2, <1>5 DEF Stores
  <2> QED BY <1>3, <2>1, <2>2, <2>3, <2>4, <2>5, <2>6, <2>7 DEF Contract!Store, new
<1> QED BY <1>2, <1>6 DEF Leaves, Off, f

\* A command that leaves what its lookup left.
LEMMA LookStep ==
    ASSUME IInv, EntriesOK(db), NEW k \in Keys, db' = expireIfNeeded(db, k, now)
    PROVE  /\ VisibleCache' = Contract!Looked(k)
           /\ Stored(db', k) => VisibleCache' = VisibleCache
           /\ db'.logiclock = db.logiclock
BY LookupSeen, VisibleNextIs DEF Off

\* A write with an answer that refuses it, and the lookup's database.
LEMMA RefuseStep ==
    ASSUME IInv, EntriesOK(db), NEW k \in Keys,
           Contract!Calls({"SET", "GETSET", "INCR", "SADD", "SREM"}, k),
           LET d == expireIfNeeded(db, k, now)
           IN  \/ reply'.rc = "NOT_INTEGER" /\ db' \in {db, d}
               \/ /\ reply'.rc = "WRONG_TYPE" /\ db' = d /\ Stored(d, k)
                  /\ (d.dict[k].type = REDIS_STRING) #
                        (reply'.cmd \in {"SET", "GETSET", "INCR"})
               \/ /\ reply'.rc \in {"VERSION_ERROR", "LEN_LIMITED"}
                  /\ db' = d /\ Stored(d, k)
               \/ /\ reply'.rc = "ALREADY_EXIST" /\ reply'.cmd = "SET"
                  /\ db' = d /\ Stored(d, k)
               \/ /\ reply'.rc = "NOT_EXIST" /\ reply'.cmd = "SREM"
                  /\ db' = d /\ ~Stored(d, k)
    PROVE  Contract!Refuse(k) /\ db'.logiclock = db.logiclock
<1> DEFINE d == expireIfNeeded(db, k, now)
<1>1. /\ Contract!Live(k) <=> Stored(d, k)
      /\ Stored(d, k) => VisibleCache[k] = Seen(d, k)
  BY LookupSeen
<1>2. CASE db' = db
  <2>1. VisibleCache' = VisibleCache
    BY <1>2, VisibleIs, VisibleNextIs
  <2>2. reply'.rc = "NOT_INTEGER" \/ db' = d
    OBVIOUS
  <2>3. CASE reply'.rc = "NOT_INTEGER"
    BY <1>2, <2>1, <2>3 DEF Contract!Refuse
  <2>4. CASE db' = d
    BY <1>1, <2>4, LookStep DEF Contract!Refuse, Seen
  <2> QED BY <2>2, <2>3, <2>4
<1>3. CASE db' = d
  BY <1>1, <1>3, LookStep DEF Contract!Refuse, Seen
<1> QED BY <1>2, <1>3

\* SET and its family.
LEMMA SetRefines ==
    ASSUME IInv, EntriesOK(db), NEW k \in Keys, NEW nx, NEW v \in Values,
           NEW expire, expire = Nil \/ expire \in ExpireArgs, NEW r \in Request,
           setGenericCommand("SET", k, nx, v, expire, r)
    PROVE  (Contract!Refuse(k) \/ Contract!Store(k)) /\ db'.logiclock = db.logiclock
<1> DEFINE d == expireIfNeeded(db, k, now)
           x == Made(d, REDIS_STRING, v, WriteVersion(d, k, r))
<1>1. Contract!Calls({"SET", "GETSET", "INCR", "SADD", "SREM"}, k) /\ reply'.cmd = "SET"
  BY DEF setGenericCommand, Answer, Contract!Calls
<1>2. CASE reply'.rc = "NOT_INTEGER"
  <2>1. db' = db
    BY <1>2 DEF setGenericCommand, Answer
  <2> QED BY <1>1, <1>2, <2>1, RefuseStep
<1>3. CASE reply'.rc \in {"WRONG_TYPE", "VERSION_ERROR", "ALREADY_EXIST"}
  <2>1. /\ db' = d /\ Stored(d, k)
        /\ reply'.rc = "WRONG_TYPE" => d.dict[k].type # REDIS_STRING
    BY <1>3 DEF setGenericCommand, Answer, HasType, VersionOK
  <2> HIDE DEF x
  <2> QED BY <1>1, <1>3, <2>1, RefuseStep
<1>4. CASE reply'.rc = "OK"
  <2>1. HasType(d, k, REDIS_STRING) /\ Leaves(db', x, k)
    BY <1>4, SetLeaves
  <2>2. reply'.ver = LookupVersion(d, k)
    BY <1>4 DEF setGenericCommand, Answer
  <2>3. x.type = REDIS_STRING /\ x.ver = WriteVersion(d, k, r)
    BY DEF Made
  <2>4. Stores(d, k, x)
    <3> HIDE DEF d, x
    <3> QED BY <1>1, <1>4, <2>1, <2>2, <2>3
            DEF Stores, HasType, WriteVersion, LookupVersion
  <2> HIDE DEF x
  <2> QED BY <2>1, <2>4, StoreStep
<1>5. reply'.rc \in {"NOT_INTEGER", "WRONG_TYPE", "VERSION_ERROR", "ALREADY_EXIST", "OK"}
  BY DEF setGenericCommand, Answer
<1> QED BY <1>2, <1>3, <1>4, <1>5

\* GETSET.
LEMMA GetsetRefines ==
    ASSUME IInv, EntriesOK(db), NEW k \in Keys, NEW v \in Values, NEW r \in Request,
           Getset(k, v, r)
    PROVE  (Contract!Refuse(k) \/ Contract!Store(k)) /\ db'.logiclock = db.logiclock
<1> DEFINE d == expireIfNeeded(db, k, now)
           w == IF Stored(d, k) THEN d.dict[k].ver ELSE r.ver
           x == Made(d, REDIS_STRING, v, w)
<1>1. Contract!Calls({"SET", "GETSET", "INCR", "SADD", "SREM"}, k) /\ reply'.cmd = "GETSET"
  BY DEF Getset, Answer, Contract!Calls
<1>2. CASE reply'.rc = "WRONG_TYPE"
  <2>1. db' = d /\ Stored(d, k) /\ d.dict[k].type # REDIS_STRING
    BY <1>2 DEF Getset, Answer, HasType
  <2> HIDE DEF x, w
  <2> QED BY <1>1, <1>2, <2>1, RefuseStep
<1>3. CASE reply'.rc \in {"OK", "NOT_EXIST"}
  <2>1. Leaves(db', x, k)
    BY <1>3, GetsetLeaves
  <2>2. /\ reply'.rc = "NOT_EXIST" <=> ~Stored(d, k)
        /\ Stored(d, k) => d.dict[k].type = REDIS_STRING
        /\ reply'.ver = LookupVersion(d, k)
        /\ reply'.val = IF Stored(d, k) THEN d.dict[k].val ELSE Nil
    BY <1>3 DEF Getset, Answer, HasType
  <2>3. x.type = REDIS_STRING /\ x.ver = w /\ (Stored(d, k) => w = d.dict[k].ver)
    BY DEF Made
  <2>4. Stores(d, k, x)
    <3> HIDE DEF d, x, w
    <3> QED BY <1>1, <1>3, <2>2, <2>3 DEF Stores
  <2> HIDE DEF x
  <2> QED BY <2>1, <2>4, StoreStep
<1>4. reply'.rc \in {"WRONG_TYPE", "OK", "NOT_EXIST"}
  BY DEF Getset, Answer
<1> QED BY <1>2, <1>3, <1>4

\* INCR and its family.
LEMMA IncrDecrRefines ==
    ASSUME IInv, EntriesOK(db), NEW k \in Keys, NEW init \in IncrArgs \cup {0},
           NEW incr \in IncrArgs, NEW r \in Request, incrDecrCommand(k, init, incr, r)
    PROVE  (Contract!Refuse(k) \/ Contract!Store(k)) /\ db'.logiclock = db.logiclock
<1> DEFINE d == expireIfNeeded(db, k, now)
<1>1. Contract!Calls({"SET", "GETSET", "INCR", "SADD", "SREM"}, k) /\ reply'.cmd = "INCR"
  BY DEF incrDecrCommand, Answer, Contract!Calls
<1>2. CASE reply'.rc = "NOT_INTEGER"
  <2>1. db' \in {db, d}
    BY <1>2 DEF incrDecrCommand, Answer
  <2> QED BY <1>1, <1>2, <2>1, RefuseStep
<1>3. CASE reply'.rc \in {"WRONG_TYPE", "VERSION_ERROR"}
  <2>1. /\ db' = d /\ Stored(d, k)
        /\ reply'.rc = "WRONG_TYPE" => d.dict[k].type # REDIS_STRING
    BY <1>3 DEF incrDecrCommand, Answer, HasType, VersionOK
  <2> QED BY <1>1, <1>3, <2>1, RefuseStep
<1>4. CASE reply'.rc = "OK"
  <2>1. HasType(d, k, REDIS_STRING)
    BY <1>4, IncrDecrLeaves
  <2>2. PICK sum : Leaves(db', Made(d, REDIS_STRING, sum, WriteVersion(d, k, r)), k)
    BY <1>4, IncrDecrLeaves
  <2> DEFINE x == Made(d, REDIS_STRING, sum, WriteVersion(d, k, r))
  <2>3. reply'.ver = LookupVersion(d, k)
    BY <1>4 DEF incrDecrCommand, Answer
  <2>4. x.type = REDIS_STRING /\ x.ver = WriteVersion(d, k, r)
    BY DEF Made
  <2>5. Stores(d, k, x)
    <3> HIDE DEF d, x
    <3> QED BY <1>1, <1>4, <2>1, <2>3, <2>4
            DEF Stores, HasType, WriteVersion, LookupVersion
  <2>6. Leaves(db', x, k)
    BY <2>2
  <2> HIDE DEF x
  <2> QED BY <2>5, <2>6, StoreStep
<1>5. reply'.rc \in {"NOT_INTEGER", "WRONG_TYPE", "VERSION_ERROR", "OK"}
  BY DEF incrDecrCommand, Answer
<1> QED BY <1>2, <1>3, <1>4, <1>5

\* SADD: a member already there leaves the set as it is.
LEMMA SaddRefines ==
    ASSUME IInv, EntriesOK(db), NEW k \in Keys, NEW e \in Elems, NEW r \in Request,
           Sadd(k, e, r)
    PROVE  (Contract!Refuse(k) \/ Contract!Store(k)) /\ db'.logiclock = db.logiclock
<1> DEFINE d == expireIfNeeded(db, k, now)
           old == IF Stored(d, k) THEN d.dict[k].val ELSE {}
           all == old \cup {e}
           x == Made(d, REDIS_SET, all, WriteVersion(d, k, r))
<1>1. DbOK(d) /\ EntriesOK(d) /\ Fresh(d, k) /\ Off(db, d, k)
  BY LookupSeen
<1>2. Contract!Calls({"SET", "GETSET", "INCR", "SADD", "SREM"}, k) /\ reply'.cmd = "SADD"
  BY DEF Sadd, Answer, Contract!Calls
<1>3. CASE reply'.rc \in {"VERSION_ERROR", "WRONG_TYPE"}
  <2>1. /\ db' = d /\ Stored(d, k)
        /\ reply'.rc = "WRONG_TYPE" => d.dict[k].type # REDIS_SET
    BY <1>3 DEF Sadd, Answer, HasType, VersionOK
  <2>2. reply'.rc = "WRONG_TYPE" => d.dict[k].type = REDIS_STRING
    BY <1>1, <2>1, EntryStored DEF HasValue
  <2> HIDE DEF old, all, x
  <2> QED BY <1>2, <1>3, <2>1, <2>2, RefuseStep
<1>4. CASE reply'.rc = "LEN_LIMITED"
  <2>1. db' = d /\ e \notin old /\ Cardinality(old) + 1 > SetMax
    BY <1>4 DEF Sadd, Answer
  <2>2. Stored(d, k)
    <3>1. SUFFICES ASSUME ~Stored(d, k) PROVE FALSE
      OBVIOUS
    <3>2. Cardinality(old) = 0
      BY <3>1, FS_EmptySet
    <3> HIDE DEF old
    <3> QED BY <2>1, <3>2, NumberAssumption
  <2> HIDE DEF old, all, x
  <2> QED BY <1>2, <1>4, <2>1, <2>2, RefuseStep
<1>5. CASE reply'.rc \in {"ALREADY_EXIST", "OK"}
  <2>1. /\ HasType(d, k, REDIS_SET) /\ Leaves(db', x, k)
        /\ reply'.rc = "ALREADY_EXIST" => e \in old
    BY <1>5, SaddLeaves
  <2>2. reply'.ver = LookupVersion(d, k)
    BY <1>5 DEF Sadd, Answer
  <2>3. x.type = REDIS_SET /\ x.ver = WriteVersion(d, k, r) /\ x.val = all
    BY DEF Made
  <2>4. (Stored(d, k) /\ reply'.rc = "ALREADY_EXIST") => all = d.dict[k].val
    BY <2>1
  <2>5. Stores(d, k, x)
    <3> HIDE DEF d, x, all
    <3> QED BY <1>2, <1>5, <2>1, <2>2, <2>3, <2>4
            DEF Stores, HasType, WriteVersion, LookupVersion
  <2> HIDE DEF x
  <2> QED BY <2>1, <2>5, StoreStep
<1>6. reply'.rc \in {"VERSION_ERROR", "WRONG_TYPE", "LEN_LIMITED", "ALREADY_EXIST", "OK"}
  BY DEF Sadd, Answer
<1> QED BY <1>3, <1>4, <1>5, <1>6

\* A set deleted with its last member.
LEMMA DeleteStep ==
    ASSUME IInv, EntriesOK(db), NEW k \in Keys,
           Contract!Calls({"SREM"}, k), reply'.rc = "OK",
           reply'.ver = LookupVersion(expireIfNeeded(db, k, now), k),
           Off(db, db', k), ~Stored(db', k)
    PROVE  Contract!Store(k) /\ db'.logiclock = db.logiclock
<1> DEFINE new == VisibleCache'[k]
<1>1. reply'.ver = Contract!LookedVersion(k)
  BY LookupSeen
<1>2. new = Absent
  BY VisibleNextIs DEF Visible
<1>3. VisibleCache' = [VisibleCache EXCEPT ![k] = new]
  BY VisibleOff, VisibleIs, VisibleNextIs
<1> HIDE DEF new
<1> QED BY <1>1, <1>2, <1>3 DEF Contract!Store, Contract!Calls, Off, new

\* SREM.
LEMMA SremRefines ==
    ASSUME IInv, EntriesOK(db), NEW k \in Keys, NEW e \in Elems, NEW r \in Request,
           Srem(k, e, r)
    PROVE  (Contract!Refuse(k) \/ Contract!Store(k)) /\ db'.logiclock = db.logiclock
<1> DEFINE d == expireIfNeeded(db, k, now)
           left == d.dict[k].val \ {e}
           x == Made(d, REDIS_SET, left, WriteVersion(d, k, r))
<1>1. /\ Contract!Calls({"SET", "GETSET", "INCR", "SADD", "SREM"}, k)
      /\ reply'.cmd = "SREM" /\ reply'.ver = LookupVersion(d, k)
  BY DEF Srem, Answer, Contract!Calls
<1>2. DbOK(d)
  BY LookupSeen
<1>3. CASE reply'.rc \in {"VERSION_ERROR", "WRONG_TYPE"}
  <2>1. /\ db' = d /\ Stored(d, k)
        /\ reply'.rc = "WRONG_TYPE" => d.dict[k].type # REDIS_SET
    BY <1>3 DEF Srem, Answer, HasType, VersionOK
  <2>2. reply'.rc = "WRONG_TYPE" => d.dict[k].type = REDIS_STRING
    BY <1>2, <2>1, EntryStored DEF HasValue
  <2> HIDE DEF left, x
  <2> QED BY <1>1, <1>3, <2>1, <2>2, RefuseStep
<1>4. CASE reply'.rc \in {"NOT_EXIST", "OK"}
  <2>1. IF ~Stored(d, k) THEN reply'.rc = "NOT_EXIST" /\ db' = d
        ELSE /\ d.dict[k].type = REDIS_SET
             /\ IF reply'.rc = "NOT_EXIST" THEN Leaves(db', d.dict[k], k)
                ELSE IF left = {} THEN Off(db, db', k) /\ ~Stored(db', k)
                ELSE Leaves(db', x, k)
    BY <1>4, SremLeaves
  <2>2. CASE ~Stored(d, k)
    <3> HIDE DEF left, x
    <3> QED BY <1>1, <2>1, <2>2, RefuseStep
  <2>3. CASE Stored(d, k) /\ reply'.rc = "NOT_EXIST"
    <3> DEFINE y == d.dict[k]
    <3>1. Leaves(db', y, k)
      BY <2>1, <2>3
    <3>2. Stores(d, k, y)
      <4> HIDE DEF d
      <4> QED BY <1>1, <2>1, <2>3 DEF Stores
    <3> HIDE DEF y
    <3> QED BY <3>1, <3>2, StoreStep
  <2>4. CASE Stored(d, k) /\ reply'.rc = "OK" /\ left # {}
    <3>1. Leaves(db', x, k)
      BY <2>1, <2>4
    <3>2. x.type = REDIS_SET /\ x.ver = WriteVersion(d, k, r)
      BY DEF Made
    <3>3. Stores(d, k, x)
      <4> HIDE DEF d, x, left
      <4> QED BY <1>1, <2>1, <2>4, <3>2 DEF Stores, WriteVersion, LookupVersion
    <3> HIDE DEF x
    <3> QED BY <3>1, <3>3, StoreStep
  <2>5. CASE Stored(d, k) /\ reply'.rc = "OK" /\ left = {}
    <3>1. Off(db, db', k) /\ ~Stored(db', k)
      BY <2>1, <2>5
    <3> HIDE DEF left, x
    <3> QED BY <1>1, <2>5, <3>1, DeleteStep DEF Contract!Calls
  <2> QED BY <1>4, <2>2, <2>3, <2>4, <2>5
<1>5. reply'.rc \in {"VERSION_ERROR", "WRONG_TYPE", "NOT_EXIST", "OK"}
  BY DEF Srem, Answer
<1> QED BY <1>3, <1>4, <1>5

-----------------------------------------------------------------------------
(* The commands that write no entry, and the rest.                         *)

\* GET, EXISTS and TYPE are a Lookup, TTL an Inspect.
LEMMA ReadRefines ==
    ASSUME IInv, EntriesOK(db), NEW k \in Keys, Read(k)
    PROVE  (Contract!Lookup(k) \/ Contract!Inspect(k)) /\ db'.logiclock = db.logiclock
<1> DEFINE d == expireIfNeeded(db, k, now)
<1>1. /\ Contract!Live(k) <=> Stored(d, k)
      /\ Stored(d, k) => VisibleCache[k] = Seen(d, k)
      /\ Contract!LookedVersion(k) = LookupVersion(d, k)
  BY LookupSeen
<1>2. Stored(d, k) => /\ VisibleCache[k].type = d.dict[k].type
                      /\ VisibleCache[k].val = d.dict[k].val
  BY <1>1 DEF Seen
<1>3. CASE Ttl(k)
  <2>1. /\ db' = db /\ reply'.cmd = "TTL" /\ reply'.key = k
        /\ Stored(db, k) => reply'.rc = "OK"
    BY <1>3 DEF Ttl, Answer
  <2>2. VisibleCache' = VisibleCache
    BY <2>1, VisibleIs, VisibleNextIs
  <2>3. VisibleCache[k] # Absent => Stored(db, k)
    BY VisibleIs DEF Visible
  <2> QED BY <2>1, <2>2, <2>3 DEF Contract!Inspect, Contract!Calls
<1>4. ASSUME Get(k) \/ Exists(k) \/ TypeOf(k)
      PROVE  Contract!Lookup(k) /\ db'.logiclock = db.logiclock
  <2>1. db' = d
    BY <1>4 DEF Get, Exists, TypeOf
  <2>2. VisibleCache' = Contract!Looked(k) /\ db'.logiclock = db.logiclock
    BY <2>1, LookStep
  <2>3. CASE Get(k)
    <3>1. /\ reply'.cmd = "GET" /\ reply'.key = k /\ reply'.ver = LookupVersion(d, k)
          /\ \/ ~Stored(d, k) /\ reply'.rc = "NOT_EXIST"
             \/ /\ Stored(d, k) /\ d.dict[k].type # REDIS_STRING
                /\ reply'.rc = "WRONG_TYPE"
             \/ /\ Stored(d, k) /\ d.dict[k].type = REDIS_STRING
                /\ reply'.rc = "OK" /\ reply'.val = d.dict[k].val
      BY <2>3 DEF Get, Answer, HasType
    <3> HIDE DEF d
    <3> QED BY <1>1, <1>2, <2>2, <3>1 DEF Contract!Lookup, Contract!Calls
  <2>4. CASE Exists(k)
    <3>1. /\ reply'.cmd = "EXISTS" /\ reply'.key = k /\ reply'.val = Nil
          /\ reply'.rc = IF Stored(d, k) THEN "OK" ELSE "NOT_EXIST"
      BY <2>4 DEF Exists, Answer
    <3> HIDE DEF d
    <3> QED BY <1>1, <2>2, <3>1 DEF Contract!Lookup, Contract!Calls
  <2>5. CASE TypeOf(k)
    <3>1. /\ reply'.cmd = "TYPE" /\ reply'.key = k /\ reply'.ver = LookupVersion(d, k)
          /\ \/ ~Stored(d, k) /\ reply'.rc = "NOT_EXIST"
             \/ Stored(d, k) /\ reply'.rc = "OK" /\ reply'.val = d.dict[k].type
      BY <2>5 DEF TypeOf, Answer
    <3> HIDE DEF d
    <3> QED BY <1>1, <1>2, <2>2, <3>1 DEF Contract!Lookup, Contract!Calls
  <2> QED BY <1>4, <2>2, <2>3, <2>4, <2>5
<1> QED BY <1>3, <1>4 DEF Read

\* EXPIRE and PERSIST are an Inspect: on a cleared entry, which the caller
\* does not see, they change nothing visible.
LEMMA ExpireRefines ==
    ASSUME IInv, NEW k \in Keys, Persist(k) \/ \E s \in ExpireArgs : Expire(k, s)
    PROVE  Contract!Inspect(k) /\ db'.logiclock = db.logiclock
<1>1. /\ Contract!Calls({"EXPIRE", "PERSIST", "TTL"}, k) /\ reply'.cmd # "TTL"
      /\ reply'.rc # "OK" => db' = db
      /\ Stored(db, k) => reply'.rc \in {"OK", "NOT_INTEGER"}
  BY DEF Persist, Expire, Answer, Contract!Calls
<1>2. DbOK(db)
  BY DEF IInv
<1>3. db' = db \/ (\E when : db' = setExpire(db, k, when)) \/ db' = removeExpire(db, k)
  BY DEF Persist, Expire
<1>4. Off(db, db', k) /\ db'.dict = db.dict
  <2>1. Off(db, db, k)
    BY DEF Off
  <2> QED BY <1>2, <1>3, <2>1, DeadlineOff
<1>5. DbOK(db')
  BY ExpireOK DEF IInv
<1> DEFINE e == db'
<1>6. VisibleCache' = [VisibleCache EXCEPT ![k] = Visible(e)[k]]
  <2> HIDE DEF e
  <2> QED BY <1>4, VisibleOff, VisibleIs, VisibleNextIs DEF e
<1>7. CASE ~Stored(db, k) \/ Stale(db, k)
  <2>1. VisibleCache[k] = Absent /\ Visible(e)[k] = Absent
    BY <1>4, <1>7, VisibleIs DEF Visible, Stored, Stale, Off
  <2>2. VisibleCache' = VisibleCache
    <3> HIDE DEF e
    <3> QED BY <1>6, <2>1, VisibleIs DEF Visible
  <2> QED BY <1>1, <1>4, <2>1, <2>2 DEF Contract!Inspect, Off
<1>8. CASE Stored(db, k) /\ ~Stale(db, k)
  <2>1. /\ VisibleCache[k] = Seen(db, k) /\ Visible(e)[k] = Seen(e, k)
        /\ Seen(e, k) # Absent /\ Seen(db, k) # Absent
    BY <1>2, <1>4, <1>5, <1>8, SeenThere, VisibleIs DEF Visible, Stored, Stale, Off
  <2>2. Seen(e, k) = [Seen(db, k) EXCEPT !.due = Seen(e, k).due]
    BY <1>4 DEF Seen
  <2>3. VisibleCache'[k] = Seen(e, k)
    BY <2>1, VisibleNextIs
  <2>4. VisibleCache' = [VisibleCache EXCEPT ![k].due = VisibleCache'[k].due]
    <3> HIDE DEF e
    <3> QED BY <1>6, <2>1, <2>2, <2>3
  <2>5. reply'.rc # "OK" => VisibleCache' = VisibleCache
    BY <1>1, VisibleIs, VisibleNextIs
  <2> HIDE DEF e
  <2> QED BY <1>1, <1>4, <1>8, <2>1, <2>3, <2>4, <2>5 DEF Contract!Inspect, Off
<1> QED BY <1>7, <1>8

\* Keys collected or deleted are dropped from what the caller sees.
Drops(d, e, S) ==
    /\ e.logiclock = d.logiclock
    /\ \A k \in Keys : e.dict[k] = IF k \in S THEN Absent ELSE d.dict[k]
    /\ \A k \in Keys : k \notin S => e.expires[k] = d.expires[k]

LEMMA DropSeen ==
    ASSUME NEW d, NEW e, NEW S \in SUBSET Keys, Drops(d, e, S)
    PROVE  Visible(e) = [k \in Keys |-> IF k \in S THEN Absent ELSE Visible(d)[k]]
BY DEF Drops, Visible, Seen, Stored, Stale

\* The instance of the contract counts as its own module does.
LEMMA SameCardinality == \A S : Contract!Cardinality(S) = Cardinality(S)
BY DEF Contract!Cardinality, Cardinality

\* DEL drops what it names, and counts at least the entries the caller saw.
LEMMA DelRefines ==
    ASSUME IInv, NEW S \in (SUBSET Keys) \ {{}}, Del(S)
    PROVE  Contract!Delete /\ db'.logiclock = db.logiclock
<1> DEFINE gone == {k \in S : Stored(db, k)}
           seen == {k \in S : VisibleCache[k] # Absent}
           e == db'
<1>1. /\ e.dict = [k \in Keys |-> IF k \in S THEN Absent ELSE db.dict[k]]
      /\ e.expires = [k \in Keys |-> IF k \in S THEN NoTTL ELSE db.expires[k]]
      /\ e.logiclock = db.logiclock
  BY DEF Del, IInv, DbOK, DbType
<1>2. /\ Contract!Calls({"DEL"}, S) /\ reply'.val = Cardinality(gone)
      /\ reply'.rc = IF gone = {} THEN "NOT_EXIST" ELSE "OK"
  BY DEF Del, Answer, Contract!Calls
<1>3. VisibleCache' = [k \in Keys |-> IF k \in S THEN Absent ELSE VisibleCache[k]]
  <2>1. S \in SUBSET Keys
    OBVIOUS
  <2> HIDE DEF e
  <2>2. Drops(db, e, S)
    BY <1>1 DEF Drops
  <2>3. Visible(e) = [k \in Keys |-> IF k \in S THEN Absent ELSE Visible(db)[k]]
    BY ONLY <2>1, <2>2, DropSeen
  <2> QED BY <2>3, VisibleIs, VisibleNextIs DEF e
<1>4. seen \subseteq gone
  BY VisibleIs DEF Visible
<1>5. IsFiniteSet(gone)
  BY KeysAssumption, FS_Subset
<1> HIDE DEF gone, seen
<1>6. /\ IsFiniteSet(seen) /\ Cardinality(seen) <= Cardinality(gone)
      /\ Cardinality(gone) \in Nat /\ Cardinality(seen) \in Nat
      /\ Cardinality(gone) = 0 <=> gone = {}
  BY <1>4, <1>5, FS_Subset, FS_CardinalityType, FS_EmptySet
<1>7. /\ reply'.val >= Cardinality(seen)
      /\ reply'.rc = IF reply'.val > 0 THEN "OK" ELSE "NOT_EXIST"
  BY <1>2, <1>6
<1>8. reply'.val >= Contract!Cardinality({k \in S : VisibleCache[k] # Absent})
  BY <1>7, SameCardinality DEF seen
<1> HIDE DEF e
<1> QED BY <1>1, <1>2, <1>3, <1>7, <1>8 DEF Contract!Delete, e

\* The collections, and emptyDb, are a Vanish.
LEMMA CollectingRefines ==
    ASSUME IInv, RandomKey \/ Cron \/ EmptyDb \/ \E k \in Keys : Evict(k)
    PROVE  Contract!Vanish /\ db'.logiclock = db.logiclock
<1> DEFINE e == db'
<1>1. \E S \in SUBSET Keys : Drops(db, e, S)
  <2>1. CASE EmptyDb
    <3>1. Drops(db, e, Keys)
      BY <2>1 DEF EmptyDb, IInv, DbOK, DbType, Drops
    <3> HIDE DEF e
    <3> QED BY <3>1
  <2>2. CASE RandomKey \/ Cron \/ \E k \in Keys : Evict(k)
    <3>1. PICK S \in SUBSET Keys : e = Collect(db, S)
      BY <2>2 DEF RandomKey, Cron, ActiveExpireCycle, Evict
    <3>2. /\ e.logiclock = db.logiclock
          /\ e.dict = [k \in Keys |-> IF k \in S THEN Absent ELSE db.dict[k]]
          /\ e.expires = [k \in Keys |-> IF k \in S THEN NoTTL ELSE db.expires[k]]
      BY <3>1 DEF Collect, IInv, DbOK, DbType
    <3> HIDE DEF e
    <3>3. Drops(db, e, S)
      BY <3>2 DEF Drops
    <3> QED BY <3>3
  <2> QED BY <2>1, <2>2
<1> HIDE DEF e
<1>2. PICK S \in SUBSET Keys : Drops(db, e, S)
  BY <1>1
<1>3. Visible(e) = [k \in Keys |-> IF k \in S THEN Absent ELSE Visible(db)[k]]
  BY ONLY <1>2, DropSeen
<1>4. e.logiclock = db.logiclock
  BY <1>2 DEF Drops
<1> QED BY <1>3, <1>4, VisibleIs, VisibleNextIs DEF Contract!Vanish, e

\* After the clear the caller sees nothing.
LEMMA ClearRefines ==
    ASSUME IInv, EntriesOK(db), Clear
    PROVE  VisibleCache' = [k \in Keys |-> Absent] /\ db'.logiclock = db.logiclock + 1
<1> DEFINE e == db'
<1>1. e.dict = db.dict /\ e.logiclock = db.logiclock + 1
  BY ClearAges
<1>2. ASSUME NEW k \in Keys, Stored(e, k)
      PROVE  Stale(e, k)
  <2>1. Stored(db, k)
    BY <1>1, <1>2 DEF Stored
  <2>2. db.dict[k].clk \in Int /\ db.logiclock \in Int
    BY <2>1, EntryStored DEF IInv, DbOK, DbType
  <2> QED BY <1>1, <1>2, <2>1, <2>2 DEF Stale, EntriesOK
<1> HIDE DEF e
<1> QED BY <1>1, <1>2, VisibleNextIs DEF Visible, e

-----------------------------------------------------------------------------

\* The empty database maps to the empty cache.
LEMMA InitRefines == Init => Contract!Init
<1> SUFFICES ASSUME Init PROVE Contract!Init
  OBVIOUS
<1>1. VisibleCache = [k \in Keys |-> Absent]
  BY DEF Init, VisibleCache, Stored
<1> QED BY <1>1, NumberAssumption DEF Init, Contract!Init

\* Every step maps to a step of the contract or to a stutter.
LEMMA NextRefines ==
    ASSUME IInv, EntriesOK(db), [Next]_vars
    PROVE  [Contract!Next]_(Contract!vars)
<1>1. CASE UNCHANGED vars
  <2>1. UNCHANGED <<VisibleCache, db.logiclock, now, reply>>
    BY <1>1, VisibleIs, VisibleNextIs DEF vars
  <2> QED BY <2>1 DEF Contract!vars
<1>2. CASE Tick
  <2>1. UNCHANGED <<VisibleCache, db.logiclock, reply>> /\ now' = now + 1
    BY <1>2, VisibleIs, VisibleNextIs DEF Tick
  <2> QED BY <2>1 DEF Contract!Next
<1>3. CASE Clear
  BY <1>3, ClearRefines DEF Clear, Contract!Next
<1>4. CASE \E k \in Keys, r \in Request : Write(k, r)
  <2>1. PICK k \in Keys, r \in Request : Write(k, r)
    BY <1>4
  <2>2. (Contract!Refuse(k) \/ Contract!Store(k)) /\ db'.logiclock = db.logiclock
    <3>1. CASE \E v \in Values : Set(k, v, r) \/ Setnx(k, v, r)
      BY <3>1, SetRefines DEF Set, Setnx
    <3>2. CASE \E v \in Values, s \in ExpireArgs : Setex(k, v, s, r) \/ Setnxex(k, v, s, r)
      BY <3>2, SetRefines DEF Setex, Setnxex
    <3>3. CASE \E v \in Values : Getset(k, v, r)
      BY <3>3, GetsetRefines
    <3>4. CASE \E init \in IncrArgs \cup {0}, incr \in IncrArgs :
                 incrDecrCommand(k, init, incr, r)
      BY <3>4, IncrDecrRefines
    <3>5. CASE \E e \in Elems : Sadd(k, e, r) \/ Srem(k, e, r)
      BY <3>5, SaddRefines, SremRefines
    <3> QED BY <2>1, <3>1, <3>2, <3>3, <3>4, <3>5 DEF Write
  <2>3. now' = now
    BY <2>1 DEF Write, Set, Setnx, Setex, Setnxex, setGenericCommand, Getset,
                incrDecrCommand, Sadd, Srem
  <2> QED BY <2>2, <2>3 DEF Contract!Next
<1>5. ASSUME NEW k \in Keys, Read(k)
      PROVE  Contract!Next
  <2>1. now' = now
    BY <1>5 DEF Read, Get, Exists, TypeOf, Ttl
  <2> QED BY <1>5, <2>1, ReadRefines DEF Contract!Next
<1>6. ASSUME NEW k \in Keys, Persist(k) \/ \E s \in ExpireArgs : Expire(k, s)
      PROVE  Contract!Next
  <2>1. now' = now
    BY <1>6 DEF Persist, Expire
  <2> QED BY <1>6, <2>1, ExpireRefines DEF Contract!Next
<1>7. ASSUME NEW S \in (SUBSET Keys) \ {{}}, Del(S)
      PROVE  Contract!Next
  <2>1. now' = now
    BY <1>7 DEF Del
  <2> QED BY <1>7, <2>1, DelRefines DEF Contract!Next
<1>8. CASE RandomKey
  <2>1. /\ now' = now
        /\ \/ Contract!Calls({"RANDOMKEY"}, Nil)
           \/ \E k \in Keys : Contract!Calls({"RANDOMKEY"}, k)
    BY <1>8 DEF RandomKey, Answer, Contract!Calls
  <2> QED BY <1>8, <2>1, CollectingRefines DEF Contract!Next
<1>9. CASE Cron \/ EmptyDb \/ \E k \in Keys : Evict(k)
  <2>1. now' = now /\ reply' = reply
    BY <1>9 DEF Cron, ActiveExpireCycle, EmptyDb, Evict
  <2> QED BY <1>9, <2>1, CollectingRefines DEF Contract!Next
<1> QED BY <1>1, <1>2, <1>3, <1>4, <1>5, <1>6, <1>7, <1>8, <1>9 DEF Next

\* Seen through the commands, the store is the versioned cache of
\* CacheContract: its lazy lookups, random collections and logical clears
\* cannot be told from an instant clear and instant expiry.
THEOREM KeyspaceImplementsContract == Spec => ImplementsContract
<1>1. IInv /\ EntriesOK(db) /\ [Next]_vars => [Contract!Next]_(Contract!vars)
  BY NextRefines
<1> QED BY <1>1, InitRefines, EntriesStayOK, PTL
        DEF Spec, ImplementsContract, Contract!Spec

-----------------------------------------------------------------------------
(* Clients that check versions.                                            *)

\* What one client holds fits the database.
Tracks(d, m) ==
    (m # Nil /\ ~m.gone /\ ~m.plain) =>
        /\ Stored(d, m.key)
        /\ m.writes <= VersionMax =>
              d.dict[m.key].ver = (m.ver + m.writes) % (VersionMax + 1)

CInv ==
    /\ IInv /\ EntriesOK(db)
    /\ held \in [Clients -> Memory \cup {Nil}]
    /\ \A c \in Clients : Tracks(db, held[c])

-----------------------------------------------------------------------------
(* Versions on their circle.                                               *)

\* Remainders of less than two turns.
LEMMA OneTurn ==
    ASSUME NEW n \in Nat \ {0}, NEW a \in Nat, a < 2 * n
    PROVE  (a % n) = IF a < n THEN a ELSE a - n
OBVIOUS

\* One write further on the circle.
LEMMA NextOnCircle ==
    ASSUME NEW v \in 0 .. VersionMax, NEW w \in Nat, w < VersionMax
    PROVE  NextVersion((v + w) % (VersionMax + 1)) = (v + (w + 1)) % (VersionMax + 1)
<1> DEFINE n == VersionMax + 1
<1>1. n \in Nat \ {0} /\ v + w \in Nat /\ v + (w + 1) \in Nat
      /\ v + w < 2 * n /\ v + (w + 1) < 2 * n
  BY NumberAssumption
<1>2. ((v + w) % n) = IF v + w < n THEN v + w ELSE (v + w) - n
  BY <1>1, OneTurn
<1>3. ((v + (w + 1)) % n) = IF v + (w + 1) < n THEN v + (w + 1) ELSE (v + (w + 1)) - n
  BY <1>1, OneTurn
<1> DEFINE a == (v + w) % n
           b == (v + (w + 1)) % n
<1> HIDE DEF a, b
<1>4. NextVersion(a) = b
  BY <1>2, <1>3, NumberAssumption DEF NextVersion, a, b
<1> QED BY <1>4 DEF a, b

\* The circle is not closed before VersionMax + 1 writes.
LEMMA SameVersion ==
    ASSUME NEW v \in 0 .. VersionMax, NEW w \in 0 .. VersionMax,
           v = (v + w) % (VersionMax + 1)
    PROVE  w = 0
<1> DEFINE n == VersionMax + 1
<1>1. n \in Nat \ {0} /\ v + w \in Nat /\ v + w < 2 * n
  BY NumberAssumption
<1>2. ((v + w) % n) = IF v + w < n THEN v + w ELSE (v + w) - n
  BY <1>1, OneTurn
<1> QED BY <1>2, NumberAssumption

-----------------------------------------------------------------------------
(* What a write does to the version of its key.                            *)

\* Another key is left alone.  A key that was there, not expired, and still
\* is has moved by one version if a guarded write has gone through, and
\* has its old version if no write has.
Counts(k, r) ==
    /\ Off(db, db', k)
    /\ (Stored(db', k) /\ (reply'.rc = "NOT_INTEGER" \/ ~Expired(k))) =>
          IF Succeeded
          THEN (Stored(db, k) /\ r.care /\ reply'.cmd # "GETSET") =>
                  db'.dict[k].ver = NextVersion(db.dict[k].ver)
          ELSE db'.dict[k].ver = db.dict[k].ver

\* A refused write.
LEMMA RefusedCounts ==
    ASSUME IInv, EntriesOK(db), NEW k \in Keys, NEW r, ~Succeeded,
           db' \in {db, expireIfNeeded(db, k, now)}
    PROVE  Counts(k, r)
<1> DEFINE d == expireIfNeeded(db, k, now)
<1>1. Off(db, d, k) /\ (Stored(d, k) => d = db) /\ Off(db, db, k)
  BY LookupOff DEF IInv, Off
<1> HIDE DEF d
<1> QED BY <1>1 DEF Counts, d

\* A write that leaves an entry.
LEMMA LeavesCounts ==
    ASSUME IInv, EntriesOK(db), NEW k \in Keys, NEW r, NEW x, Leaves(db', x, k),
           reply'.rc # "NOT_INTEGER",
           LET d == expireIfNeeded(db, k, now)
           IN  IF Succeeded
               THEN (r.care /\ reply'.cmd # "GETSET") => x.ver = WriteVersion(d, k, r)
               ELSE Stored(d, k) /\ x.ver = d.dict[k].ver
    PROVE  Counts(k, r)
<1> DEFINE d == expireIfNeeded(db, k, now)
<1>1. ~Expired(k) => d = db
  BY DEF Expired, expireIfNeeded
<1>2. Off(db, db', k) /\ db'.dict[k] = x
  BY DEF Leaves
<1>3. IF Succeeded
      THEN (r.care /\ reply'.cmd # "GETSET") => x.ver = WriteVersion(d, k, r)
      ELSE Stored(d, k) /\ x.ver = d.dict[k].ver
  OBVIOUS
<1> HIDE DEF d
<1> QED BY <1>1, <1>2, <1>3 DEF Counts, WriteVersion, LookupVersion

\* SET and its family.
LEMMA SetCounts ==
    ASSUME IInv, EntriesOK(db), NEW k \in Keys, NEW nx, NEW v \in Values,
           NEW expire, expire = Nil \/ expire \in ExpireArgs, NEW r \in Request,
           setGenericCommand("SET", k, nx, v, expire, r)
    PROVE  Counts(k, r)
<1> DEFINE d == expireIfNeeded(db, k, now)
           x == Made(d, REDIS_STRING, v, WriteVersion(d, k, r))
<1>1. reply'.cmd = "SET"
  BY DEF setGenericCommand, Answer
<1>2. CASE reply'.rc = "OK"
  <2>1. Leaves(db', x, k)
    BY <1>2, SetLeaves
  <2>2. x.ver = WriteVersion(d, k, r) /\ Succeeded
    BY <1>2 DEF Made, Succeeded
  <2> HIDE DEF x
  <2> QED BY <1>2, <2>1, <2>2, LeavesCounts
<1>3. CASE reply'.rc # "OK"
  <2>1. db' \in {db, d}
    BY <1>3 DEF setGenericCommand, Answer
  <2>2. ~Succeeded
    BY <1>1, <1>3 DEF Succeeded
  <2> HIDE DEF x
  <2> QED BY <2>1, <2>2, RefusedCounts
<1> QED BY <1>2, <1>3

\* GETSET goes through unless the key has another type; nobody counts it.
LEMMA GetsetCounts ==
    ASSUME IInv, EntriesOK(db), NEW k \in Keys, NEW v \in Values, NEW r \in Request,
           Getset(k, v, r)
    PROVE  Counts(k, r)
<1> DEFINE d == expireIfNeeded(db, k, now)
           w == IF Stored(d, k) THEN d.dict[k].ver ELSE r.ver
           x == Made(d, REDIS_STRING, v, w)
<1>1. reply'.cmd = "GETSET" /\ reply'.rc \in {"WRONG_TYPE", "OK", "NOT_EXIST"}
  BY DEF Getset, Answer
<1>2. CASE reply'.rc # "WRONG_TYPE"
  <2>1. Leaves(db', x, k)
    BY <1>2, GetsetLeaves
  <2>2. Succeeded
    BY <1>1, <1>2 DEF Succeeded
  <2> HIDE DEF x
  <2> QED BY <1>1, <2>1, <2>2, LeavesCounts
<1>3. CASE reply'.rc = "WRONG_TYPE"
  <2>1. db' = d
    BY <1>3 DEF Getset, Answer
  <2>2. ~Succeeded
    BY <1>1, <1>3 DEF Succeeded
  <2> HIDE DEF x
  <2> QED BY <2>1, <2>2, RefusedCounts
<1> QED BY <1>2, <1>3

\* INCR and its family.
LEMMA IncrDecrCounts ==
    ASSUME IInv, EntriesOK(db), NEW k \in Keys, NEW init \in IncrArgs \cup {0},
           NEW incr \in IncrArgs, NEW r \in Request, incrDecrCommand(k, init, incr, r)
    PROVE  Counts(k, r)
<1> DEFINE d == expireIfNeeded(db, k, now)
<1>1. reply'.cmd = "INCR"
  BY DEF incrDecrCommand, Answer
<1>2. CASE reply'.rc = "OK"
  <2>1. PICK sum : Leaves(db', Made(d, REDIS_STRING, sum, WriteVersion(d, k, r)), k)
    BY <1>2, IncrDecrLeaves
  <2> DEFINE x == Made(d, REDIS_STRING, sum, WriteVersion(d, k, r))
  <2>2. x.ver = WriteVersion(d, k, r) /\ Succeeded
    BY <1>2 DEF Made, Succeeded
  <2>3. Leaves(db', x, k)
    BY <2>1
  <2> HIDE DEF x
  <2> QED BY <1>2, <2>2, <2>3, LeavesCounts
<1>3. CASE reply'.rc # "OK"
  <2>1. db' \in {db, d}
    BY <1>3 DEF incrDecrCommand, Answer
  <2>2. ~Succeeded
    BY <1>1, <1>3 DEF Succeeded
  <2> QED BY <2>1, <2>2, RefusedCounts
<1> QED BY <1>2, <1>3

\* SADD, which counts a member already there as a write.
LEMMA SaddCounts ==
    ASSUME IInv, EntriesOK(db), NEW k \in Keys, NEW e \in Elems, NEW r \in Request,
           Sadd(k, e, r)
    PROVE  Counts(k, r)
<1> DEFINE d == expireIfNeeded(db, k, now)
           old == IF Stored(d, k) THEN d.dict[k].val ELSE {}
           x == Made(d, REDIS_SET, old \cup {e}, WriteVersion(d, k, r))
<1>1. reply'.cmd = "SADD"
  BY DEF Sadd, Answer
<1>2. CASE reply'.rc \in {"ALREADY_EXIST", "OK"}
  <2>1. Leaves(db', x, k)
    BY <1>2, SaddLeaves
  <2>2. x.ver = WriteVersion(d, k, r) /\ Succeeded
    BY <1>1, <1>2 DEF Made, Succeeded
  <2> HIDE DEF x
  <2> QED BY <1>2, <2>1, <2>2, LeavesCounts
<1>3. CASE reply'.rc \notin {"ALREADY_EXIST", "OK"}
  <2>1. db' = d
    BY <1>3 DEF Sadd, Answer
  <2>2. ~Succeeded
    BY <1>1, <1>3 DEF Succeeded
  <2> HIDE DEF x
  <2> QED BY <2>1, <2>2, RefusedCounts
<1> QED BY <1>2, <1>3

\* SREM, which counts no write when the member is not there, and deletes
\* the set it empties.
LEMMA SremCounts ==
    ASSUME IInv, EntriesOK(db), NEW k \in Keys, NEW e \in Elems, NEW r \in Request,
           Srem(k, e, r)
    PROVE  Counts(k, r)
<1> DEFINE d == expireIfNeeded(db, k, now)
           left == d.dict[k].val \ {e}
           x == Made(d, REDIS_SET, left, WriteVersion(d, k, r))
<1>1. reply'.cmd = "SREM"
  BY DEF Srem, Answer
<1>2. CASE reply'.rc \in {"NOT_EXIST", "OK"} /\ Stored(d, k)
  <2>1. IF reply'.rc = "NOT_EXIST" THEN Leaves(db', d.dict[k], k)
        ELSE IF left = {} THEN Off(db, db', k) /\ ~Stored(db', k)
        ELSE Leaves(db', x, k)
    BY <1>2, SremLeaves
  <2>2. CASE reply'.rc = "NOT_EXIST"
    <3> DEFINE y == d.dict[k]
    <3>1. Leaves(db', y, k) /\ y.ver = d.dict[k].ver /\ Stored(d, k)
      BY <1>2, <2>1, <2>2
    <3>2. ~Succeeded
      BY <1>1, <2>2 DEF Succeeded
    <3> HIDE DEF y
    <3> QED BY <2>2, <3>1, <3>2, LeavesCounts
  <2>3. CASE reply'.rc = "OK" /\ left = {}
    BY <2>1, <2>3 DEF Counts
  <2>4. CASE reply'.rc = "OK" /\ left # {}
    <3>1. Leaves(db', x, k)
      BY <2>1, <2>4
    <3>2. x.ver = WriteVersion(d, k, r) /\ Succeeded
      BY <2>4 DEF Made, Succeeded
    <3> HIDE DEF x
    <3> QED BY <2>4, <3>1, <3>2, LeavesCounts
  <2> QED BY <1>2, <2>2, <2>3, <2>4
<1>3. CASE reply'.rc \notin {"NOT_EXIST", "OK"} \/ ~Stored(d, k)
  <2>1. db' = d
    BY <1>3 DEF Srem, Answer
  <2>2. ~Succeeded
    BY <1>1, <1>3 DEF Succeeded, Srem, Answer
  <2> HIDE DEF x, left
  <2> QED BY <2>1, <2>2, RefusedCounts
<1> QED BY <1>2, <1>3

\* Every write.
LEMMA WriteCounts ==
    ASSUME IInv, EntriesOK(db), NEW k \in Keys, NEW r \in Request, Write(k, r)
    PROVE  Counts(k, r)
<1>1. CASE \E v \in Values : Set(k, v, r) \/ Setnx(k, v, r)
  BY <1>1, SetCounts DEF Set, Setnx
<1>2. CASE \E v \in Values, s \in ExpireArgs : Setex(k, v, s, r) \/ Setnxex(k, v, s, r)
  BY <1>2, SetCounts DEF Setex, Setnxex
<1>3. CASE \E v \in Values : Getset(k, v, r)
  BY <1>3, GetsetCounts
<1>4. CASE \E init \in IncrArgs \cup {0}, incr \in IncrArgs :
             incrDecrCommand(k, init, incr, r)
  BY <1>4, IncrDecrCounts
<1>5. CASE \E e \in Elems : Sadd(k, e, r) \/ Srem(k, e, r)
  BY <1>5, SaddCounts, SremCounts
<1> QED BY <1>1, <1>2, <1>3, <1>4, <1>5 DEF Write

-----------------------------------------------------------------------------
(* The invariant.                                                          *)

\* A memory's fields.
LEMMA MemoryFields ==
    ASSUME NEW m \in Memory
    PROVE  /\ m.key \in Keys /\ m.ver \in 0 .. VersionMax
           /\ m.writes \in 0 .. VersionMax + 1
           /\ m.gone \in BOOLEAN /\ m.plain \in BOOLEAN /\ m # Nil
BY ClientMarkAssumption DEF Memory

\* What a client holds still fits when its key's entry is as it was, or is
\* noticed to be gone.
LEMMA SameTracks ==
    ASSUME NEW d, NEW e, NEW m \in Memory, Tracks(d, m),
           ~m.gone => e.dict[m.key] = d.dict[m.key]
    PROVE  Tracks(e, m)
BY DEF Tracks, Stored

\* What clients hold of the key that is written, and of others.
LEMMA RememberTracks ==
    ASSUME CInv, NEW k \in Keys, NEW r \in Request, Write(k, r), NEW c \in Clients
    PROVE  /\ Remember(k, r)[c] \in Memory \cup {Nil}
           /\ held[c] # Nil => Remember(k, r)[c] # Nil
           /\ Tracks(db', Remember(k, r)[c])
<1> DEFINE m == held[c]
           n == Remember(k, r)[c]
<1>1. Counts(k, r) /\ m \in Memory \cup {Nil} /\ Tracks(db, m)
  BY WriteCounts DEF CInv
<1>2. CASE m = Nil
  <2>1. n = Nil
    BY <1>2 DEF Remember
  <2> QED BY <1>2, <2>1 DEF Tracks
<1>3. CASE m # Nil /\ m.key # k
  <2>1. n = m /\ m \in Memory
    BY <1>1, <1>3 DEF Remember
  <2>2. m.key \in Keys \ {k}
    BY <1>3, <2>1, MemoryFields
  <2>3. db'.dict[m.key] = db.dict[m.key]
    BY <1>1, <2>2 DEF Counts, Off
  <2> HIDE DEF m, n
  <2> QED BY <1>1, <1>3, <2>1, <2>3, SameTracks DEF m, n
<1>4. CASE m # Nil /\ m.key = k
  <2> DEFINE counted == Succeeded /\ r.care /\ reply'.cmd # "GETSET" /\ m.writes <= VersionMax
             writes == IF counted THEN m.writes + 1 ELSE m.writes
             plain == m.plain \/ (Succeeded /\ (~r.care \/ reply'.cmd = "GETSET"))
             gone == \/ m.gone \/ ~Stored(db', k)
                     \/ reply'.rc # "NOT_INTEGER" /\ Expired(k)
  <2>1. n = [m EXCEPT !.writes = writes, !.plain = plain, !.gone = gone]
    BY <1>4 DEF Remember
  <2>2. /\ m \in Memory /\ m.ver \in 0 .. VersionMax /\ m.writes \in 0 .. VersionMax + 1
        /\ m.gone \in BOOLEAN /\ m.plain \in BOOLEAN
    BY <1>1, <1>4, MemoryFields
  <2>3. writes \in 0 .. VersionMax + 1
    BY <2>2, NumberAssumption
  <2>4. plain \in BOOLEAN /\ gone \in BOOLEAN
    BY <2>2
  <2> HIDE DEF counted, writes, plain, gone, m, n
  <2>5. n \in Memory
    BY <2>1, <2>2, <2>3, <2>4 DEF Memory
  <2>6. /\ n.key = k /\ n.ver = m.ver
        /\ n.writes = writes /\ n.plain = plain /\ n.gone = gone
    BY <1>4, <2>1, <2>2 DEF Memory
  <2>7. n # Nil
    BY <2>5, MemoryFields
  <2>8. Tracks(db', n)
    <3> SUFFICES ASSUME ~gone, ~plain
                 PROVE  /\ Stored(db', k)
                        /\ writes <= VersionMax =>
                              db'.dict[k].ver = (m.ver + writes) % (VersionMax + 1)
      BY <2>6 DEF Tracks
    <3>1. /\ ~m.gone /\ ~m.plain /\ Stored(db', k)
          /\ reply'.rc = "NOT_INTEGER" \/ ~Expired(k)
          /\ Succeeded => r.care /\ reply'.cmd # "GETSET"
      BY DEF gone, plain
    <3>2. /\ Stored(db, k)
          /\ m.writes <= VersionMax =>
                db.dict[k].ver = (m.ver + m.writes) % (VersionMax + 1)
      BY <1>1, <1>4, <3>1 DEF Tracks
    <3>3. CASE Succeeded
      <4>1. db'.dict[k].ver = NextVersion(db.dict[k].ver)
        BY <1>1, <3>1, <3>2, <3>3 DEF Counts
      <4>2. writes <= VersionMax => writes = m.writes + 1 /\ m.writes < VersionMax
        BY <2>2, <3>1, <3>3, NumberAssumption DEF writes, counted
      <4>3. CASE writes <= VersionMax
        <5>1. m.writes \in Nat /\ m.writes < VersionMax /\ writes = m.writes + 1
          BY <2>2, <4>2, <4>3, NumberAssumption
        <5>2. db.dict[k].ver = (m.ver + m.writes) % (VersionMax + 1)
          BY <3>2, <5>1, NumberAssumption
        <5> QED BY <2>2, <3>1, <4>1, <5>1, <5>2, NextOnCircle
      <4> QED BY <3>1, <4>3
    <3>4. CASE ~Succeeded
      <4>1. db'.dict[k].ver = db.dict[k].ver
        BY <1>1, <3>1, <3>4 DEF Counts
      <4>2. writes = m.writes
        BY <3>4 DEF writes, counted
      <4> QED BY <3>1, <3>2, <4>1, <4>2
    <3> QED BY <3>3, <3>4
  <2> QED BY <2>5, <2>7, <2>8 DEF n, m
<1> QED BY <1>2, <1>3, <1>4

\* The steps that write no entry: an entry is as it was, or gone.
LEMMA OtherKeeps ==
    ASSUME IInv,
           \/ \E k \in Keys : Read(k) \/ Persist(k) \/ Evict(k)
           \/ \E k \in Keys, s \in ExpireArgs : Expire(k, s)
           \/ \E S \in (SUBSET Keys) \ {{}} : Del(S)
           \/ RandomKey \/ Cron \/ EmptyDb \/ Clear \/ Tick
    PROVE  \A i \in Keys : Stored(db', i) => db'.dict[i] = db.dict[i]
<1>1. ASSUME NEW S \in SUBSET Keys, db' = Collect(db, S)
      PROVE  \A i \in Keys : Stored(db', i) => db'.dict[i] = db.dict[i]
  <2>1. db'.dict = [i \in Keys |-> IF i \in S THEN Absent ELSE db.dict[i]]
    BY <1>1 DEF Collect, IInv, DbOK, DbType
  <2> QED BY <2>1 DEF Stored
<1>2. CASE \E k \in Keys : Read(k)
  <2>1. PICK k \in Keys : db' = db \/ db' = Collect(db, {k})
    BY <1>2 DEF Read, Get, Exists, TypeOf, Ttl, expireIfNeeded
  <2> QED BY <1>1, <2>1
<1>3. CASE (\E k \in Keys : Evict(k)) \/ RandomKey \/ Cron
  <2>1. \E S \in SUBSET Keys : db' = Collect(db, S)
    BY <1>3 DEF Evict, RandomKey, Cron, ActiveExpireCycle
  <2> QED BY <1>1, <2>1
<1>4. CASE \/ \E k \in Keys : Persist(k)
           \/ \E k \in Keys, s \in ExpireArgs : Expire(k, s)
  <2>1. \E k \in Keys : \/ db' = db \/ db' = removeExpire(db, k)
                        \/ \E when : db' = setExpire(db, k, when)
    BY <1>4 DEF Persist, Expire
  <2> QED BY <2>1, DeadlineOff DEF IInv
<1>5. ASSUME NEW S \in (SUBSET Keys) \ {{}}, Del(S)
      PROVE  \A i \in Keys : Stored(db', i) => db'.dict[i] = db.dict[i]
  <2>1. db'.dict = [k \in Keys |-> IF k \in S THEN Absent ELSE db.dict[k]]
    BY <1>5 DEF Del, IInv, DbOK, DbType
  <2> QED BY <2>1 DEF Stored
<1>6. CASE EmptyDb
  BY <1>6 DEF EmptyDb, Stored, IInv, DbOK, DbType
<1>7. CASE Clear \/ Tick
  BY <1>7, ClearAges DEF Tick
<1> QED BY <1>2, <1>3, <1>4, <1>5, <1>6, <1>7

\* Every step of the clients is one of the store.
LEMMA OptNextIsNext ==
    ASSUME CInv, [OptNext]_optVars
    PROVE  [Next]_vars
<1>1. CASE UNCHANGED optVars
  BY <1>1 DEF optVars, vars
<1>2. CASE \E c \in Clients : ClientRead(c)
  BY <1>2 DEF ClientRead, Next, Read
<1>3. ASSUME NEW c \in Clients, ClientWrite(c)
      PROVE  Next
  <2>1. held[c].key \in Keys
    BY <1>3, MemoryFields DEF ClientWrite, CInv
  <2> QED BY <1>3, <2>1 DEF ClientWrite, Next, Write
<1>4. CASE OtherWrite
  BY <1>4 DEF OtherWrite, Next
<1>5. CASE OtherStep
  BY <1>5 DEF OtherStep, Next
<1> QED BY <1>1, <1>2, <1>3, <1>4, <1>5 DEF OptNext

\* A read takes hold of the version the store has.
LEMMA ReadTracks ==
    ASSUME CInv, NEW k \in Keys, Get(k), reply'.rc = "OK"
    PROVE  LET m == [key |-> k, ver |-> reply'.ver, writes |-> 0,
                     gone |-> FALSE, plain |-> FALSE]
           IN  db' = db /\ m \in Memory /\ Tracks(db, m)
<1> DEFINE d == expireIfNeeded(db, k, now)
           v == reply'.ver
           m == [key |-> k, ver |-> v, writes |-> 0, gone |-> FALSE, plain |-> FALSE]
<1>1. db' = d /\ Stored(d, k) /\ v = LookupVersion(d, k)
  BY DEF Get, Answer
<1>2. d = db
  BY <1>1, LookupOff DEF CInv, IInv
<1>3. Stored(db, k) /\ v = db.dict[k].ver /\ v \in 0 .. VersionMax
  BY <1>1, <1>2, EntryStored DEF CInv, IInv, LookupVersion
<1> HIDE DEF v
<1>4. m \in Memory
  <2>1. 0 \in 0 .. VersionMax + 1
    BY NumberAssumption
  <2> QED BY <1>3, <2>1 DEF Memory
<1>5. ((v + 0) % (VersionMax + 1)) = v
  <2>1. VersionMax + 1 \in Nat \ {0} /\ v + 0 \in Nat /\ v + 0 < VersionMax + 1 /\ v + 0 = v
    BY <1>3, NumberAssumption
  <2> QED BY <2>1, OneTurn
<1>6. Tracks(db, m)
  BY <1>3, <1>5 DEF Tracks
<1> QED BY <1>1, <1>2, <1>4, <1>6 DEF v

\* The clients hold nothing before they read.
LEMMA OptInitOK == OptInit => CInv
<1> SUFFICES ASSUME OptInit PROVE CInv
  OBVIOUS
<1>1. IInv /\ EntriesOK(db)
  BY InitOK DEF OptInit, Init, EntriesOK, Stored
<1> QED BY <1>1 DEF OptInit, CInv, Tracks

\* Every step of the clients preserves the invariant.
LEMMA OptNextOK == CInv /\ [OptNext]_optVars => CInv'
<1> SUFFICES ASSUME CInv, [OptNext]_optVars PROVE CInv'
  OBVIOUS
<1>1. IInv' /\ EntriesOK(db')
  BY OptNextIsNext, NextOK, NextEntriesOK DEF CInv
<1>2. /\ held' \in [Clients -> Memory \cup {Nil}]
      /\ \A c \in Clients : Tracks(db', held'[c])
  <2>0. held \in [Clients -> Memory \cup {Nil}] /\ \A c \in Clients : Tracks(db, held[c])
    BY DEF CInv
  <2>1. CASE UNCHANGED optVars
    BY <2>0, <2>1 DEF optVars
  <2>2. ASSUME NEW c \in Clients, ClientRead(c)
        PROVE  /\ held' \in [Clients -> Memory \cup {Nil}]
               /\ \A b \in Clients : Tracks(db', held'[b])
    <3>1. PICK k \in Keys :
             /\ Get(k) /\ reply'.rc = "OK"
             /\ held' = [held EXCEPT ![c] =
                           [key |-> k, ver |-> reply'.ver, writes |-> 0,
                            gone |-> FALSE, plain |-> FALSE]]
      BY <2>2 DEF ClientRead
    <3> DEFINE m == [key |-> k, ver |-> reply'.ver, writes |-> 0,
                     gone |-> FALSE, plain |-> FALSE]
    <3>2. db' = db /\ m \in Memory /\ Tracks(db, m)
      BY <3>1, ReadTracks
    <3>3. held' = [held EXCEPT ![c] = m]
      BY <3>1
    <3> HIDE DEF m
    <3> QED BY <2>0, <3>2, <3>3
  <2>3. ASSUME NEW k \in Keys, NEW r \in Request, Write(k, r)
        PROVE  /\ Remember(k, r) \in [Clients -> Memory \cup {Nil}]
               /\ \A b \in Clients : Tracks(db', Remember(k, r)[b])
    <3>1. \A b \in Clients : Remember(k, r)[b] \in Memory \cup {Nil}
      BY <2>3, RememberTracks
    <3> QED BY <2>3, <3>1, RememberTracks DEF Remember
  <2>4. ASSUME NEW c \in Clients, ClientWrite(c)
        PROVE  /\ held' \in [Clients -> Memory \cup {Nil}]
               /\ \A b \in Clients : Tracks(db', held'[b])
    <3>1. PICK r \in Request :
             /\ \E v \in Values : Set(held[c].key, v, r)
             /\ held' = [Remember(held[c].key, r) EXCEPT ![c] = Nil]
      BY <2>4 DEF ClientWrite
    <3> DEFINE k == held[c].key
               new == Remember(k, r)
    <3>2. k \in Keys
      BY <2>0, <2>4, MemoryFields DEF ClientWrite
    <3>3. Write(k, r)
      BY <3>1 DEF Write
    <3>4. new \in [Clients -> Memory \cup {Nil}] /\ \A b \in Clients : Tracks(db', new[b])
      <4> HIDE DEF k
      <4> QED BY <2>3, <3>2, <3>3
    <3>5. held' = [new EXCEPT ![c] = Nil] /\ Tracks(db', Nil)
      BY <3>1 DEF Tracks
    <3> HIDE DEF new
    <3> QED BY <3>4, <3>5
  <2>5. CASE OtherWrite
    BY <2>3, <2>5 DEF OtherWrite
  <2>6. CASE OtherStep
    <3> DEFINE new(c) == IF held[c] = Nil THEN Nil
                         ELSE [held[c] EXCEPT !.gone = @ \/ ~Stored(db', held[c].key)]
    <3>1. /\ held' = [c \in Clients |-> new(c)]
          /\ \A i \in Keys : Stored(db', i) => db'.dict[i] = db.dict[i]
      BY <2>6, OtherKeeps DEF OtherStep, CInv
    <3>2. ASSUME NEW c \in Clients
          PROVE  new(c) \in Memory \cup {Nil} /\ Tracks(db', new(c))
      <4>1. CASE held[c] = Nil
        BY <4>1 DEF Tracks
      <4>2. CASE held[c] # Nil
        <5> DEFINE m == held[c]
                   gone == m.gone \/ ~Stored(db', m.key)
                   n == [m EXCEPT !.gone = gone]
        <5>1. m \in Memory /\ Tracks(db, m) /\ m.key \in Keys /\ m.gone \in BOOLEAN
          BY <2>0, <4>2, MemoryFields
        <5>2. gone \in BOOLEAN
          BY <5>1
        <5>3. new(c) = n
          BY <4>2
        <5> HIDE DEF m, gone, new
        <5>4. n \in Memory
          BY <5>1, <5>2 DEF Memory
        <5>5. /\ n.key = m.key /\ n.ver = m.ver /\ n.writes = m.writes
              /\ n.plain = m.plain /\ n.gone = gone /\ m # Nil
          BY <5>1, MemoryFields DEF Memory
        <5> HIDE DEF n
        <5>6. Tracks(db', n)
          <6>1. ~n.gone => ~m.gone /\ db'.dict[m.key] = db.dict[m.key]
            BY <3>1, <5>1, <5>5 DEF gone
          <6> QED BY <5>1, <5>5, <6>1 DEF Tracks, Stored
        <5> QED BY <5>3, <5>4, <5>6
      <4> QED BY <4>1, <4>2
    <3> HIDE DEF new
    <3> QED BY <3>1, <3>2
  <2> QED BY <2>1, <2>2, <2>4, <2>5, <2>6 DEF OptNext
<1> QED BY <1>1, <1>2 DEF CInv, Tracks, EntriesOK, Stored, Bounded, IInv, DbOK,
                          StaleKeys, Stale

\* The invariant, of every state a behaviour reaches.
LEMMA ClientsStayOK == OptSpec => []CInv
BY OptInitOK, OptNextOK, PTL DEF OptSpec

\* For any number of clients doing anything in any order: while a client's
\* key has not gone and been written behind the versions' back, the version
\* it holds is as far behind the stored one as there were writes since.
THEOREM VersionsAlwaysCountWrites == OptSpec => []VersionsCountWrites
<1>1. CInv => VersionsCountWrites
  BY DEF CInv, Tracks, VersionsCountWrites
<1> QED BY <1>1, ClientsStayOK, PTL

\* A guarded write of a client goes through only over what the client read.
THEOREM NoUpdateIsLost == OptSpec => NoLostUpdate
<1> DEFINE Kept ==
      \A c \in Clients :
          (/\ held[c] # Nil /\ held'[c] = Nil
           /\ reply'.rc = "OK" /\ Guarded(held[c])) => held[c].writes = 0
<1>1. ASSUME CInv, [OptNext]_optVars
      PROVE  Kept \/ UNCHANGED optVars
  <2> SUFFICES ASSUME NEW c \in Clients, OptNext,
                      held[c] # Nil, held'[c] = Nil, reply'.rc = "OK", Guarded(held[c])
               PROVE  held[c].writes = 0
    BY <1>1
  <2> DEFINE m == held[c]
  <2>1. m \in Memory /\ Tracks(db, m) /\ held \in [Clients -> Memory \cup {Nil}]
    BY <1>1 DEF CInv
  <2>2. ClientWrite(c)
    <3>1. ~ \E b \in Clients : ClientRead(b)
      <4> SUFFICES ASSUME NEW b \in Clients, ClientRead(b) PROVE FALSE
        OBVIOUS
      <4>1. PICK k \in Keys :
               /\ Get(k) /\ reply'.rc = "OK"
               /\ held' = [held EXCEPT ![b] =
                             [key |-> k, ver |-> reply'.ver, writes |-> 0,
                              gone |-> FALSE, plain |-> FALSE]]
        BY DEF ClientRead
      <4> DEFINE n == [key |-> k, ver |-> reply'.ver, writes |-> 0,
                       gone |-> FALSE, plain |-> FALSE]
      <4>2. n \in Memory /\ held' = [held EXCEPT ![b] = n]
        BY <1>1, <4>1, ReadTracks
      <4>3. n # Nil
        BY <4>2, MemoryFields
      <4> HIDE DEF n
      <4> QED BY <2>1, <4>2, <4>3
    <3>2. ~OtherWrite
      BY <1>1, RememberTracks DEF OtherWrite
    <3>3. ~OtherStep
      <4> SUFFICES ASSUME OtherStep PROVE FALSE
        OBVIOUS
      <4> DEFINE gone == m.gone \/ ~Stored(db', m.key)
                 n == [m EXCEPT !.gone = gone]
      <4>1. held'[c] = n
        BY DEF OtherStep
      <4>2. n \in Memory
        <5>1. gone \in BOOLEAN
          BY <2>1, MemoryFields
        <5> HIDE DEF gone, m
        <5> QED BY <2>1, <5>1 DEF Memory
      <4>3. n # Nil
        BY <4>2, MemoryFields
      <4> QED BY <4>1, <4>3
    <3>4. ASSUME NEW b \in Clients, ClientWrite(b), b # c
          PROVE  FALSE
      <4>1. PICK r \in Request :
               /\ \E v \in Values : Set(held[b].key, v, r)
               /\ held' = [Remember(held[b].key, r) EXCEPT ![b] = Nil]
        BY <3>4 DEF ClientWrite
      <4> DEFINE k == held[b].key
      <4>2. k \in Keys /\ Write(k, r)
        BY <2>1, <3>4, <4>1, MemoryFields DEF ClientWrite, Write
      <4>3. held'[c] = Remember(k, r)[c]
        BY <3>4, <4>1 DEF Remember
      <4> HIDE DEF k
      <4> QED BY <1>1, <4>2, <4>3, RememberTracks
    <3> QED BY <3>1, <3>2, <3>3, <3>4 DEF OptNext
  <2>3. PICK r \in Request : /\ r.care /\ r.ver = m.ver
                             /\ \E v \in Values : Set(m.key, v, r)
    BY <2>2 DEF ClientWrite
  <2> DEFINE k == m.key
             d == expireIfNeeded(db, k, now)
  <2>4. /\ k \in Keys /\ m.ver \in 0 .. VersionMax /\ m.ver # 0
        /\ m.writes \in 0 .. VersionMax
        /\ ~m.gone /\ ~m.plain /\ ~Expired(k)
    BY <2>1, MemoryFields, NumberAssumption DEF Guarded
  <2>5. d = db /\ Stored(db, k)
    BY <2>1, <2>4 DEF Expired, expireIfNeeded, Tracks
  <2>6. VersionOK(d, k, r)
    BY <2>3 DEF Set, setGenericCommand, Answer
  <2>7. m.ver = db.dict[k].ver
    BY <2>3, <2>4, <2>5, <2>6 DEF VersionOK
  <2>8. db.dict[k].ver = (m.ver + m.writes) % (VersionMax + 1)
    BY <2>1, <2>4, <2>5, NumberAssumption DEF Tracks
  <2> HIDE DEF m, k, d
  <2> QED BY <2>4, <2>7, <2>8, SameVersion DEF m
<1>2. CInv /\ [OptNext]_optVars => [Kept]_optVars
  BY <1>1
<1> QED BY <1>2, ClientsStayOK, PTL DEF OptSpec, NoLostUpdate

=============================================================================
