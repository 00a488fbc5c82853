------------------------------ MODULE Keyspace ------------------------------
(***************************************************************************)
(* One database (redisDb) of the embedded store: the keyspace of db.c, the *)
(* string commands of t_string.c, SADD and SREM of t_set.c as the family   *)
(* whose values can become empty, the key collection of activeExpireCycle  *)
(* and of the eviction code (redis.c), and the two things the embedding    *)
(* process does around them: the logical clear and the passing of time.    *)
(*                                                                         *)
(* A key goes in three ways.  DEL takes it out at once.  A deadline in     *)
(* db->expires makes it overdue, and a lookup or the cron collects it.     *)
(* A logical clear increments db->logiclock: every key whose own clock is  *)
(* smaller is stale, and a lookup, the cron or an eviction collects it;    *)
(* need_remove_key tells the cron how many may be left.                    *)
(*                                                                         *)
(* Commands, cron and clear are atomic: the library holds no lock, so its  *)
(* caller runs one of them at a time.                                      *)
(***************************************************************************)
EXTENDS Integers, FiniteSets

CONSTANTS
    Keys,         \* key names
    Texts,        \* string values that do not parse as an integer
    Elems,        \* members of sets
    REDIS_STRING, \* the type of string objects
    REDIS_SET,    \* the type of set objects
    Absent,       \* dictFind returned NULL
    NoTTL,        \* no entry in db->expires
    Nil,          \* no value in the reply; no expire argument
    NotInteger,   \* a command argument that does not parse as an integer
    VersionMax,   \* largest version before the uint16_t wraps
    ClockMax,     \* bound: no logical clear once the clock has this value
    SizeMax,      \* largest size_t
    IntMax,       \* largest int32_t
    SetMax,       \* server->set_max_size
    StartTime,    \* time(NULL) when the database is opened
    MaxTime,      \* bound: time does not pass this value
    Values,       \* arguments: string values
    ExpireArgs,   \* arguments: seconds of EXPIRE, SETEX and SETNXEX
    IncrArgs,     \* arguments: increments (DECR is a negative one)
    Versions,     \* arguments: versions a client sends
    CareModes,    \* arguments: c->version_care
    ExpireTimes   \* arguments: c->expiretime

VARIABLES
    db,     \* the redisDb: dict, expires, logiclock, need_remove_key
    now,    \* time(NULL)
    reply   \* what the last command left in its redisClient

vars == <<db, now, reply>>

\* A stored object together with what its key's sds header carries.
StringEntry == [type : {REDIS_STRING}, val : Int \cup Texts,
                ver : 0 .. VersionMax, clk : 1 .. ClockMax]
SetEntry == [type : {REDIS_SET}, val : SUBSET Elems,
             ver : 0 .. VersionMax, clk : 1 .. ClockMax]
Entry == StringEntry \cup SetEntry

\* What a client sends beside the command's own arguments: the version in
\* the header of argv[1], c->version_care and c->expiretime.
Request == [ver : Versions, care : CareModes, et : ExpireTimes]

ASSUME KeysAssumption == IsFiniteSet(Keys)
ASSUME NumberAssumption ==
    /\ VersionMax \in Nat /\ ClockMax \in Nat \ {0}
    /\ SizeMax \in Nat    /\ IntMax \in Nat
    /\ 2 * Cardinality(Keys) <= SizeMax  \* a key takes more than two bytes
    /\ SetMax \in Nat \ {0}
    /\ StartTime \in Nat  /\ MaxTime \in Nat
ASSUME ArgumentAssumption ==
    /\ Values \subseteq Int \cup Texts
    /\ \A s \in ExpireArgs : s \in Int \/ s = NotInteger
    /\ \A n \in IncrArgs : n \in Int \/ n = NotInteger
    /\ Versions \subseteq 0 .. VersionMax
    /\ CareModes \subseteq BOOLEAN
    /\ ExpireTimes \subseteq Int
\* The marks differ from the values they stand beside.
ASSUME MarkAssumption ==
    /\ REDIS_STRING # REDIS_SET
    /\ Absent \notin Entry
    /\ NoTTL \notin Int
    /\ NotInteger \notin Int /\ Nil \notin Int /\ Nil # NotInteger
    /\ \A t \in Texts : t \notin Int

-----------------------------------------------------------------------------
(* What the predicates of the code say about a key.                        *)

Stored(d, k) == d.dict[k] # Absent

\* The key was stored before the last logical clear.
Stale(d, k) == Stored(d, k) /\ d.logiclock > d.dict[k].clk

\* Mutants: a key already gone at its deadline, a comparison the wrong way.
OverdueWhenDue(d, k, t) == d.expires[k] # NoTTL /\ d.expires[k] >= 0 /\ t >= d.expires[k]
CronOverdueSwapped(d, k, t) == d.expires[k] # NoTTL /\ t < d.expires[k]

\* getExpire's -1 for "no expire" makes every negative deadline look like
\* none to a lookup; the cron compares the deadline itself.
Overdue(d, k, t) == d.expires[k] # NoTTL /\ d.expires[k] >= 0 /\ t > d.expires[k]
CronOverdue(d, k, t) == d.expires[k] # NoTTL /\ t > d.expires[k]

StaleKeys(d) == {k \in Keys : Stale(d, k)}

\* uint16_t, int32_t and size_t arithmetic.
NextVersion(v) == IF v = VersionMax THEN 0 ELSE v + 1
Int32(n) == ((n + IntMax + 1) % (2 * IntMax + 2)) - (IntMax + 1)
SizeMinus(n, m) == IF m <= n THEN n - m ELSE (SizeMax + 1) - (m - n)

-----------------------------------------------------------------------------
(* The C-level functions on a redisDb, as functions on its record.         *)

\* Mutant: only the deadline is deleted.
dbDeleteExpireOnly(d, k) == [d EXCEPT !.expires = [@ EXCEPT ![k] = NoTTL]]

dbDelete(d, k) ==
    [d EXCEPT !.dict = [@ EXCEPT ![k] = Absent],
              !.expires = [@ EXCEPT ![k] = NoTTL]]

\* Mutant: every key collected is taken for a stale one.
CollectCountingAll(d, S) ==
    [d EXCEPT
       !.dict = [k \in Keys |-> IF k \in S THEN Absent ELSE d.dict[k]],
       !.expires = [k \in Keys |-> IF k \in S THEN NoTTL ELSE d.expires[k]],
       !.needRemove = SizeMinus(@, Cardinality(S))]

\* Collecting keys, one dbDelete each: need_remove_key drops by one for
\* every stale one.
Collect(d, S) ==
    [d EXCEPT
       !.dict = [k \in Keys |-> IF k \in S THEN Absent ELSE d.dict[k]],
       !.expires = [k \in Keys |-> IF k \in S THEN NoTTL ELSE d.expires[k]],
       !.needRemove = SizeMinus(@, Cardinality(StaleKeys(d) \cap S))]

\* Mutant: the logical clock is not looked at.
expireIfOverdue(d, k, t) == IF Overdue(d, k, t) THEN Collect(d, {k}) ELSE d

expireIfNeeded(d, k, t) ==
    IF Stale(d, k) \/ Overdue(d, k, t) THEN Collect(d, {k}) ELSE d

\* c->version after a lookup.
LookupVersion(d, k) == IF Stored(d, k) THEN d.dict[k].ver ELSE 0

\* The copied key takes its clock from argv[1], which the caller stamped
\* with the current clock of the database.
dbAdd(d, k, type, val, ver) ==
    [d EXCEPT !.dict = [@ EXCEPT ![k] =
        [type |-> type, val |-> val, ver |-> ver, clk |-> d.logiclock]]]

\* dbReplace keeps the version of a stored key, dbSuperReplace sets it.
dbReplace(d, k, type, val, ver) ==
    IF Stored(d, k)
    THEN [d EXCEPT !.dict = [@ EXCEPT ![k] =
             [type |-> type, val |-> val,
              ver |-> d.dict[k].ver, clk |-> d.dict[k].clk]]]
    ELSE dbAdd(d, k, type, val, ver)

\* Mutant: the version of a stored key is kept.
dbSuperReplaceKeepingVersion(d, k, type, val, ver) == dbReplace(d, k, type, val, ver)

dbSuperReplace(d, k, type, val, ver) ==
    IF Stored(d, k)
    THEN [d EXCEPT !.dict = [@ EXCEPT ![k] =
             [type |-> type, val |-> val, ver |-> ver, clk |-> d.dict[k].clk]]]
    ELSE dbAdd(d, k, type, val, ver)

\* Mutant: the X form does not look for the key.
setXExpireUnchecked(d, k, when) == [d EXCEPT !.expires = [@ EXCEPT ![k] = when]]

\* setExpire and removeExpire assert that the key is stored; the X forms
\* leave an absent key alone.
setExpire(d, k, when) == [d EXCEPT !.expires = [@ EXCEPT ![k] = when]]
removeExpire(d, k) == [d EXCEPT !.expires = [@ EXCEPT ![k] = NoTTL]]
setXExpire(d, k, when) == IF Stored(d, k) THEN setExpire(d, k, when) ELSE d
removeXExpire(d, k) == IF Stored(d, k) THEN removeExpire(d, k) ELSE d

EXPIRE_OR_NOT(d, k, et) ==
    IF et > 0 THEN setXExpire(d, k, et)
    ELSE IF et = 0 THEN removeXExpire(d, k) ELSE d

-----------------------------------------------------------------------------
(* The checks a writing command makes on the entry its lookup found.       *)

HasType(d, k, type) == Stored(d, k) => d.dict[k].type = type

\* Mutant: an older version is good enough.
VersionNotNewer(d, k, r) ==
    Stored(d, k) => (~r.care \/ r.ver = 0 \/ r.ver <= d.dict[k].ver)

\* A client that cares about versions and sends a nonzero one must send the
\* stored one.
VersionOK(d, k, r) ==
    Stored(d, k) => (~r.care \/ r.ver = 0 \/ r.ver = d.dict[k].ver)

\* The version argv[1] carries after the check: the stored one (0 for a new
\* key), incremented for a client that cares.
WriteVersion(d, k, r) ==
    IF r.care THEN NextVersion(LookupVersion(d, k)) ELSE LookupVersion(d, k)

Answer(cmd, k, rc, ver, val) ==
    reply' = [cmd |-> cmd, key |-> k, rc |-> rc, ver |-> ver, val |-> val]

-----------------------------------------------------------------------------
(* String commands.                                                        *)

\* SET, SETNX, SETEX and SETNXEX.  The expire argument is a point in time.
setGenericCommand(cmd, k, nx, v, expire, r) ==
    LET d == expireIfNeeded(db, k, now)
        ver == LookupVersion(d, k)
        put == dbSuperReplace(d, k, REDIS_STRING, v, WriteVersion(d, k, r))
        timed == IF expire # Nil THEN setExpire(put, k, expire)
                 ELSE IF r.et = 0 THEN removeXExpire(put, k) ELSE put
    IN  /\ UNCHANGED now
        /\ \/ /\ expire = NotInteger
              /\ Answer(cmd, k, "NOT_INTEGER", 0, Nil)
              /\ UNCHANGED db
           \/ /\ expire # NotInteger
              /\ ~HasType(d, k, REDIS_STRING)
              /\ Answer(cmd, k, "WRONG_TYPE", ver, Nil)
              /\ db' = d
           \/ /\ expire # NotInteger
              /\ HasType(d, k, REDIS_STRING)
              /\ ~VersionOK(d, k, r)
              /\ Answer(cmd, k, "VERSION_ERROR", ver, Nil)
              /\ db' = d
           \/ /\ expire # NotInteger
              /\ HasType(d, k, REDIS_STRING)
              /\ VersionOK(d, k, r)
              /\ nx /\ Stored(d, k)
              /\ Answer(cmd, k, "ALREADY_EXIST", ver, Nil)
              /\ db' = d
           \/ /\ expire # NotInteger
              /\ HasType(d, k, REDIS_STRING)
              /\ VersionOK(d, k, r)
              /\ ~(nx /\ Stored(d, k))
              /\ Answer(cmd, k, "OK", ver, Nil)
              /\ db' = timed

Set(k, v, r) == setGenericCommand("SET", k, FALSE, v, Nil, r)
Setnx(k, v, r) == setGenericCommand("SET", k, TRUE, v, Nil, r)
Setex(k, v, s, r) == setGenericCommand("SET", k, FALSE, v, s, r)
Setnxex(k, v, s, r) == setGenericCommand("SET", k, TRUE, v, s, r)

Get(k) ==
    LET d == expireIfNeeded(db, k, now)
        ver == LookupVersion(d, k)
    IN  /\ db' = d
        /\ UNCHANGED now
        /\ \/ /\ ~Stored(d, k)
              /\ Answer("GET", k, "NOT_EXIST", ver, Nil)
           \/ /\ ~HasType(d, k, REDIS_STRING)
              /\ Answer("GET", k, "WRONG_TYPE", ver, Nil)
           \/ /\ Stored(d, k) /\ HasType(d, k, REDIS_STRING)
              /\ Answer("GET", k, "OK", ver, d.dict[k].val)

\* GETSET neither checks nor changes the version of a stored key, and stores
\* a new one under the version the client sent.
Getset(k, v, r) ==
    LET d == expireIfNeeded(db, k, now)
        ver == LookupVersion(d, k)
        put == removeExpire(dbReplace(d, k, REDIS_STRING, v, r.ver), k)
    IN  /\ UNCHANGED now
        /\ \/ /\ ~HasType(d, k, REDIS_STRING)
              /\ Answer("GETSET", k, "WRONG_TYPE", ver, Nil)
              /\ db' = d
           \/ /\ ~Stored(d, k)
              /\ Answer("GETSET", k, "NOT_EXIST", ver, Nil)
              /\ db' = put
           \/ /\ Stored(d, k) /\ HasType(d, k, REDIS_STRING)
              /\ Answer("GETSET", k, "OK", ver, d.dict[k].val)
              /\ db' = put

\* INCR, DECR, INCRBY and DECRBY; only INCRBY has an initial value other
\* than 0.  The sum is cut to 32 bits.
incrDecrCommand(k, init, incr, r) ==
    LET d == expireIfNeeded(db, k, now)
        ver == LookupVersion(d, k)
        old == IF Stored(d, k) THEN d.dict[k].val ELSE init
        put == dbSuperReplace(d, k, REDIS_STRING, Int32(old + incr),
                              WriteVersion(d, k, r))
    IN  /\ UNCHANGED now
        /\ \/ /\ NotInteger \in {init, incr}
              /\ Answer("INCR", k, "NOT_INTEGER", 0, Nil)
              /\ UNCHANGED db
           \/ /\ NotInteger \notin {init, incr}
              /\ ~HasType(d, k, REDIS_STRING)
              /\ Answer("INCR", k, "WRONG_TYPE", ver, Nil)
              /\ db' = d
           \/ /\ NotInteger \notin {init, incr}
              /\ HasType(d, k, REDIS_STRING)
              /\ ~VersionOK(d, k, r)
              /\ Answer("INCR", k, "VERSION_ERROR", ver, Nil)
              /\ db' = d
           \/ /\ NotInteger \notin {init, incr}
              /\ HasType(d, k, REDIS_STRING)
              /\ VersionOK(d, k, r)
              /\ old \in Texts
              /\ Answer("INCR", k, "NOT_INTEGER", ver, Nil)
              /\ db' = d
           \/ /\ NotInteger \notin {init, incr}
              /\ HasType(d, k, REDIS_STRING)
              /\ VersionOK(d, k, r)
              /\ old \notin Texts
              /\ Answer("INCR", k, "OK", ver, Int32(old + incr))
              /\ db' = EXPIRE_OR_NOT(put, k, r.et)

-----------------------------------------------------------------------------
(* Type-agnostic commands.  Of these only EXISTS and TYPE collect the key  *)
(* first: the others see a key as long as it is stored.                    *)

Del(S) ==
    LET gone == {k \in S : Stored(db, k)}
    IN  /\ db' = [db EXCEPT
                    !.dict = [k \in Keys |-> IF k \in S THEN Absent ELSE @[k]],
                    !.expires = [k \in Keys |-> IF k \in S THEN NoTTL ELSE @[k]]]
        /\ UNCHANGED now
        /\ Answer("DEL", S, IF gone = {} THEN "NOT_EXIST" ELSE "OK",
                  0, Cardinality(gone))

Exists(k) ==
    LET d == expireIfNeeded(db, k, now)
    IN  /\ db' = d
        /\ UNCHANGED now
        /\ Answer("EXISTS", k, IF Stored(d, k) THEN "OK" ELSE "NOT_EXIST", 0, Nil)

TypeOf(k) ==
    LET d == expireIfNeeded(db, k, now)
        ver == LookupVersion(d, k)
    IN  /\ db' = d
        /\ UNCHANGED now
        /\ \/ /\ Stored(d, k)
              /\ Answer("TYPE", k, "OK", ver, d.dict[k].type)
           \/ /\ ~Stored(d, k)
              /\ Answer("TYPE", k, "NOT_EXIST", ver, Nil)

\* A duration up to the present time, a point in time after it; 0 removes
\* the deadline, a negative number does nothing.
Deadline(s, t) == IF s <= t THEN t + s ELSE s

Expire(k, s) ==
    /\ UNCHANGED now
    /\ \/ /\ s = NotInteger
          /\ Answer("EXPIRE", k, "NOT_INTEGER", 0, Nil)
          /\ UNCHANGED db
       \/ /\ s # NotInteger
          /\ ~Stored(db, k)
          /\ Answer("EXPIRE", k, "NOT_EXIST", 0, Nil)
          /\ UNCHANGED db
       \/ /\ s # NotInteger
          /\ Stored(db, k)
          /\ Answer("EXPIRE", k, "OK", 0, Nil)
          /\ db' = IF s > 0 THEN setExpire(db, k, Deadline(s, now))
                   ELSE IF s = 0 THEN removeExpire(db, k) ELSE db

Persist(k) ==
    /\ UNCHANGED now
    /\ \/ /\ ~Stored(db, k)
          /\ Answer("PERSIST", k, "NOT_EXIST", 0, Nil)
          /\ UNCHANGED db
       \/ /\ Stored(db, k)
          /\ Answer("PERSIST", k, "OK", 0, Nil)
          /\ db' = removeExpire(db, k)

\* The reply has 0 for "no deadline", "deadline passed" and "due now".
Ttl(k) ==
    LET when == db.expires[k]
        left == IF when = NoTTL \/ when = -1 \/ when < now THEN 0 ELSE when - now
    IN  /\ UNCHANGED <<db, now>>
        /\ Answer("TTL", k,
                  IF when \in {NoTTL, -1} /\ ~Stored(db, k)
                  THEN "NOT_EXIST" ELSE "OK", 0, left)

-----------------------------------------------------------------------------
(* SADD and SREM.  SADD checks the version before the type, SREM after it. *)

Sadd(k, e, r) ==
    LET d == expireIfNeeded(db, k, now)
        ver == LookupVersion(d, k)
        ver1 == WriteVersion(d, k, r)
        old == IF Stored(d, k) THEN d.dict[k].val ELSE {}
        put == dbSuperReplace(d, k, REDIS_SET, old \cup {e}, ver1)
    IN  /\ UNCHANGED now
        /\ \/ /\ ~VersionOK(d, k, r)
              /\ Answer("SADD", k, "VERSION_ERROR", ver, Nil)
              /\ db' = d
           \/ /\ VersionOK(d, k, r) /\ ~HasType(d, k, REDIS_SET)
              /\ Answer("SADD", k, "WRONG_TYPE", ver, Nil)
              /\ db' = d
           \/ /\ VersionOK(d, k, r) /\ HasType(d, k, REDIS_SET)
              /\ e \notin old /\ Cardinality(old) + 1 > SetMax
              /\ Answer("SADD", k, "LEN_LIMITED", ver, Nil)
              /\ db' = d
           \/ /\ VersionOK(d, k, r) /\ HasType(d, k, REDIS_SET)
              /\ e \in old \/ Cardinality(old) + 1 <= SetMax
              /\ Answer("SADD", k, IF e \in old THEN "ALREADY_EXIST" ELSE "OK",
                        ver, Nil)
              /\ db' = EXPIRE_OR_NOT(put, k, r.et)

Srem(k, e, r) ==
    LET d == expireIfNeeded(db, k, now)
        ver == LookupVersion(d, k)
        left == d.dict[k].val \ {e}
        put == dbSuperReplace(d, k, REDIS_SET, left, WriteVersion(d, k, r))
        cut == IF left = {} THEN dbDelete(put, k) ELSE put
    IN  /\ UNCHANGED now
        /\ \/ /\ ~Stored(d, k)
              /\ Answer("SREM", k, "NOT_EXIST", ver, Nil)
              /\ db' = d
           \/ /\ ~HasType(d, k, REDIS_SET)
              /\ Answer("SREM", k, "WRONG_TYPE", ver, Nil)
              /\ db' = d
           \/ /\ Stored(d, k) /\ HasType(d, k, REDIS_SET)
              /\ ~VersionOK(d, k, r)
              /\ Answer("SREM", k, "VERSION_ERROR", ver, Nil)
              /\ db' = d
           \/ /\ Stored(d, k) /\ HasType(d, k, REDIS_SET)
              /\ VersionOK(d, k, r)
              /\ e \notin d.dict[k].val
              /\ Answer("SREM", k, "NOT_EXIST", ver, 0)
              /\ db' = EXPIRE_OR_NOT(d, k, r.et)
           \/ /\ Stored(d, k) /\ HasType(d, k, REDIS_SET)
              /\ VersionOK(d, k, r)
              /\ e \in d.dict[k].val
              /\ Answer("SREM", k, "OK", ver, 1)
              /\ db' = EXPIRE_OR_NOT(cut, k, r.et)

-----------------------------------------------------------------------------
(* Keys going without a command asking for them.                           *)

\* dbRandomKey: draws until it meets a key it does not have to collect; a
\* key with no deadline is returned as it is.
RandomKey ==
    LET due == {k \in Keys : /\ db.expires[k] # NoTTL
                             /\ Stale(db, k) \/ Overdue(db, k, now)}
    IN  /\ UNCHANGED now
        /\ \E S \in SUBSET due :
              LET d == Collect(db, S)
              IN  /\ db' = d
                  /\ \/ /\ \A k \in Keys : ~Stored(d, k)
                        /\ Answer("RANDOMKEY", Nil, "NOT_EXIST", 0, Nil)
                     \/ \E k \in Keys \ due :
                           /\ Stored(d, k)
                           /\ Answer("RANDOMKEY", k, "OK", d.dict[k].ver, Nil)

\* One activeExpireCycle over this database.  Both loops draw at random, so
\* either may collect any part of what it is looking for; the first draws at
\* most need_remove_key times.
ActiveExpireCycle(stale, overdue) ==
    /\ stale \subseteq StaleKeys(db)
    /\ Cardinality(stale) <= db.needRemove
    /\ overdue \subseteq {k \in Keys \ stale : CronOverdue(db, k, now)}
    /\ db' = Collect(db, stale \cup overdue)
    /\ UNCHANGED <<now, reply>>

Cron == \E stale, overdue \in SUBSET Keys : ActiveExpireCycle(stale, overdue)

\* processCommand frees memory one key at a time before it calls a command.
\* Which keys the policy prefers is a matter of module Memory.
Evict(k) ==
    /\ Stored(db, k)
    /\ db' = Collect(db, {k})
    /\ UNCHANGED <<now, reply>>

\* emptyDb leaves need_remove_key as it is.
EmptyDb ==
    /\ db' = [db EXCEPT !.dict = [k \in Keys |-> Absent],
                        !.expires = [k \in Keys |-> NoTTL]]
    /\ UNCHANGED <<now, reply>>

\* The logical clear, done by the embedding process: every stored key is
\* now stale, and need_remove_key says how many there are.
Clear ==
    /\ db.logiclock < ClockMax
    /\ db' = [db EXCEPT !.logiclock = @ + 1,
                        !.needRemove = Cardinality({k \in Keys : Stored(db, k)})]
    /\ UNCHANGED <<now, reply>>

Tick ==
    /\ now < MaxTime
    /\ now' = now + 1
    /\ UNCHANGED <<db, reply>>

-----------------------------------------------------------------------------

Init ==
    /\ db = [dict |-> [k \in Keys |-> Absent],
             expires |-> [k \in Keys |-> NoTTL],
             logiclock |-> 1, needRemove |-> 0]
    /\ now = StartTime
    /\ reply = [cmd |-> "NONE", key |-> Nil, rc |-> "OK", ver |-> 0, val |-> Nil]

Read(k) == Get(k) \/ Exists(k) \/ TypeOf(k) \/ Ttl(k)

Write(k, r) ==
    \/ \E v \in Values :
          \/ Set(k, v, r)
          \/ Setnx(k, v, r)
          \/ Getset(k, v, r)
          \/ \E s \in ExpireArgs : Setex(k, v, s, r) \/ Setnxex(k, v, s, r)
    \/ \E init \in IncrArgs \cup {0}, incr \in IncrArgs :
          incrDecrCommand(k, init, incr, r)
    \/ \E e \in Elems : Sadd(k, e, r) \/ Srem(k, e, r)

Next ==
    \/ \E k \in Keys :
          \/ Read(k)
          \/ \E r \in Request : Write(k, r)
          \/ \E s \in ExpireArgs : Expire(k, s)
          \/ Persist(k)
          \/ Evict(k)
    \/ \E S \in (SUBSET Keys) \ {{}} : Del(S)
    \/ RandomKey
    \/ Cron
    \/ EmptyDb
    \/ Clear
    \/ Tick

Spec == Init /\ [][Next]_vars

\* The cron runs for ever and draws keys at random: a key that stays there
\* to be collected is drawn in the end.
CronCollects(k) ==
    \E stale, overdue \in SUBSET Keys :
        k \in stale \cup overdue /\ ActiveExpireCycle(stale, overdue)

FairSpec == Spec /\ \A k \in Keys : WF_vars(CronCollects(k))

-----------------------------------------------------------------------------
(* Properties.                                                             *)

\* Every part of the database has its type, and need_remove_key is at most
\* the number of keys: a size_t that went below zero would be above it.
TypeOK ==
    /\ db \in [dict : [Keys -> Entry \cup {Absent}],
               expires : [Keys -> Int \cup {NoTTL}],
               logiclock : 1 .. ClockMax,
               needRemove : 0 .. Cardinality(Keys)]
    /\ now \in Nat

\* A deadline belongs to a stored key: the entry of db->expires shares the
\* key string of db->dict, and removeExpire, setExpire and getExpire assert it.
DeadlinesHaveKeys == \A k \in Keys : db.expires[k] # NoTTL => Stored(db, k)

\* need_remove_key covers every stale key.  The cron stops looking for stale
\* keys at zero, and each one collected takes one off the unsigned counter.
StaleCovered == Cardinality(StaleKeys(db)) <= db.needRemove

\* A set that loses its last member goes with it (SREM), and a set refused
\* for its length leaves nothing behind (SADD).
SetsWithinBounds ==
    \A k \in Keys : (Stored(db, k) /\ db.dict[k].type = REDIS_SET) =>
        /\ db.dict[k].val # {}
        /\ Cardinality(db.dict[k].val) <= SetMax

\* Once cleared, an entry only ever disappears or gives way to an entry
\* stored after the clear: no command brings it back or changes it, though
\* EXPIRE, PERSIST and TTL still find it.
ClearedStaysCleared ==
    [][\A k \in Keys : Stale(db, k) =>
          \/ ~Stored(db', k)
          \/ db'.dict[k] = db.dict[k] /\ Stale(db', k)
          \/ db'.dict[k].clk = db'.logiclock]_vars

\* A stale or overdue key is collected in the end, or overwritten, or given
\* a new deadline: the cron's random draws do not starve it.
StaleGoes == \A k \in Keys : Stale(db, k) ~> ~Stale(db, k)
OverdueGoes == \A k \in Keys : Overdue(db, k, now) ~> ~Overdue(db, k, now)

=============================================================================
