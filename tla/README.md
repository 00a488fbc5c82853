# A TLA+ model of libredis.a

The repository is an embedded storage engine: the data structures and the
command bodies of Redis 2.2 without its server, as used inside Tair (`README`:
"code copy from taobao tair / redis embeded storage engine").  A process links
the library, fills a `redisClient` with arguments and calls `processCommand`;
replies come back in fields of the client.  There is no network, no
persistence and no replication in this code.  What it adds to Redis:

* **versions**: a 16-bit version in the header of every key string, checked by
  a write that asks for it (`version_care`) and incremented by it;
* a **logical clear**: the owner of a database increments `logiclock`; every key
  whose own clock is smaller counts as gone and is collected later;
* **per-database memory limits**, with the allocator counting per database.

The library takes no lock except the one around the allocator's counters.  Its
caller runs one command, one `serverCron` or one clear at a time on a database,
so each of these is one step in the models.  The hard behaviours are therefore
not data races but the order of whole calls: keys that are gone but still
stored, tables half way through a rehash, counters that two code paths
maintain, clients that read now and write later.

## 1. Inventory

| Component | State | Operations | Interacts with |
|---|---|---|---|
| Keyspace and expiry (`db.c`) | `redisDb`: `dict`, `expires`, `logiclock`, `need_remove_key`; version and clock in each key's sds header | lookups with lazy expiry, `dbAdd`, `dbReplace`, `dbSuperReplace`, `dbDelete`, `dbRandomKey`, `emptyDb`, DEL, EXISTS, TYPE, EXPIRE, TTL, PERSIST | every command; the dict; the cron; the owner of `logiclock` |
| Strings (`t_string.c`) | values in the keyspace | SET, SETNX, SETEX, SETNXEX, GET, GETSET, INCR/DECR family | keyspace |
| Sets (`t_set.c`) | dict or intset | SADD, SREM, SMOVE, SPOP, SISMEMBER, SCARD, SINTER, SINTERSTORE (there is no SUNION or SDIFF) | keyspace, dict iterators, intset |
| Hashes (`t_hash.c`) | zipmap or dict | HSET, HSETNX, HMSET, HINCRBY, HGET, HMGET, HDEL, HLEN, HKEYS, HVALS, HGETALL | keyspace, zipmap, dict |
| Lists (`t_list.c`, `value_item_list.c`) | ziplist or linked list; reply lists | pushes, pops (of several), LINSERT, LSET, LINDEX, LRANGE, LTRIM, LREM | keyspace, ziplist, adlist |
| Sorted sets (`t_zset.c`) | skip list with spans, and a dict from member to score | ZADD, ZINCRBY, ZREM, range deletes, ranges, rank, union and intersection | keyspace, dict |
| Hash table (`dict.c`) | two tables, `rehashidx`, `iterators` | add, replace, delete, find, random key, empty, expand, shrink, rehash, iterate | keyspace, sets, hashes, sorted sets, cron |
| Compact encodings (`intset.c`, `ziplist.c`, `zipmap.c`) | one byte array each | insert, delete, find, walk, with upgrades and cascades | sets, lists, hashes |
| Linked list (`adlist.c`) | nodes with head, tail, length | insert, delete, iterate, search | lists |
| Objects (`object.c`, `networking.c`) | reference counts, encodings, shared integers | create, share, encode, free; set up and reset a client | everything |
| Cron and eviction (`redis.c`) | `cronloops`, LRU clock, limits | `serverCron` (resize, rehash, collect), `freeMemoryIfNeeded`, `freeDBMemoryIfNeeded`, `processCommand` | keyspace, dict, allocator |
| Allocator (`zmalloc.c`) | used bytes, in total and per database, thread-local `dbnum` | allocate, reallocate, free | eviction |
| Helpers | none | `sds.c`, `util.c`, `sort.c`, `pqsort.c`, LZF | - |

What makes each correct:

* *Keyspace*: a deadline belongs to a stored key; a key that is gone (overdue or
  cleared) is never answered or brought back; the count of keys to collect is
  never below their number; whatever has to be collected is collected.
* *Versions*: a guarded write succeeds only over the value its client read.
* *Commands*: a refused command changes nothing, an accepted one its own key only;
  containers that become empty go with their key.
* *Dict*: it is a map, however the calls and the rehashing interleave; the unsigned
  counters count; rehashing ends.
* *Encodings*: each stands for the same abstract value before and after a
  conversion, an upgrade or a cascade.
* *Sorted sets*: skip list and dict hold the same pairs; spans are distances.
* *Eviction*: it stops, takes only keys it may take, refuses only when nothing is left to
  take, and leaves the counters what the collection code expects.

`PROJECT.json` lists the hazards line by line, each with the properties that
cover it or with the reason why none does.

## 2. Modules

| Module | What it is |
|---|---|
| `Keyspace` | one `redisDb`: db.c, t_string.c, SADD/SREM, the cron's collection, eviction of a key, logical clear, time |
| `MCKeyspace` | argument sets, symmetry and view for TLC |
| `CacheContract` | abstract: a cache of versioned entries that expire at once and are cleared at once |
| `KeyspaceContract` | the refinement mapping from `Keyspace` to `CacheContract` |
| `OptimisticClients` | `Keyspace` with clients that read, remember the version and write back |
| `Keyspace_proofs` | TLAPS proofs about `Keyspace`, the refinement of `CacheContract` included, and about `OptimisticClients` |
| `Dict` | dict.c with incremental rehashing, and the two cron visits of redis.c |
| `DictMap` | abstract: a map |
| `MCDict` | keys and a hash function for TLC |
| `Dict_proofs` | TLAPS proofs about `Dict`, the refinement of `DictMap` included |
| `Doubles` | doubles: comparison, sum and product with infinities and NaN |
| `SkipList` | the zskiplist functions of t_zset.c, on values |
| `TypedKey` | one key as the commands of a data type see it |
| `ZSet` | the commands of t_zset.c |
| `SortedSet` | abstract: a map from members to scores, read in order |
| `MCZSet` | arguments, view and refinement mapping for TLC |
| `ZSet_proofs` | TLAPS proofs about `ZSet`, the skip list included |
| `Ziplist` | ziplist.c: entries, their offsets and length fields, the cascade |
| `Zipmap` | zipmap.c: entries with free bytes, the byte that counts them |
| `Intset` | intset.c: the block of integers, its search and its upgrade |
| `Lists`, `Hashes`, `Sets` | the commands of t_list.c, t_hash.c and t_set.c on either encoding |
| `Containers` | a key that may hold any of the three, and another one that may hold a set |
| `ValueList`, `FieldMap`, `MemberSets` | abstract: a sequence, a map, two sets |
| `MCContainers` | arguments, view and bound for TLC |
| `Recursion_proofs` | lemmas about recursive functions and about sums over finite sets |
| `SetsAndHashes_proofs` | TLAPS proofs about the sets and the hash of `Containers`, the intset, the zipmap and the refinements of `MemberSets` and `FieldMap` included |
| `Ziplists_proofs` | TLAPS lemmas about the ziplist, its cascade, and the functions of t_list.c on either encoding |
| `Lists_proofs` | TLAPS proofs about the list of `Containers`, the refinement of `ValueList` included, and about the types of both keys |
| `Memory` | the counters of zmalloc.c over several databases; eviction and refusals of redis.c |
| `Memory_proofs` | TLAPS proofs about `Memory` |
| `MCMemory` | sizes, limits and policies for TLC |

### Keyspace

`db` is a record of the fields of `redisDb` that the code reads back: `dict` maps a
key to its entry (type, value, and the version and clock of the key's sds header) or
to `Absent`; `expires` maps it to a deadline or to `NoTTL`; `logiclock` and
`needRemove` are the counters.  `now` is `time(NULL)`; `reply` holds the return code,
version and value the command leaves in its client.  No action reads `reply`.

The C functions on a `redisDb` are functions from a database to a database
(`dbAdd`, `setXExpire`, `expireIfNeeded`, ...), and a command is an action that
composes them in the code's order, one disjunct per way to return.  Details that
are kept because they matter:

* `expireIfNeeded` runs in every `lookupKey{Read,Write}WithVersion`, so even a read or
  a refused write collects its key; a malformed argument returns before it.  EXPIRE,
  PERSIST, TTL and DEL do not call it.
* A deadline below zero is "no deadline" to a lookup (`getExpire` returns -1 for
  that) but not to the cron.
* `dbReplace` keeps the version of a stored key and `dbSuperReplace` sets it.  A version
  of 0 is never checked, and versions wrap (`VersionMax` stands for 65535).
* `need_remove_key` is a `size_t`: `SizeMinus` wraps it.  `TypeOK` keeps it at or below the
  number of keys, where a wrapped counter is never; `StaleCovered` is why no decrement wraps it.
* EXPIRE takes a number up to the present time as a duration and a larger one as a
  point in time; SETEX always takes a point in time.
* INCR adds in 64 bits and stores the sum cut to 32 (`Int32`).

Every command requires that its caller stamped `argv[1]` with the current clock of
the database, as Tair does; the library itself never writes the clock of a new key.
The logical clear and the passing of time are the environment's actions, marked
external.  The clear is modelled by what the library expects of it: the clock
incremented and `need_remove_key` set to the number of stored keys.

### Dict

A bucket is the set of its chain's entries.  `ht0`, `ht1` and `rehashidx` are the
fields of `dict`; every call first takes the rehashing step the code takes
(`Stepped`), and dictReplace takes the second one of its `dictFind`.  The bucket scan
`while(d->ht[0].table[d->rehashidx] == NULL)` is `NextBucket`, a `CHOOSE` over the rest
of the table: if `rehashidx` and `used` disagreed the model would have no value
there, as the code would run off the table.  The counters are integers; `TypeOK`
requires naturals, so a counter that would wrap is an error.

### Sorted sets

`SkipList` has a node for every member, with the height, score, back pointer and per-level
`forward` and `span` of the code.  All searches of t_zset.c have one shape, go down the
levels and forward while a condition holds, so there is one `Search`, and each function
passes its condition; it returns the `update` and `rank` arrays of the code.  What a search
has at hand, the node it is at and the spans it crossed so far, is a place (`Places`), and a
condition is a function of places, so that walks are recursive functions of one argument.  A new
node has any height (`zslRandomLevel`).  `zslDeleteNode` leaves the header's spans above
the new level as they are, and `zslInsert` resets them, as in the code.

`ZSet` puts the list beside the dict.  `dict[e]` is the score that the entry of `e`
points to; after `zslDelete` and `zslInsert` it has to be pointed at the new node's score.
The two calls of `zslDelete` that assert that they find the member have `Finds` as a guard.
A command is an action of one key (`TypedKey`: type, value, version, deadline) with one
disjunct per way to return.  The key goes at any time, for expiry, clears and evictions,
and another type may take its name.  Of ZUNIONSTORE and ZINTERSTORE, this key is the
destination and may be a source; the other sources are constants.  They ignore
`zset_max_size`, store the version the client sent and drop the deadline.

`TypedKey` has a second key, `other`, for the commands of sets that write two; the commands of
sorted sets, lists and hashes leave it alone.

`Doubles` stands for the doubles: integers up to `Inf - 1` are the finite ones, what
exceeds them is an infinity, and NaN comes from opposite infinities and from zero times
an infinity.

### Lists, hashes and sets

The three encodings keep in the model what makes them break, and nothing else of their
bytes.  A value is a model value with a size.

* `Ziplist`: an entry is its length field (`prevsize` bytes that say `prevlen`) and its
  value; the header has the size of the block, the tail offset and the length.  Offsets are
  computed from the entries, `tail` and `prevlen` are what the code stores, and the walks
  from the tail go by these two: a wrong one leads to a position that is none.  The
  cascade is one `CascadeTurn` after another over the entries behind the insert.  A field that could
  become smaller stays large in a cascade, and does become smaller in an insert or a delete.
* `Zipmap`: `bytes` is what the block was resized to last, and `TotalLength` what a walk finds.
  `zipmapLen` writes the counting byte again, so the reads that ask for a length (HLEN, and
  the refusals of HSET, HMSET and HINCRBY) change it: `Counted`.
* `Intset`: the block is a sequence of units of two bytes, each knowing which integer it
  belongs to and which part of it; an integer that was partly written over reads as
  `Garbage`.  The upgrade writes from the back, in the block it reads from.

`Lists`, `Hashes` and `Sets` have one action per command, one disjunct per way to return,
as `ZSet` has.  Of the code's ways they keep: the order of the version and type checks, which
SADD has the other way around; conversions that happen although the command is refused
afterwards (LINSERT and LSET that find no place, SADD and HSET of one too many); pushes and
HMSETs that stop in the middle; LPUSHX that pushes its first value for each argument;
HSETNX, HMSET and LINSERT that do not look at the limit; SMOVE that looks at neither versions
nor limits.  Two things the code does have no step, since they have no outcome: an insert
that copies from outside its block (`Survives`), and an HMSET that reads a zipmap as a dict.

`Containers` puts the three on one key, so that each type's commands meet the others'
values, and SINTERSTORE replaces them.  It also has the three refinement mappings.

### Memory

`dict[j][k]` is the entry of a key in database `j`, reduced to what eviction looks at:
whether it has a deadline, and its clock.  An entry needs `KeySize[k]` bytes.  Every
allocation goes to `used` and to the counter of the database that the thread has set, which is
the first argument of `Counted` and `Delete`: the command's own (`dbnum == run.db`) in everything
processCommand does, and the database it is at in the cron.  `dbUsed` wraps as a `size_t`.

`run` is the place in processCommand, with the loop variables of `freeMemoryIfNeeded`: `dbLimit`
(the loop of `freeDBMemoryIfNeeded` and the check behind it), `stale` (the first loop),
`evict` (the second one, `j` for its inner loop and `freed`), `check` and `call`.  Each turn is a
step; the places of the code where nothing else can run are steps too, so that every key
drawn is visible.  Which of the keys is drawn, and which of those drawn has been idle for
longest, is open.  Between commands the cron collects, the owner clears, and limits change.

## 3. Runs

| Run | Instance | Shows |
|---|---|---|
| `keyspace_core` | 2 keys, 2 values, 2 set members, 2 logical clears, 1 second | `TypeOK`, `DeadlinesHaveKeys`, `StaleCovered`, `SetsWithinBounds`, `ClearedStaysCleared` |
| `keyspace_contract` | 2 keys, every command, all versions and modes, negative deadlines, malformed numbers | `ImplementsContract` |
| `keyspace_cron` | 2 keys, fair cron | `StaleGoes`, `OverdueGoes` |
| `optimistic_clients` | 1 key, 2 clients, versions 0..2 | `VersionsCountWrites`, `NoLostUpdate` |
| `dict` | 4 keys, 2 values, tables of 1 to 8 buckets, fair cron | `TypeOK`, `EntriesInPlace`, `NoDuplicates`, `UsedCounts`, `RehashIndexSane`, `ImplementsMap`, `RehashingEnds` |
| `zset` | 3 members, 3 levels, scores -Inf, 0, Inf, weight -1 | `TypeOK`, `ListInOrder`, `SpansMeasure`, `DictAgrees`, `MembersAreFound` |
| `zset_contract` | 3 members (2 by ZADD), 2 levels, scores -Inf, 1, Inf, all commands, ranges with every kind of end, sources missing, shared and twice | `ImplementsSortedSet` |
| `zset_nan` | as `zset`, weight 0 | expects a violation of `MembersAreFound` |
| `containers` | lists of 4 values (5 by LINSERT) of 4 sizes, hashes of 4 fields, sets of 4 integers and a string | `TypeOK`; `PrevLensHold`, `HeaderHolds`, `EncodingFits`, `ImplementsValueList`; `WalksEnd`, `FieldsCounted`, `HashEncodingFits`, `ImplementsFieldMap`; `IntsetsWhole`, `SetEncodingFits`, `ImplementsMemberSets` |
| `ziplist_insert` | as `containers` | expects a violation of `InsertsStayInside` |
| `memory` | 2 databases of 2 keys, with and without limits, every policy, fair | `TypeOK`, `CountersAddUp`, `KeysGoForAReason`, `RefusedAtLast`, `CommandsReturn` |
| `memory_refused` | as `memory`, other limits | expects a violation of `OnlyDenyoomRefused` |

The bounds and why they are enough:

* *Keys*: an action touches one key, or a set of them independently; two keys let one
  go while another stays, and let the counter be right for one and wrong for
  the other.  With versions one key is enough: a version belongs to its key.
* *ClockMax 3*: two clears, so that a key can be stale by one clear while the
  counter has been set again by the next, after a DEL or an EmptyDb let it drift.
* *StartTime, MaxTime*: 2 and 3.  At time 2 the arguments -1, 0, 1 and 3 are a
  negative deadline, a removal, a duration and a point in time; at time 3 the
  duration given at time 2 is due, and a point in the past is overdue.  (SETEX
  with 1 is overdue at once.)
* *VersionMax*: 1 or 2 instead of 65535, so that versions wrap in the run.
* *SizeMax 15, IntMax 0 or 1*: far enough from the counts that a wrap shows: for
  `need_remove_key`, `SizeMax` at least twice the number of keys.
* *SetMax 1*: a second member is refused at once.
* *Dict*: initial size 1 rather than 4 and a minimal fill of 33 % instead of 10 %, so
  that four keys make tables of 1, 2, 4 and 8 buckets grow and shrink; two keys
  collide in every one of them.

* *Sorted sets*: three members give a first, a middle and a last node, and three levels a
  node that is passed on two of them while another reaches both.  Two members of
  equal score and a third with another one tell the order by score from the order by
  name.  Weights are not zero in `zset` and `zset_contract`: `zset_nan` shows why.  A source
  listed twice has one weight, see below.

* *Lists*: the sizes are the real ones: 248 bytes make an entry of 250 with a short length
  field and of 254 with a long one, so that an entry of 300 put before two of them makes
  both fields grow, one by the other.  300 is also the longest string for a ziplist here, and
  301 converts.  Four values give a cascade something to stop at and a tail behind it.
* *Hashes*: a counting byte that stops at 2 instead of 254 (`ZIPMAP_BIGLEN`, which is also the
  length from which a length takes five bytes), so that it stops and starts again with three fields;
  values of 1, 2, 6 and 7 bytes leave free bytes and outgrow them.  Of the integers -1, 0 and 1 an
  int32_t has the first two: HINCRBY takes a stored 1 and cuts the sum.
* *Sets*: integers of three widths (two, four and eight bytes stand for -2..1, -8..7 and the
  rest), one of them to be put in front; an intset of three converts with the fourth.  The
  constraint `SmallOther` keeps the other key out of the way of lists and hashes, whose
  commands do not look at it, and goes no further from a state where it has two members; that
  state is checked itself.
* *Memory*: two databases are one to evict for and one to evict from; sizes 1 and 2 make
  counters that are off by a key of the other size.  `SizeMax` is the least that holds all keys.
  The first limit of a database is what one small key needs, which a command may lift; two
  clears are one more than staleness needs, as above.

The sorted set and container runs, and the keyspace runs but `keyspace_cron`, use a view without `reply`: no action reads it, and
action properties, which do, are evaluated on every step TLC generates, before
the view identifies states.

### Fairness

* `FairSpec` of `Keyspace`: for each key, a cron that would collect it is not put off
  for ever (`WF` of `CronCollects(k)`).  `serverCron` recurs for as long as the process
  runs, and both its loops draw keys at random, so a key that stays collectable is
  drawn with probability one.  Nothing is assumed of any command.
* `FairSpec` of `Dict`: `serverCron` recurs, so both of its visits to a dict that needs
  one happen (`WF`).  This is what it does for the `db->dict` of the first database that
  is rehashing.  It never rehashes `db->expires`: for that one only the calls do.
* `FairSpec` of `Memory`: a command that has begun goes on (`WF` of `Proceed`).  It is one call of
  a C function, and nothing else runs on the server meanwhile.  That it comes to its end is
  not assumed: `CommandsReturn` checks it.

### Findings

* ZADD and ZREM assert that the list finds a member of the dict.  A union or intersection
  with weight 0 (or an infinite weight) stores NaN as a score, and then it does not (`zset_nan`).
* `__ziplistInsert` keeps the growth of the next entry's length field, which may be -4, in an
  `unsigned int`.  On a 64-bit build, LINSERT or LSET of a short value in front of an entry
  with a five-byte field copies from 4 GB past the block (`ziplist_insert`).  It takes an entry
  of 254 bytes, so a `list_max_ziplist_value` above its default of 64.
* `freeMemoryIfNeeded` frees keys of all databases while the allocator counts for the command's.
  The counter of that database can fall below zero, which for a `size_t` is above every limit:
  with nothing left to evict, every command on it is refused, reads and DEL included
  (`memory_refused`).  The check of the flag `REDIS_CMD_DENYOOM` comes after this one.

Met on the way, without a run of their own:

* `dbRandomKey` (db.c:97) promises keys that have not expired, and asks `expireIfNeeded` only
  about keys with a deadline; a logically cleared key without one is returned.  Nobody calls it.
* `tryResizeHashTables` (redis.c:326) promises to shrink a table below the minimal fill;
  `htNeedsResize` excludes the emptied table, which stays as large as it was.
* HMSET on a full hash looks fields up with `dictFind` whatever the encoding (t_hash.c:361): with
  `hash_max_size` not above `hash_max_zipmap_entries` it reads a zipmap as a dict.
* A union that lists one key twice with two weights counts both with the first
  (t_zset.c:856), an intersection counts each with its own (t_zset.c:817); no text of the
  repository says what is right.

## 4. Proofs

The modules `*_proofs` prove, for every value of the constants that meets the named
assumptions, what the `theorems` entries in `PROJECT.json` list.  Each has its own
inductive invariant `IInv` (`CInv` for the clients).

**Keyspace.**  `IInv == DbOK(db) /\ now \in Nat`.  None of the three invariants is
inductive alone: that a collection does not wrap `need_remove_key` needs
`StaleCovered`; `StaleCovered` needs to know that the clocks of entries are
at most the database's, which is part of the type; that a deadline's key is
stored has to be carried through `Collect`, whose two halves it relates.  `DbOK` is
stated on a database value, so there is one lemma per C function (it keeps `DbOK`),
and a command is a composition of them.  `TypeOK` bounds `need_remove_key` by the number of keys, and
`WrapShows` states what this is worth: of a counter in that range, a decrement leaves the range
exactly when it wraps.  Assumptions: `KeysAssumption` (finitely many
keys), `NumberAssumption` (which includes that memory has at least two bytes per key),
`ArgumentAssumption` (arguments have their C types),
`MarkAssumption` (a mark is neither a value nor an entry).

The same compositions carry two more properties.  `SetsWithinBounds` speaks of one entry at a
time, so each C function has to keep `EntriesOK`, and only SADD and SREM make new sets.
`ClearedStaysCleared` speaks of two states: a function may take an entry away, leave
it, or put one with the present clock in its place (`Moves`), and these compose; a
clear is the only step that is more than that, and it makes no entry fresh.

**Keyspace implements CacheContract.**  The mapping hides an entry that is cleared; of one
that is overdue the contract decides by itself, since it has the deadline.  So a collection of a
cleared key is a stutter, one of an overdue key is the contract's lapse, and a command whose
lookup collects is one step of the contract that does both.  The lemmas say per C function what
it does to the visible cache (`Visible`); the command lemmas put them together, return code
by return code.  `VisibleMarkAssumption`: the mark of an absent entry is not an entry.

**OptimisticClients.**  `CInv` adds to the database invariant what a client remembers:
either its read can no longer be compared (the key went, or was written past the last
version), or the key is stored and its version is the one read plus the writes since, modulo
`VersionMax + 1` (`Tracks`).  `NoLostUpdate` is about the step: a guarded write that
succeeds compared versions, so the writes since are a multiple of the number of versions, and
`Tracks` bounds them.  `ClientMarkAssumption`: no memory is the mark of none.

**Memory.**  `IInv == StoreOK /\ CountersOK /\ RunOK`.  `CountersOK` says that `used` is the sum
of what the entries need and that the databases' counters add up to it modulo the `size_t`; it is
inductive only with `StoreOK`, by which an entry's clock is not ahead of its database's and
`need_remove_key` covers the stale ones, so that no decrement wraps; `RunOK` ties the place in
processCommand to what led there, without which a refusal could not be traced to a turn of the
loop that found nothing.  The sums are folds: what one change does to them is proved in
`Recursion_proofs`, by a smallest counterexample among the finite subsets of the domain.
Assumptions: `MemoryAssumption` (constants have their C types, there is a database, a key takes
room) and `AbsentAssumption` (the mark of an absent key is not an entry).

**Sets and intsets.**  `IInv` of `SetsAndHashes_proofs` says that whatever a key holds under the type of
sets is a set of one encoding or the other, well formed, and not empty.  For an intset that is
`IntsetOK`: the block has exactly the units of its integers, each integer can be read whole, none
needs a width above the set's, and they ascend.  None can be left out: a search answers
rightly only if they ascend; an insert makes room at the place the search answered; an
upgrade may put its integer at an end only because none in the set is as wide; and
the length is the number of members only because no integer is there twice.  The upgrade is
proved turn by turn from the back: what is still to be read lies before what was
written (`RewritingTurn`, `WiderCells`).  The two recursive functions, the binary search and
the upgrade, have a solution by `RecursionSolved`, and what it computes follows by the smallest
counterexample; so does what SINTERSTORE stores.  The refinement then has one lemma
per command.  It says nothing of lists and hashes but that their commands leave sets alone, which
is not free: a command that replaces the value of a key with the key's old type must be shown
never to meet a key that is not there.  Assumptions: `IntsetAssumption` (the bounds of the
widths are ordered, garbage is no integer), `SetsAssumption` (the limit is at least 1, the integers
among the members are integers, an intersection names a key at least), `RequestAssumption`
(arguments have their C types), `HashesAssumption`, `TypesAssumption` and `SetMarkAssumption` (the
types differ, and an entry is not the mark of none).

**Hashes and zipmaps.**  `HInv` says of the key what `IInv` of the sets does: what it holds under
the type of hashes is a well-formed hash (`HashOK`) with fields.  For a zipmap that is `ZipmapOK`,
with few entries and short values: no field is there twice, the block has the bytes of its
entries, and the first byte counts them unless it has reached its limit.  A set in place reads the
room from the old entry and writes what it left free into the new one; a delete takes an entry's
bytes off the block; so both need the sum of the entries' lengths before and after a change of one
of them, which `SumOneMore`, `SumUpTo` and `SumWithout` of `Recursion_proofs` give.  That the
values are short is not a consequence of the rest: HSET, HSETNX
and HMSET convert before they set, HINCRBY need not since its number is short, and it is the
setting of a field that looks at the number of entries.  HMSET sets its pairs one after another; the hash and the contract's map go
through the same turns (`SettingHolds`), in either encoding and from one to the other.  The
commands of lists and sets are the steps of `SetsAndHashes_proofs`, by which they do not touch a hash or,
SINTERSTORE, put something else in its place.  Assumptions, besides those of the sets:
`HashesAssumption` (the limits and sizes are numbers, a long long's digits are fewer than
`hash_max_zipmap_value`, arguments have their C types), `TypesAssumption` (a hash is no list and no
string) and `HashMarkAssumption` (an entry is not the mark of none).

**Lists and ziplists.**  `LInv` says of the key what `IInv` and `HInv` do: what it holds under the
type of lists is a well-formed list (`ListOK`) with values, few and short ones in a ziplist.  For a
ziplist that is `ZiplistOK`: every entry has the raw length of the one before it in a field large
enough for it, and the header has what these lengths add up to.  The walks from the tail, on which the
pops, the removals and negative indexes rest, subtract these lengths from the tail
offset, so they land on entries only because both are right (`PrevIs`, `IndexIs`).  In the middle of
an insert or a delete one field is not right: `WellButAt(zl, k)` says that all is well but for the
length in entry k, whose field may also be too small for the length it should hold.  A turn of
the cascade moves k on by one or finds that the length is right; that it may stop where a field
kept its size is so because the raw length of that entry, and with it the length in the next one, has
not changed.  The tail offset needs its own case in each: it stays when the field that grows is
the last entry's.  Inserts and deletes are then about the offsets before and behind a place
(`OffAgrees`, `OffBehind`), and a cascade from there.
Above that, a list of either encoding is a sequence of values whose operations agree with those on
sequences, and the loops of pushes, pops and LREM keep that turn by turn (`PushedBy`, `PopHolds`,
`RemovalHolds`): LREM in a ziplist goes on from a position that the delete before it has moved.
With the two other invariants, and one that a key of
no such type is what `StoredOtherwise` stored (`KInv`), `LInv` gives the type invariant of `Containers`.
Assumptions, besides those of the sets and hashes: `ListsAssumption` (sizes and limits are
numbers), `ListArgumentsAssumption` (a push has a value, positions and counts are integers), `ListMarkAssumption` (the mark of a
missing key is not an entry with a list), and of `TypesAssumption` that a list is no string.

**Lists implement ValueList.**  The mapping forgets the encoding and the prev lengths: the sequence of a
ziplist is the values of its entries (`Items`, `ListIs`).  The commands that work in one place (LSET, LINSERT, LTRIM,
LINDEX, LRANGE) need what an insert, a delete, a trim and a conversion do to that sequence (`ListInserted`,
`ListDeleted`, `ListTrimmed`, `ListConverted`), and that an index of either sign finds the same
place in both encodings.  The three loops need to be told as a whole.  A push puts its values one by
one, may convert on the way, and stops at the limit: it leaves the values reversed before the list or in order behind it
(`Placed`).  A pop takes from an end that is another one after each delete; what it leaves and what it gives are two parts of the
list as it was (`PopsLeave`, `PopsGive`).  LREM is the one that matters: its contract says which positions
go, namely the first |count| equal ones from the end it starts at, and that the others stay in order; the code
deletes while it walks, forwards from the offset that the delete has pulled the next entry to, backwards from the
entry before it.  The lemmas follow the loop by the set of positions taken so far: a position that stays has,
among those that stay, a rank (`Rank`, `LeftOf`), which is where its value is after the deletes, and the loop's
place in the shortened list is the rank of its place in the old one; when it stops, what is found is gone and
nothing else is (`FoundIsGone`).  Then there is one lemma per command: each of its disjuncts is one of the contract's.
The contract states the items that remain by rank too, with no operator of the loop in it.

**Sorted sets and skip lists.**  `IInv` of `ZSet_proofs` says that what a key holds under the type of
sorted sets is a list that is whole, a dict with the same members and scores, and not empty.  A list
is `Whole` with a numbering `pos` of its nodes, the header having 0 and the last node the length:
a link goes to the next number that reaches its level (`Linked`), its span is the
difference, no node is higher than the list and the header's links above its level are NULL
(`Topped`), back pointers and the tail go by the numbers (`Backed`), and scores, then names, ascend
with them (`Ordered`).  The numbers are what makes the levels comparable.  Each condition that
t_zset.c passes to a search holds of the places of the first k nodes and of no others (`Cut`): for
scores and names because the list is in order, for ranks because the spans are exact, which is why
neither can be proved without the other.  So a search ends, on each level, at the last node up to k
that reaches it (`SearchStops`, level by level from the top, along a level by the smallest
counterexample).  `zslInsert` then puts its node behind the first k: the numbers behind move by one, and the
three cases of a link (of the new node, from a node before the place, across it above the new
node) are the three ways the code computes a span.  `zslDeleteNode` is the converse; that the
level of the list goes down to the highest level in use needs that a level without nodes has a header link
to NULL.  The range deletes repeat it with the `update` of the first one, which stays right since only
nodes behind it go.  The stores insert one member after another.  That the members are found
(`MembersAreFound`) follows for scores that are equal to themselves.

The hypothesis is `[]NoNaNStored`: no stored score is NaN.  It cannot be left out, `zset_nan` violates the
conclusion without it.  `NoNaNMade` says where it holds: if the weights of all stores are
neither zero nor infinite and the other sources are free of NaN (`FiniteWeights`), no command stores
one, since arguments that are NaN, and a ZINCRBY that would give one, are refused, and a sum of
opposite infinities counts as 0 in an aggregate.  `ZSetsHold` puts the two together.  The constants of `zset` and
`zset_contract` meet `FiniteWeights`, those of `zset_nan` do not.
Assumptions: `ZSetAssumption` (limits are numbers, members are a finite set of integers whose order is that of
their names, marks are no members, NaN is no number) and `ZSetArgumentsAssumption` (arguments have their C types,
and no argument is NaN, which getDoubleFromObject and zslParseRange refuse).

**Dict.**  `IInv == DictOK(dict)`: each table is typed, in place, counted and without two
entries of one key (`Good`); the contents of the two are disjoint; buckets before
`rehashidx` are empty, and without a rehash there is no second table.  The parts need
each other: moving a bucket is well defined because `used` is not zero, the rest of
the table is where the entries are, and so `NextBucket` exists (by the
well-foundedness of the naturals); the moved entries add up in the second counter
only because the contents are disjoint.  `DictImplementsMap` adds one lemma per
call: it maps to the call of `DictMap`, and the cron's visits and every rehashing
step leave `MapOf(dict)` alone.  Assumptions: `DictAssumption`, and
`CapacityAssumption`: the bound `MaxDoublings` is large enough for the keys, so
that `_dictNextPower` always finds a size; the code has none but `LONG_MAX`.

**Model-checked only.**  Liveness (`StaleGoes`, `OverdueGoes`, `RehashingEnds`,
`CommandsReturn`) is beyond the prover.  One refinement is checked and not proved, that sorted sets
implement `SortedSet`: what the lemmas on searches, ranks and runs lack is the order in which the contract reads
its map, and that the fold of a store is one over some order of the sources.

## 5. Plan

Done, in this order: `Keyspace` with its contract, clients and proofs (the behaviour
that is this engine's own and that every command depends on); `Dict` with its map
and proofs (what the keyspace stands on); `ZSet`, the structure with the most invariants
to keep; the compact encodings with the three types on them, each against its
abstract specification; `Memory`, where the databases meet.  Left:

1. `DictIter`: ordered chains and iterators while lookups rehash the table.
2. `RefCount`: ownership of arguments and values through commands.
3. `Memory` over `Keyspace`: the deadlines and versions of the keys that eviction takes.

The theorem worth proving next: that sorted sets implement `SortedSet`, from `Whole`: the members in the order
of `pos` are the contract's sorted sequence.

## 6. Not modelled

* Statistics (`stat_*`, hit and write counts), the LRU clock and log lines: nothing in
  the modelled code depends on them.  The idle times that eviction compares are open in `Memory`.
* The cron's choice of the one database to rehash: `Dict` is a dict that it does reach.
* The order of a hash table's chains and its iterators: the code iterates only where nothing
  is added meanwhile.
* Integers in a list whose entry would be too long for a ziplist: the models take any integer as
  short, but `pushGenericCommand` (t_list.c:305) encodes only the first value of a new list, and
  `listTypeTryConversion` looks at the length of the others' digits.  It matters for a
  `list_max_ziplist_value` below the digits of an integer, at most 20.
* Reference counts: no command's outcome in these models depends on them.
* A lookup that expires a key another lookup of the same command has found: a command is one
  step and sees one time.
* The library without the allocator's thread safety, with which it counts in no database:
  nothing here turns it on, the embedding process must for its limits to mean anything.
* `logiclock` wrapping after 65535 clears: the code that increments it is not here.
* `set_max_size` of 0, with which SADD creates an empty set it cannot fill:
  `initServer` sets no limit, the embedding process must; `SetMax` is at least 1.
* Formatting and parsing (`sds.c`, `util.c`), `sort.c`, `pqsort.c` and LZF: no state of
  their own, or not called.
* Allocation failure: `zmalloc` aborts the process.
