------------------------------- MODULE Memory -------------------------------
(***************************************************************************)
(* Memory limits over several databases: the counters of zmalloc.c, the    *)
(* loops of redis.c that take keys out before a command (for the limit of  *)
(* its database, after a logical clear, for the limit of the server) and   *)
(* the refusals of processCommand.  Each turn of a loop is a step.         *)
(*                                                                         *)
(* zmalloc adds and subtracts at the counter of the database that the      *)
(* thread has set (dbnum): the caller sets it to the command's, the cron   *)
(* to each database in turn, and the loop over all databases does not.     *)
(* An entry is whether its key has a deadline, and its clock; what it      *)
(* needs is a matter of the key, and all of the memory counted is such.    *)
(***************************************************************************)
EXTENDS Integers, FiniteSets, Functions

CONSTANTS
    DbCount,        \* server->dbnum
    Keys,
    KeySize,        \* key -> what its entry needs
    SizeMax,        \* largest size_t
    ClockMax,       \* bound: no logical clear once a clock has this value
    DefaultDbLimit, \* REDIS_DEFAULT_DB_MAX_MEMOERY
    DbLimits,       \* arguments of setDBMaxmemory; 0 is no limit
    Configs,        \* [server : server->maxmemory, 0 for none, policy : one
                    \* of "NO_EVICTION", "VOLATILE", "ALLKEYS"]
    Absent

Dbs == 0 .. DbCount - 1

ASSUME MemoryAssumption ==
    /\ DbCount \in Nat \ {0}
    /\ IsFiniteSet(Keys)
    /\ KeySize \in [Keys -> Nat \ {0}]
    /\ SizeMax \in Nat /\ ClockMax \in Nat \ {0}
    /\ DbCount * SumFunction(KeySize) <= SizeMax
    /\ DefaultDbLimit \in Nat /\ DbLimits \subseteq Nat
    /\ Configs \subseteq [server : Nat, policy : {"NO_EVICTION", "VOLATILE", "ALLKEYS"}]

VARIABLES
    dict,           \* database -> key -> entry, or Absent
    logiclock,      \* database -> its logical clock
    needRemove,     \* database -> need_remove_key
    used,           \* used_memory
    dbUsed,         \* db_used_memory
    dbLimit,        \* database -> its maxmemory
    config,         \* the server's limit and policy
    run             \* processCommand: where it is, with its loops' variables,
                    \* or what it has returned

store == <<dict, logiclock, needRemove>>
counters == <<used, dbUsed>>
limits == <<dbLimit, config>>
vars == <<dict, logiclock, needRemove, used, dbUsed, dbLimit, config, run>>

Entry == [volatile : BOOLEAN, clk : 1 .. ClockMax]

ASSUME AbsentAssumption == Absent \notin Entry

Stored(j) == {k \in Keys : dict[j][k] # Absent}
Volatile(j) == {k \in Stored(j) : dict[j][k].volatile}
Stale(j) == {k \in Stored(j) : logiclock[j] > dict[j][k].clk}
EntrySize(j, k) == IF dict[j][k] = Absent THEN 0 ELSE KeySize[k]
SizeOf(j) == SumFunction([k \in Keys |-> EntrySize(j, k)])

-----------------------------------------------------------------------------
(* zmalloc.                                                                *)

\* Mutants: only the sum of all databases changes; a counter below zero.
CountedInTotal(d, n) == used' = used + n /\ dbUsed' = dbUsed

CountedSigned(d, n) == used' = used + n /\ dbUsed' = [dbUsed EXCEPT ![d] = @ + n]

\* n more bytes, or fewer, while database d is set: a size_t.
Counted(d, n) ==
    /\ used' = used + n
    /\ dbUsed' = [dbUsed EXCEPT ![d] = (@ + n) % (SizeMax + 1)]

\* dbDelete of a stored key, and one stale key less to find.
Delete(d, j, k) ==
    /\ dict' = [dict EXCEPT ![j][k] = Absent]
    /\ Counted(d, -EntrySize(j, k))
    /\ needRemove' = [needRemove EXCEPT ![j] =
                        IF k \in Stale(j) THEN (@ - 1) % (SizeMax + 1) ELSE @]

-----------------------------------------------------------------------------
(* processCommand, one command at a time.                                  *)

Returned(rc) == [at |-> rc, db |-> 0, denyoom |-> FALSE, j |-> 0, freed |-> FALSE]
At(place) == run.at = place
Idle == run \in {Returned("OK"), Returned("REACH_MAXMEMORY")}
Turn(place, j, freed) == run' = [run EXCEPT !.at = place, !.j = j, !.freed = freed]
Returns(rc) == run' = Returned(rc)

\* The caller sets zmalloc's database to that of the command.
dbnum == run.db

Start(j, denyoom) ==
    /\ Idle
    /\ run' = [at |-> "dbLimit", db |-> j, denyoom |-> denyoom, j |-> 0, freed |-> FALSE]
    /\ UNCHANGED <<store, counters, limits>>

DbOver == dbLimit[run.db] > 0 /\ dbUsed[run.db] > dbLimit[run.db]
ServerOver == config.server > 0 /\ used > config.server

\* freeDBMemory draws among the keys with a deadline, if there are any, and
\* otherwise among all: a stale one at once, or the one idle for longest of
\* several draws, which may be any.
freeDBMemory ==
    /\ At("dbLimit") /\ DbOver
    /\ \E k \in (IF Volatile(run.db) # {} THEN Volatile(run.db) ELSE Stored(run.db)) :
          Delete(dbnum, run.db, k)
    /\ UNCHANGED <<logiclock, limits, run>>

\* Whatever the command would do.
RefusedByDb ==
    /\ At("dbLimit") /\ DbOver /\ Stored(run.db) = {}
    /\ Returns("REACH_MAXMEMORY")
    /\ UNCHANGED <<store, counters, limits>>

DbLimitHolds ==
    /\ At("dbLimit") /\ ~DbOver
    /\ IF config.server > 0 THEN Turn("stale", 0, FALSE) ELSE Turn("call", 0, FALSE)
    /\ UNCHANGED <<store, counters, limits>>

\* Mutant: any key drawn goes.
RemoveDrawn ==
    /\ At("stale") /\ run.j < DbCount
    /\ IF needRemove[run.j] > 0 /\ Stored(run.j) # {}
       THEN \E k \in Stored(run.j) : Delete(dbnum, run.j, k)
       ELSE UNCHANGED <<dict, needRemove, counters>>
    /\ Turn("stale", run.j + 1, FALSE)
    /\ UNCHANGED <<logiclock, limits>>

\* freeMemoryIfNeeded draws one key of each database that may have stale
\* ones.
RemoveStale ==
    /\ At("stale") /\ run.j < DbCount
    /\ \/ /\ needRemove[run.j] > 0
          /\ \E k \in Stale(run.j) : Delete(dbnum, run.j, k)
       \/ /\ needRemove[run.j] = 0 \/ Stored(run.j) \ Stale(run.j) # {} \/ Stored(run.j) = {}
          /\ UNCHANGED <<dict, needRemove, counters>>
    /\ Turn("stale", run.j + 1, FALSE)
    /\ UNCHANGED <<logiclock, limits>>

StaleDone ==
    /\ At("stale") /\ run.j = DbCount
    /\ IF config.policy # "NO_EVICTION" /\ ServerOver THEN Turn("evict", 0, FALSE)
       ELSE Turn("check", 0, FALSE)
    /\ UNCHANGED <<store, counters, limits>>

\* Mutant: the deadlines are looked at under the other policy.
CandidatesSwapped(j) == IF config.policy = "VOLATILE" THEN Stored(j) ELSE Volatile(j)

Candidates(j) == IF config.policy = "ALLKEYS" THEN Stored(j) ELSE Volatile(j)

\* One key of each database in turn, whichever is the best of the draws.
EvictOne ==
    /\ At("evict") /\ run.j < DbCount
    /\ \/ /\ \E k \in Candidates(run.j) : Delete(dbnum, run.j, k)
          /\ Turn("evict", run.j + 1, TRUE)
       \/ /\ Candidates(run.j) = {}
          /\ UNCHANGED <<dict, needRemove, counters>>
          /\ Turn("evict", run.j + 1, run.freed)
    /\ UNCHANGED <<logiclock, limits>>

\* Mutants: another turn even if nothing was there to be freed, or none.
EvictTurnAlways ==
    /\ At("evict") /\ run.j = DbCount
    /\ IF ServerOver THEN Turn("evict", 0, FALSE) ELSE Turn("check", 0, FALSE)
    /\ UNCHANGED <<store, counters, limits>>
EvictTurnOnce ==
    /\ At("evict") /\ run.j = DbCount
    /\ Turn("check", 0, FALSE)
    /\ UNCHANGED <<store, counters, limits>>

EvictTurn ==
    /\ At("evict") /\ run.j = DbCount
    /\ IF run.freed /\ ServerOver THEN Turn("evict", 0, FALSE) ELSE Turn("check", 0, FALSE)
    /\ UNCHANGED <<store, counters, limits>>

\* Only a command that may need more memory.
RefusedByServer ==
    /\ At("check") /\ run.denyoom /\ ServerOver
    /\ Returns("REACH_MAXMEMORY")
    /\ UNCHANGED <<store, counters, limits>>

ServerLimitHolds ==
    /\ At("check") /\ ~(run.denyoom /\ ServerOver)
    /\ Turn("call", 0, FALSE)
    /\ UNCHANGED <<store, counters, limits>>

-----------------------------------------------------------------------------
(* What call(c) does to memory.                                            *)

\* A stored key that is not stale has the current clock already.
CallWrite(k, volatile) ==
    LET j == run.db
    IN  /\ At("call") /\ run.denyoom
        /\ dict' = [dict EXCEPT ![j][k] =
                       [volatile |-> volatile, clk |-> logiclock[j]]]
        /\ needRemove' = [needRemove EXCEPT ![j] =
                             IF k \in Stale(j) THEN (@ - 1) % (SizeMax + 1) ELSE @]
        /\ Counted(dbnum, KeySize[k] - EntrySize(j, k))
        /\ Returns("OK")
        /\ UNCHANGED <<logiclock, limits>>

\* A read collects the key if it is stale, or its deadline has passed.
CallRead(k) ==
    /\ At("call") /\ ~run.denyoom
    /\ \/ k \in Stale(run.db) \cup Volatile(run.db) /\ Delete(dbnum, run.db, k)
       \/ k \notin Stale(run.db) /\ UNCHANGED <<dict, needRemove, counters>>
    /\ Returns("OK")
    /\ UNCHANGED <<logiclock, limits>>

\* DEL does not look whether it is.
CallDel(k) ==
    /\ At("call") /\ ~run.denyoom /\ k \in Stored(run.db)
    /\ dict' = [dict EXCEPT ![run.db][k] = Absent]
    /\ Counted(dbnum, -EntrySize(run.db, k))
    /\ Returns("OK")
    /\ UNCHANGED <<logiclock, needRemove, limits>>

-----------------------------------------------------------------------------
(* Between commands.                                                       *)

\* Mutant: for the database of the last command.
CronUnset(j, k) ==
    /\ Idle
    /\ (k \in Stale(j) /\ needRemove[j] > 0) \/ k \in Volatile(j)
    /\ Delete(dbnum, j, k)
    /\ UNCHANGED <<logiclock, limits, run>>

\* activeExpireCycle counts for the database it is at, and afterwards for
\* the one that was set: any stale key, or one whose deadline has passed.
activeExpireCycle(j, k) ==
    /\ Idle
    /\ (k \in Stale(j) /\ needRemove[j] > 0) \/ k \in Volatile(j)
    /\ Delete(j, j, k)
    /\ UNCHANGED <<logiclock, limits, run>>

\* The embedding process clears a database.
Clear(j) ==
    /\ Idle /\ logiclock[j] < ClockMax
    /\ logiclock' = [logiclock EXCEPT ![j] = @ + 1]
    /\ needRemove' = [needRemove EXCEPT ![j] = Cardinality(Stored(j))]
    /\ UNCHANGED <<dict, counters, limits, run>>

setDBMaxmemory(j, max) ==
    /\ Idle
    /\ dbLimit' = [dbLimit EXCEPT ![j] = max]
    /\ UNCHANGED <<store, counters, config, run>>

-----------------------------------------------------------------------------

Init ==
    /\ dict = [j \in Dbs |-> [k \in Keys |-> Absent]]
    /\ logiclock = [j \in Dbs |-> 1]
    /\ needRemove = [j \in Dbs |-> 0]
    /\ used = 0 /\ dbUsed = [j \in Dbs |-> 0]
    /\ dbLimit = [j \in Dbs |-> DefaultDbLimit]
    /\ config \in Configs
    /\ run = Returned("OK")

\* processCommand until it returns.
Proceed ==
    \/ freeDBMemory \/ RefusedByDb \/ DbLimitHolds
    \/ RemoveStale \/ StaleDone
    \/ EvictOne \/ EvictTurn
    \/ RefusedByServer \/ ServerLimitHolds
    \/ \E k \in Keys :
          \/ \E volatile \in BOOLEAN : CallWrite(k, volatile)
          \/ CallRead(k)
          \/ CallDel(k)

Next ==
    \/ Proceed
    \/ \E j \in Dbs :
          \/ \E denyoom \in BOOLEAN : Start(j, denyoom)
          \/ \E k \in Keys : activeExpireCycle(j, k)
          \/ Clear(j)
          \/ \E max \in DbLimits : setDBMaxmemory(j, max)

Spec == Init /\ [][Next]_vars

\* A command that has begun goes on: nothing else runs meanwhile.
FairSpec == Spec /\ WF_vars(Proceed)

-----------------------------------------------------------------------------
(* Properties.                                                             *)

TypeOK ==
    /\ dict \in [Dbs -> [Keys -> Entry \cup {Absent}]]
    /\ logiclock \in [Dbs -> 1 .. ClockMax]
    /\ needRemove \in [Dbs -> 0 .. Cardinality(Keys)]
    /\ used \in 0 .. SizeMax /\ dbUsed \in [Dbs -> 0 .. SizeMax]

\* Whichever database a block was counted for when it came and when it went,
\* the total is that of the entries, and the counters add up to it modulo the
\* width of a size_t.  While the server has no limit of its own, each counter
\* is what the keys of its database need, as setDBMaxmemory takes it to be.
CountersAddUp ==
    /\ used = SumFunction([j \in Dbs |-> SizeOf(j)])
    /\ used % (SizeMax + 1) = SumFunction(dbUsed) % (SizeMax + 1)
    /\ config.server = 0 => \A j \in Dbs : dbUsed[j] = SizeOf(j)

\* A key that is neither stale nor has a deadline goes by its own DEL, for
\* the limit of its own database, or, under an allkeys policy, for the limit
\* of the server.
Kept(j, k) == k \in Stored(j) \ (Stale(j) \cup Volatile(j))
KeysGoForAReason ==
    [][\A j \in Dbs, k \in Keys :
          (Kept(j, k) /\ dict'[j][k] = Absent) =>
              \/ At("call") /\ run.db = j
              \/ At("dbLimit") /\ run.db = j /\ DbOver
              \/ At("evict") /\ config.policy = "ALLKEYS" /\ config.server > 0]_vars

\* A command is refused only when no key is left that may be taken for the
\* limit in question, and the memory is still over it.
RefusedAtLast ==
    [][(~Idle /\ Returns("REACH_MAXMEMORY")) =>
          \/ DbOver /\ Stored(run.db) = {}
          \/ /\ ServerOver
             /\ config.policy # "NO_EVICTION" => \A j \in Dbs : Candidates(j) = {}]_vars

\* However the counters stand, the loops come to an end.
CommandsReturn == ~Idle ~> Idle

\* "Commands marked with this flag will return an error when 'maxmemory' is
\* set and the server is using more than 'maxmemory' bytes of memory."
\* (redis.h:79), and others are served.
OnlyDenyoomRefused ==
    [][(~Idle /\ Returns("REACH_MAXMEMORY")) => run.denyoom]_vars

=============================================================================
