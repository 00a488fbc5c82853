--------------------------- MODULE CacheContract ---------------------------
(***************************************************************************)
(* What a database promises to its caller: a cache of versioned entries    *)
(* with deadlines.  A clear empties it at once and a passed deadline hides *)
(* its entry at once; that the store collects both later is not visible,   *)
(* except in the two places the contract has to leave open (Inspect):      *)
(* EXPIRE and PERSIST may revive an entry whose deadline has passed, and   *)
(* the commands that skip the check may acknowledge a key that is gone.    *)
(* Entries may vanish at any time, as a cache's do.                        *)
(***************************************************************************)
EXTENDS Integers, FiniteSets

CONSTANTS Keys, REDIS_STRING, REDIS_SET, Absent, NoTTL, Nil, VersionMax

VARIABLES
    cache,  \* key -> entry [type, val, ver, due], or Absent
    epoch,  \* clears the caller has made, plus one
    now,
    reply   \* [cmd, key, rc, ver, val] of the last command

vars == <<cache, epoch, now, reply>>

Lapsed(k) ==
    /\ cache[k] # Absent
    /\ cache[k].due # NoTTL /\ cache[k].due >= 0 /\ now > cache[k].due

Live(k) == cache[k] # Absent /\ ~Lapsed(k)

Holds(k, type) == Live(k) /\ cache[k].type = type

\* A command that looks a key up first drops a lapsed entry.
Looked(k) == IF Lapsed(k) THEN [cache EXCEPT ![k] = Absent] ELSE cache

LookedVersion(k) == IF Live(k) THEN cache[k].ver ELSE 0

\* A version moves one step or not at all; it wraps to 0.
Successors(ver) == {ver, IF ver = VersionMax THEN 0 ELSE ver + 1}

Calls(cmds, k) == reply'.cmd \in cmds /\ reply'.key = k

-----------------------------------------------------------------------------

\* GET, EXISTS and TYPE answer from the live entry and change nothing.
Lookup(k) ==
    /\ Calls({"GET", "EXISTS", "TYPE"}, k)
    /\ cache' = Looked(k)
    /\ reply'.rc = IF ~Live(k) THEN "NOT_EXIST"
                   ELSE IF reply'.cmd = "GET" /\ cache[k].type # REDIS_STRING
                   THEN "WRONG_TYPE" ELSE "OK"
    /\ reply'.cmd # "EXISTS" => reply'.ver = LookedVersion(k)
    /\ reply'.rc = "OK" =>
          reply'.val = CASE reply'.cmd = "GET" -> cache[k].val
                         [] reply'.cmd = "TYPE" -> cache[k].type
                         [] OTHER -> Nil

\* A refused write changes nothing, and has a reason in the live entry.
Refuse(k) ==
    /\ Calls({"SET", "GETSET", "INCR", "SADD", "SREM"}, k)
    /\ \/ /\ reply'.rc = "NOT_INTEGER"
          /\ cache' \in {cache, Looked(k)}
       \/ /\ reply'.rc = "WRONG_TYPE"
          /\ Live(k)
          /\ (cache[k].type = REDIS_STRING) # (reply'.cmd \in {"SET", "GETSET", "INCR"})
          /\ cache' = cache
       \/ /\ reply'.rc \in {"VERSION_ERROR", "LEN_LIMITED"}
          /\ Live(k)
          /\ cache' = cache
       \/ /\ reply'.rc = "ALREADY_EXIST" /\ reply'.cmd = "SET"
          /\ Live(k)
          /\ cache' = cache
       \/ /\ reply'.rc = "NOT_EXIST" /\ reply'.cmd = "SREM"
          /\ ~Live(k)
          /\ cache' = Looked(k)

\* A write that goes through touches its own key and nothing else.  It keeps
\* the type of a live entry and moves its version by one step at most; the
\* reply holds the version before the write, GETSET's the old value too.
Store(k) ==
    LET new == cache'[k]
    IN  /\ Calls({"SET", "GETSET", "INCR", "SADD", "SREM"}, k)
        /\ reply'.rc = "OK" \/ (reply'.cmd = "GETSET" /\ reply'.rc = "NOT_EXIST")
              \/ (reply'.cmd = "SADD" /\ reply'.rc = "ALREADY_EXIST")
              \/ (reply'.cmd = "SREM" /\ reply'.rc = "NOT_EXIST" /\ Live(k))
        /\ cache' = [cache EXCEPT ![k] = new]
        /\ new = Absent => reply'.cmd = "SREM"
        /\ new # Absent =>
              new.type = IF reply'.cmd \in {"SADD", "SREM"} THEN REDIS_SET ELSE REDIS_STRING
        /\ (Live(k) /\ new # Absent) =>
              /\ new.type = cache[k].type
              /\ new.ver \in Successors(cache[k].ver)
              /\ reply'.rc \in {"ALREADY_EXIST", "NOT_EXIST"} => new.val = cache[k].val
        /\ (~Live(k) /\ reply'.cmd # "GETSET" /\ new # Absent) => new.ver \in Successors(0)
        /\ reply'.ver = LookedVersion(k)
        /\ reply'.cmd = "GETSET" =>
              reply'.val = IF Live(k) THEN cache[k].val ELSE Nil

\* EXPIRE and PERSIST change the deadline alone, TTL nothing, DEL drops
\* every key it names.  They act on what the store still has.
Inspect(k) ==
    /\ Calls({"EXPIRE", "PERSIST", "TTL"}, k)
    /\ cache[k] # Absent => reply'.rc \in {"OK", "NOT_INTEGER"}
    /\ IF cache[k] = Absent \/ reply'.cmd = "TTL" \/ reply'.rc # "OK"
       THEN cache' = cache
       ELSE /\ cache'[k] # Absent
            /\ cache' = [cache EXCEPT ![k].due = cache'[k].due]

Delete ==
    \E S \in SUBSET Keys :
        /\ Calls({"DEL"}, S)
        /\ cache' = [k \in Keys |-> IF k \in S THEN Absent ELSE cache[k]]
        /\ reply'.val >= Cardinality({k \in S : cache[k] # Absent})
        /\ reply'.rc = IF reply'.val > 0 THEN "OK" ELSE "NOT_EXIST"

Vanish ==
    \E S \in SUBSET Keys :
        cache' = [k \in Keys |-> IF k \in S THEN Absent ELSE cache[k]]

-----------------------------------------------------------------------------

Init ==
    /\ cache = [k \in Keys |-> Absent]
    /\ epoch = 1
    /\ now \in Nat
    /\ reply = [cmd |-> "NONE", key |-> Nil, rc |-> "OK", ver |-> 0, val |-> Nil]

Next ==
    \/ /\ \/ \E k \in Keys : Lookup(k) \/ Refuse(k) \/ Store(k) \/ Inspect(k)
          \/ Delete
          \/ Calls({"RANDOMKEY"}, Nil) /\ Vanish
          \/ \E k \in Keys : Calls({"RANDOMKEY"}, k) /\ Vanish
       /\ UNCHANGED <<epoch, now>>
    \/ Vanish /\ UNCHANGED <<epoch, now, reply>>
    \/ /\ epoch' = epoch + 1
       /\ cache' = [k \in Keys |-> Absent]
       /\ UNCHANGED <<now, reply>>
    \/ now' = now + 1 /\ UNCHANGED <<cache, epoch, reply>>

Spec == Init /\ [][Next]_vars

=============================================================================
