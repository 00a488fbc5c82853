------------------------- MODULE OptimisticClients -------------------------
(***************************************************************************)
(* Clients that read a key, remember the version in the reply, and write   *)
(* the key back with that version and version_care set, among clients that *)
(* do anything else Keyspace allows.  This is what versions are for: the   *)
(* write is refused if the key was written in between.                     *)
(*                                                                         *)
(* Three things defeat the check and are tracked in the client's memory:   *)
(* a key that went and came back starts its versions again; a write        *)
(* without version_care, and GETSET, leave the version alone; and a        *)
(* uint16_t version comes round after VersionMax + 1 writes.  Version 0 is *)
(* never checked.                                                          *)
(***************************************************************************)
EXTENDS MCKeyspace

CONSTANT Clients

VARIABLE held   \* client -> what it knows of the key it read, or Nil

optVars == <<db, now, reply, held>>

\* writes counts the writes with version_care since the read, up to the
\* bound VersionMax + 1.
Memory == [key : Keys, ver : 0 .. VersionMax, writes : 0 .. VersionMax + 1,
           gone : BOOLEAN, plain : BOOLEAN]

\* No memory is the mark of having none.
ASSUME ClientMarkAssumption == Nil \notin Memory

Succeeded ==
    reply'.rc = "OK" \/ (reply'.cmd = "SADD" /\ reply'.rc = "ALREADY_EXIST")
                     \/ (reply'.cmd = "GETSET" /\ reply'.rc = "NOT_EXIST")

Expired(k) == Stale(db, k) \/ Overdue(db, k, now)

\* What the clients remember of key k after a write to it with request r.
\* The write's lookup removes an expired key first, and a write may put it
\* back at once; a malformed command looks nothing up.
Remember(k, r) ==
    [c \in Clients |->
        IF held[c] = Nil \/ held[c].key # k THEN held[c]
        ELSE [held[c] EXCEPT
                !.writes = IF /\ Succeeded /\ r.care /\ reply'.cmd # "GETSET"
                              /\ @ <= VersionMax
                           THEN @ + 1 ELSE @,
                !.plain = @ \/ (Succeeded /\ (~r.care \/ reply'.cmd = "GETSET")),
                !.gone = \/ @ \/ ~Stored(db', k)
                         \/ reply'.rc # "NOT_INTEGER" /\ Expired(k)]]

ClientRead(c) ==
    \E k \in Keys :
        /\ Get(k)
        /\ reply'.rc = "OK"
        /\ held' = [held EXCEPT ![c] =
                      [key |-> k, ver |-> reply'.ver, writes |-> 0,
                       gone |-> FALSE, plain |-> FALSE]]

ClientWrite(c) ==
    /\ held[c] # Nil
    /\ \E r \in {q \in Request : q.care /\ q.ver = held[c].ver} :
          LET k == held[c].key
          IN  /\ \E v \in Values : Set(k, v, r)
              /\ held' = [Remember(k, r) EXCEPT ![c] = Nil]

OtherWrite ==
    \E k \in Keys, r \in Request : Write(k, r) /\ held' = Remember(k, r)

\* Everything else, a read by another client or the removal of keys.
OtherStep ==
    /\ \/ \E k \in Keys : Read(k) \/ Persist(k) \/ Evict(k)
       \/ \E k \in Keys, s \in ExpireArgs : Expire(k, s)
       \/ \E S \in (SUBSET Keys) \ {{}} : Del(S)
       \/ RandomKey \/ Cron \/ EmptyDb \/ Clear \/ Tick
    /\ held' = [c \in Clients |->
                  IF held[c] = Nil THEN Nil
                  ELSE [held[c] EXCEPT !.gone = @ \/ ~Stored(db', held[c].key)]]

OptInit == Init /\ held = [c \in Clients |-> Nil]

OptNext ==
    \/ \E c \in Clients : ClientRead(c) \/ ClientWrite(c)
    \/ OtherWrite
    \/ OtherStep

OptSpec == OptInit /\ [][OptNext]_optVars

ClientsView == <<db, now, held>>
ClientSymmetry == Permutations(Clients)

-----------------------------------------------------------------------------

\* Nothing has happened that versions cannot see.
Guarded(m) == /\ m.ver # 0 /\ m.writes <= VersionMax
              /\ ~m.gone /\ ~m.plain /\ ~Expired(m.key)

\* While nothing defeats the check, the stored version is exactly as far
\* from the version a client holds as there were writes in between (mod
\* 2^16): equal versions mean an unchanged value.
VersionsCountWrites ==
    \A c \in Clients : (held[c] # Nil /\ ~held[c].gone /\ ~held[c].plain) =>
        LET m == held[c]
        IN  /\ Stored(db, m.key)
            /\ m.writes <= VersionMax =>
                  db.dict[m.key].ver = (m.ver + m.writes) % (VersionMax + 1)

\* No lost update: a client's write goes through only over the value the
\* client has read.
NoLostUpdate ==
    [][\A c \in Clients :
          (/\ held[c] # Nil /\ held'[c] = Nil
           /\ reply'.rc = "OK" /\ Guarded(held[c])) => held[c].writes = 0]_optVars

=============================================================================
