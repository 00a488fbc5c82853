------------------------------ MODULE TypedKey ------------------------------
(***************************************************************************)
(* One key of the keyspace as the commands of a data type see it: absent,  *)
(* or an entry with its type, value, version and deadline.  Expiry, clears *)
(* and evictions, which module Keyspace describes, take the entry away     *)
(* between commands; a deadline is kept only to say what a command does    *)
(* with it.                                                                *)
(***************************************************************************)
EXTENDS Integers

CONSTANTS
    Absent,       \* dictFind returned NULL
    NoTTL,        \* no entry in db->expires
    REDIS_STRING, \* a type the commands of this module do not accept
    VersionMax,   \* largest version before the uint16_t wraps
    Requests      \* arguments: [ver, care, et] as in module Keyspace

ASSUME RequestAssumption ==
    /\ VersionMax \in Nat
    /\ Requests \subseteq [ver : 0 .. VersionMax, care : BOOLEAN, et : Int]

VARIABLES
    key,    \* the entry, or Absent
    other,  \* another key's, for the commands that write two
    reply   \* what the last command left in its redisClient

typedVars == <<key, other, reply>>

TypedEntry(types, Val) ==
    [type : types, val : Val, ver : 0 .. VersionMax, due : Nat \cup {NoTTL}]

HasType(type) == key # Absent => key.type = type

\* A client that cares about versions and sends a nonzero one must send the
\* stored one.
VersionOK(r) == key # Absent => (~r.care \/ r.ver = 0 \/ r.ver = key.ver)

WriteVersion(r) ==
    LET ver == IF key = Absent THEN 0 ELSE key.ver
    IN  IF ~r.care THEN ver ELSE IF ver = VersionMax THEN 0 ELSE ver + 1

\* EXPIRE_OR_NOT on the key's deadline.
ExpireOrNot(r) ==
    IF r.et > 0 THEN r.et
    ELSE IF r.et = 0 \/ key = Absent THEN NoTTL ELSE key.due

\* The key after a command that stored val in it, dbUpdateKey and
\* EXPIRE_OR_NOT.
Written(type, val, r) ==
    [type |-> type, val |-> val, ver |-> WriteVersion(r), due |-> ExpireOrNot(r)]

AnswerForBoth(cmd, arg, rc, val) ==
    reply' = [cmd |-> cmd, arg |-> arg, rc |-> rc, val |-> val]
Answer(cmd, arg, rc, val) == AnswerForBoth(cmd, arg, rc, val) /\ UNCHANGED other

NoReply == [cmd |-> "NONE", arg |-> <<>>, rc |-> "OK", val |-> 0]

\* A command that only answers.
Reply(cmd, arg, rc, val) == Answer(cmd, arg, rc, val) /\ UNCHANGED key
Refuse(cmd, arg, rc) == Reply(cmd, arg, rc, 0)

\* What a command on a stored key of its type does otherwise: one that only
\* reads, and one that writes as well.
RefuseRead(cmd, arg, type) ==
    \/ key = Absent /\ Refuse(cmd, arg, "NOT_EXIST")
    \/ ~HasType(type) /\ Refuse(cmd, arg, "WRONG_TYPE")
RefuseWrite(cmd, arg, type, r) ==
    \/ RefuseRead(cmd, arg, type)
    \/ HasType(type) /\ ~VersionOK(r) /\ Refuse(cmd, arg, "VERSION_ERROR")
Readable(type) == key # Absent /\ HasType(type)
Writable(type, r) == Readable(type) /\ VersionOK(r)

\* The key goes: deleted, expired, cleared or evicted.
Goes == key # Absent /\ key' = Absent /\ reply' = NoReply /\ UNCHANGED other

\* Another type's command stores the key.
StoredOtherwise ==
    /\ key = Absent
    /\ key' = [type |-> REDIS_STRING, val |-> 0, ver |-> 0, due |-> NoTTL]
    /\ reply' = NoReply /\ UNCHANGED other

TypedInit == key = Absent /\ other = Absent /\ reply = NoReply

=============================================================================
