------------------------------ MODULE DictMap ------------------------------
(***************************************************************************)
(* What a dict promises: a map from keys to values.  That it is held in    *)
(* two hash tables, and that lookups move entries from one to the other,   *)
(* cannot be seen.                                                         *)
(***************************************************************************)
CONSTANTS Keys, Vals, None

VARIABLES
    map,    \* key -> value, or None
    reply   \* what the last call returned

vars == <<map, reply>>

Returns(call, key, ret) == reply' = [call |-> call, key |-> key, ret |-> ret]

\* dictAdd refuses a key that is there.
Add(k, v) ==
    \/ /\ map[k] = None
       /\ map' = [map EXCEPT ![k] = v]
       /\ Returns("dictAdd", k, TRUE)
    \/ /\ map[k] # None
       /\ UNCHANGED map
       /\ Returns("dictAdd", k, FALSE)

\* dictReplace returns whether the key is new.
Replace(k, v) ==
    /\ map' = [map EXCEPT ![k] = v]
    /\ Returns("dictReplace", k, map[k] = None)

Delete(k) ==
    /\ map' = [map EXCEPT ![k] = None]
    /\ Returns("dictDelete", k, map[k] # None)

Find(k) ==
    /\ UNCHANGED map
    /\ Returns("dictFind", k, map[k])

\* Any key, if there is one.
GetRandomKey ==
    /\ UNCHANGED map
    /\ \/ /\ \A k \in Keys : map[k] = None
          /\ Returns("dictGetRandomKey", None, None)
       \/ \E k \in Keys :
             /\ map[k] # None
             /\ Returns("dictGetRandomKey", k, map[k])

Clear ==
    /\ map' = [k \in Keys |-> None]
    /\ UNCHANGED reply

Init ==
    /\ map = [k \in Keys |-> None]
    /\ reply = [call |-> "dictCreate", key |-> None, ret |-> None]

Next ==
    \/ \E k \in Keys, v \in Vals : Add(k, v) \/ Replace(k, v)
    \/ \E k \in Keys : Delete(k) \/ Find(k)
    \/ GetRandomKey
    \/ Clear

Spec == Init /\ [][Next]_vars

=============================================================================
