------------------------------- MODULE Zipmap -------------------------------
(***************************************************************************)
(* The zipmap of zipmap.c: fields and their values one after another in    *)
(* one block, in the order they came in, each value with up to three free  *)
(* bytes behind it.  A length below ZIPMAP_BIGLEN takes one byte, any      *)
(* other five, and the first byte of the block counts the entries up to    *)
(* that number.                                                            *)
(*                                                                         *)
(* A zipmap here is [len, bytes, entries]: the first byte, the size the    *)
(* block was given last, and the entries as a sequence of [field, val,     *)
(* free].                                                                  *)
(***************************************************************************)
EXTENDS Integers, SequencesExt

CONSTANTS
    StringSize,   \* field or value -> its length as a string
    ZIPMAP_BIGLEN \* 254

ZIPMAP_VALUE_MAX_FREE == 4

zipmapNew == [len |-> 0, bytes |-> 2, entries |-> <<>>]

\* Bytes of a length and the string behind it.
Encoded(s) == (IF StringSize[s] < ZIPMAP_BIGLEN THEN 1 ELSE 5) + StringSize[s]

\* Mutant: the four bytes of a long length are forgotten.
RequiredForShort(f, v) == StringSize[f] + StringSize[v] + 3

zipmapRequiredLength(f, v) ==
    StringSize[f] + StringSize[v] + 3
    + (IF StringSize[f] >= ZIPMAP_BIGLEN THEN 4 ELSE 0)
    + (IF StringSize[v] >= ZIPMAP_BIGLEN THEN 4 ELSE 0)

zipmapRawEntryLength(e) == Encoded(e.field) + Encoded(e.val) + 1 + e.free

\* Position of the entry of a field, NULL if there is none, and the size of
\* the block as the walk over it finds it.
zipmapLookupRaw(zm, f) == SelectInSeq(zm.entries, LAMBDA e : e.field = f)
TotalLength(zm) ==
    2 + SumFunction([i \in DOMAIN zm.entries |-> zipmapRawEntryLength(zm.entries[i])])

\* Room that is larger than needed is kept if it is at most three bytes
\* larger.
zipmapSet(zm, f, v) ==
    LET reqlen == zipmapRequiredLength(f, v)
        p == zipmapLookupRaw(zm, f)
        freelen == zipmapRawEntryLength(zm.entries[p])
        empty == freelen - reqlen
        keeps == empty >= 0 /\ empty < ZIPMAP_VALUE_MAX_FREE
        new == [field |-> f, val |-> v, free |-> IF keeps THEN empty ELSE 0]
    IN  IF p = 0
        THEN [len |-> IF zm.len < ZIPMAP_BIGLEN THEN zm.len + 1 ELSE zm.len,
              bytes |-> TotalLength(zm) + reqlen,
              entries |-> Append(zm.entries, [field |-> f, val |-> v, free |-> 0])]
        ELSE [len |-> zm.len,
              bytes |-> IF keeps THEN zm.bytes ELSE TotalLength(zm) - freelen + reqlen,
              entries |-> [zm.entries EXCEPT ![p] = new]]

\* Mutant: the count goes down when it may be too small already.
DelCountingDown(zm, f) ==
    LET p == zipmapLookupRaw(zm, f)
    IN  IF p = 0 THEN zm
        ELSE [len |-> zm.len - 1,
              bytes |-> TotalLength(zm) - zipmapRawEntryLength(zm.entries[p]),
              entries |-> RemoveAt(zm.entries, p)]

zipmapDel(zm, f) ==
    LET p == zipmapLookupRaw(zm, f)
    IN  IF p = 0 THEN zm
        ELSE [len |-> IF zm.len < ZIPMAP_BIGLEN THEN zm.len - 1 ELSE zm.len,
              bytes |-> TotalLength(zm) - zipmapRawEntryLength(zm.entries[p]),
              entries |-> RemoveAt(zm.entries, p)]

\* The number of entries, and the zipmap after it was asked for: a first byte
\* that stopped counting is set again if the walk finds few enough.
zipmapLen(zm) == IF zm.len < ZIPMAP_BIGLEN THEN zm.len ELSE Len(zm.entries)
Counted(zm) ==
    IF zm.len >= ZIPMAP_BIGLEN /\ Len(zm.entries) < ZIPMAP_BIGLEN
    THEN [zm EXCEPT !.len = Len(zm.entries)] ELSE zm

zipmapExists(zm, f) == zipmapLookupRaw(zm, f) # 0
zipmapGet(zm, f) == zm.entries[zipmapLookupRaw(zm, f)].val

-----------------------------------------------------------------------------
(* What makes a zipmap well formed.                                        *)

\* A walk over the entries ends where the block does.
WalkEndsAtEnd(zm) == zm.bytes = TotalLength(zm)

\* No field is there twice, and a first byte that counts has counted right.
CountsFields(zm) ==
    /\ \A i, j \in DOMAIN zm.entries : zm.entries[i].field = zm.entries[j].field => i = j
    /\ zm.len < ZIPMAP_BIGLEN => zm.len = Len(zm.entries)

=============================================================================
