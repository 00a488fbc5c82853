------------------------------ MODULE Ziplist -------------------------------
(***************************************************************************)
(* The ziplist of ziplist.c: entries one after another in one block, each  *)
(* with the length of the entry before it, so that the list can be walked  *)
(* from both ends.  A length below 254 takes one byte, any other five; an  *)
(* entry whose field grows may make the field of the next one grow.        *)
(*                                                                         *)
(* A ziplist here is [bytes, tail, len, entries]: the three fields of its  *)
(* header, and the entries as a sequence of [prevsize, prevlen, val].  A   *)
(* position is a place in that sequence, one past it for ZIP_END and 0 for *)
(* NULL.  Offsets and sizes are the real ones, in bytes.                   *)
(***************************************************************************)
EXTENDS Integers, SequencesExt

CONSTANTS
    PayloadSize, \* value -> bytes it takes, its length if it is a string
    Integers16,  \* the values that zipTryEncoding finds to be integers
    UIntSpan     \* number of values of an unsigned int

ZIPLIST_HEADER_SIZE == 10
ZIP_BIGLEN == 254

-----------------------------------------------------------------------------
(* Sizes and offsets.                                                      *)

\* Mutant: the marker byte before a long length is forgotten.
PrevLengthUnmarked(len) == IF len < ZIP_BIGLEN THEN 1 ELSE 4

\* Bytes for the length of the entry before.
zipPrevEncodeLength(len) == IF len < ZIP_BIGLEN THEN 1 ELSE 5

\* Bytes for the encoding and the length of the payload.
zipEncodeLength(val) ==
    IF val \in Integers16 \/ PayloadSize[val] <= 63 THEN 1
    ELSE IF PayloadSize[val] <= 16383 THEN 2 ELSE 5

zipRawEntryLength(e) == e.prevsize + zipEncodeLength(e.val) + PayloadSize[e.val]

End(zl) == Len(zl.entries) + 1
EntryLengths(entries) == [i \in DOMAIN entries |-> zipRawEntryLength(entries[i])]
OffsetOf(zl, p) ==
    ZIPLIST_HEADER_SIZE + SumFunctionOnSet(EntryLengths(zl.entries), 1 .. p - 1)

\* Bytes of the entries from position p to before position q.
Span(zl, p, q) == OffsetOf(zl, q) - OffsetOf(zl, p)

\* The position an offset points to, NULL if no entry starts there.
PositionAt(zl, offset) ==
    LET here == {p \in 1 .. End(zl) : OffsetOf(zl, p) = offset}
    IN  IF here = {} THEN 0 ELSE CHOOSE p \in here : TRUE

NullAtEnd(zl, p) == IF p = End(zl) THEN 0 ELSE p

ziplistNew ==
    [bytes |-> ZIPLIST_HEADER_SIZE + 1, tail |-> ZIPLIST_HEADER_SIZE, len |-> 0,
     entries |-> <<>>]

ZiplistValues(zl) == [i \in 1 .. Len(zl.entries) |-> zl.entries[i].val]

-----------------------------------------------------------------------------
(* Walking.                                                                *)

ziplistNext(zl, p) == IF p = End(zl) THEN 0 ELSE NullAtEnd(zl, p + 1)

ziplistPrev(zl, p) ==
    IF p = End(zl) THEN NullAtEnd(zl, PositionAt(zl, zl.tail))
    ELSE IF p = 1 THEN 0
    ELSE PositionAt(zl, OffsetOf(zl, p) - zl.entries[p].prevlen)

ziplistIndex(zl, index) ==
    LET back[k \in Nat] == IF k = 0 THEN ziplistPrev(zl, End(zl))
                           ELSE IF back[k - 1] = 0 THEN 0
                           ELSE ziplistPrev(zl, back[k - 1])
    IN  IF index < 0 THEN back[-index - 1]
        ELSE IF index < Len(zl.entries) THEN index + 1 ELSE 0

-----------------------------------------------------------------------------
(* The cascade.                                                            *)

\* Mutant: the tail is taken to be always behind the field that grows.
StampedMovingTail(zl, p) ==
    LET raw == zipRawEntryLength(zl.entries[p])
        next == zl.entries[p + 1]
        extra == Max({0, zipPrevEncodeLength(raw) - next.prevsize})
    IN  [zl EXCEPT
           !.bytes = @ + extra,
           !.tail = @ + extra,
           !.entries[p + 1] = [next EXCEPT !.prevlen = raw, !.prevsize = @ + extra]]

\* The entry after position p has the raw length of the one at p stored in
\* it; its field may stay larger than necessary but never too small.
Stamped(zl, p) ==
    LET raw == zipRawEntryLength(zl.entries[p])
        next == zl.entries[p + 1]
        extra == Max({0, zipPrevEncodeLength(raw) - next.prevsize})
    IN  [zl EXCEPT
           !.bytes = @ + extra,
           !.tail = IF @ = OffsetOf(zl, p + 1) THEN @ ELSE @ + extra,
           !.entries[p + 1] = [next EXCEPT !.prevlen = raw, !.prevsize = @ + extra]]

\* One turn of the loop, at position p: c holds the list and whether the
\* loop is still running, which it is as long as fields grow.
CascadeTurn(c, p) ==
    IF ~c.runs \/ p = Len(c.zl.entries)
       \/ c.zl.entries[p + 1].prevlen = zipRawEntryLength(c.zl.entries[p])
    THEN [c EXCEPT !.runs = FALSE]
    ELSE LET zl == Stamped(c.zl, p)
         IN  [zl |-> zl, runs |-> zl.bytes # c.zl.bytes]

\* Mutant: only the next entry is looked at.
CascadeOnce(zl, p) ==
    IF p = End(zl) THEN zl ELSE CascadeTurn([zl |-> zl, runs |-> TRUE], p).zl

__ziplistCascadeUpdate(zl, p) ==
    LET after[n \in 0 .. End(zl) - p] ==
            IF n = 0 THEN [zl |-> zl, runs |-> TRUE]
            ELSE CascadeTurn(after[n - 1], p + n - 1)
    IN  after[End(zl) - p].zl

-----------------------------------------------------------------------------
(* Deleting and inserting.                                                 *)

\* Deletes up to num entries from position p on.  The entry behind them takes
\* over the length that the first of them holds.
__ziplistDelete(zl, p, num) ==
    LET q == IF p + num < End(zl) THEN p + num ELSE End(zl)
        deleted == q - p
        totlen == Span(zl, p, q)
        prevlen == zl.entries[p].prevlen
        nextdiff == zipPrevEncodeLength(prevlen) - zl.entries[q].prevsize
        next == [zl.entries[q] EXCEPT !.prevlen = prevlen, !.prevsize = @ + nextdiff]
        before == SubSeq(zl.entries, 1, p - 1)
        behind == SubSeq(zl.entries, q + 1, Len(zl.entries))
        closed ==
            [bytes |-> zl.bytes - totlen + nextdiff,
             tail |-> zl.tail - totlen + (IF behind = <<>> THEN 0 ELSE nextdiff),
             len |-> zl.len - deleted,
             entries |-> before \o <<next>> \o behind]
    IN  IF deleted <= 0 THEN zl
        ELSE IF q = End(zl)
             THEN [bytes |-> zl.bytes - totlen, tail |-> OffsetOf(zl, p) - prevlen,
                   len |-> zl.len - deleted, entries |-> before]
        ELSE IF nextdiff = 0 THEN closed
        ELSE __ziplistCascadeUpdate(closed, p)

ziplistDelete(zl, p) == __ziplistDelete(zl, p, 1)

ziplistDeleteRange(zl, index, num) ==
    LET p == ziplistIndex(zl, index)
    IN  IF p = 0 THEN zl ELSE __ziplistDelete(zl, p, num)

\* The entry that an insert of val at position p writes.
NewEntry(zl, p, val) ==
    LET last == PositionAt(zl, zl.tail)
        prevlen == IF p # End(zl) THEN zl.entries[p].prevlen
                   ELSE IF last = End(zl) THEN 0
                   ELSE zipRawEntryLength(zl.entries[last])
    IN  [prevsize |-> zipPrevEncodeLength(prevlen), prevlen |-> prevlen, val |-> val]

\* By how much the field of the entry at p grows for the new entry before it.
NextDiff(zl, p, val) ==
    IF p = End(zl) THEN 0
    ELSE zipPrevEncodeLength(zipRawEntryLength(NewEntry(zl, p, val))) - zl.entries[p].prevsize

\* Where the insert copies the entries at and behind p from.  nextdiff is an
\* unsigned int, which a pointer of 64 bits does not wrap around with.
MoveSource(zl, p, val) ==
    LET nextdiff == NextDiff(zl, p, val)
    IN  OffsetOf(zl, p) - (IF nextdiff < 0 THEN UIntSpan + nextdiff ELSE nextdiff)

\* An insert that copies from outside the block ends the process.
InsertStaysInside(zl, p, val) == p = End(zl) \/ MoveSource(zl, p, val) >= 0

__ziplistInsert(zl, p, val) ==
    LET new == NewEntry(zl, p, val)
        reqlen == zipRawEntryLength(new)
        nextdiff == NextDiff(zl, p, val)
        next == [zl.entries[p] EXCEPT !.prevlen = reqlen, !.prevsize = @ + nextdiff]
        before == SubSeq(zl.entries, 1, p - 1)
        behind == SubSeq(zl.entries, p + 1, Len(zl.entries))
        opened ==
            [bytes |-> zl.bytes + reqlen + nextdiff,
             tail |-> zl.tail + reqlen + (IF behind = <<>> THEN 0 ELSE nextdiff),
             len |-> zl.len + 1,
             entries |-> before \o <<new, next>> \o behind]
    IN  IF p = End(zl)
        THEN [bytes |-> zl.bytes + reqlen, tail |-> OffsetOf(zl, p),
              len |-> zl.len + 1, entries |-> Append(zl.entries, new)]
        ELSE IF nextdiff = 0 THEN opened
        ELSE __ziplistCascadeUpdate(opened, p + 1)

ziplistPush(zl, val, where) ==
    __ziplistInsert(zl, IF where = "HEAD" THEN 1 ELSE End(zl), val)

-----------------------------------------------------------------------------
(* What makes a ziplist well formed.                                       *)

\* Every entry knows how long the one before it is, in a field that can hold
\* that length.
PrevLensTrue(zl) ==
    \A p \in 1 .. Len(zl.entries) :
        LET e == zl.entries[p]
        IN  /\ e.prevlen = IF p = 1 THEN 0 ELSE zipRawEntryLength(zl.entries[p - 1])
            /\ e.prevsize \in {zipPrevEncodeLength(e.prevlen), 5}

\* The header knows the size of the block and where its last entry starts.
HeaderTrue(zl) ==
    /\ zl.len = Len(zl.entries)
    /\ zl.bytes = OffsetOf(zl, End(zl)) + 1
    /\ zl.tail = OffsetOf(zl, IF zl.entries = <<>> THEN 1 ELSE Len(zl.entries))

=============================================================================
