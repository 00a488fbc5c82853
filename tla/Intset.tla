------------------------------- MODULE Intset -------------------------------
(***************************************************************************)
(* The intset of intset.c: integers in order, all in one of three widths,  *)
(* in one block that is rewritten in place.  The block is a sequence of    *)
(* units of two bytes; a unit is [val, enc, at], the at-th of the enc      *)
(* units that val was written in.  Reading an integer whose units are not  *)
(* all in place gives Garbage.                                             *)
(***************************************************************************)
EXTENDS Integers, SequencesExt

CONSTANTS
    Int16Bound, Int32Bound, \* an int16_t is in -Int16Bound .. Int16Bound - 1, ...
    Garbage

ASSUME IntsetAssumption ==
    /\ Int16Bound \in Nat /\ Int32Bound \in Nat /\ Int16Bound <= Int32Bound
    /\ Garbage \notin Int

INTSET_ENC_INT16 == 1
INTSET_ENC_INT32 == 2
INTSET_ENC_INT64 == 4

Fits(v, bound) == -bound <= v /\ v < bound
_intsetValueEncoding(v) ==
    CASE Fits(v, Int16Bound) -> INTSET_ENC_INT16
      [] ~Fits(v, Int16Bound) /\ Fits(v, Int32Bound) -> INTSET_ENC_INT32
      [] ~Fits(v, Int32Bound) -> INTSET_ENC_INT64

Intsets ==
    [encoding : {INTSET_ENC_INT16, INTSET_ENC_INT32, INTSET_ENC_INT64}, length : Nat,
     contents : Seq([val : Int, enc : 1 .. 4, at : 1 .. 4])]

intsetNew == [encoding |-> INTSET_ENC_INT16, length |-> 0, contents |-> <<>>]
EmptyUnit == [val |-> Garbage, enc |-> 0, at |-> 0]

\* Positions count from 0.
_intsetGetEncoded(contents, pos, enc) ==
    LET val == contents[pos * enc + 1].val
    IN  IF \A i \in 1 .. enc : contents[pos * enc + i] = [val |-> val, enc |-> enc, at |-> i]
        THEN val ELSE Garbage
_intsetGet(is, pos) == _intsetGetEncoded(is.contents, pos, is.encoding)

_intsetSet(contents, pos, enc, v) ==
    [i \in DOMAIN contents |->
        IF i \in pos * enc + 1 .. (pos + 1) * enc
        THEN [val |-> v, enc |-> enc, at |-> i - pos * enc] ELSE contents[i]]

\* The block for len integers of width enc; what fits of the old one stays.
intsetResize(contents, len, enc) ==
    [i \in 1 .. len * enc |-> IF i \in DOMAIN contents THEN contents[i] ELSE EmptyUnit]

\* Whether v is there, and its place or the one it would take.
intsetSearch(is, v) ==
    LET halve[at \in (0 .. is.length) \X (-1 .. is.length - 1)] ==
            LET min == at[1]
                max == at[2]
                mid == (min + max) \div 2
                cur == _intsetGet(is, mid)
            IN  IF max < min THEN [found |-> FALSE, pos |-> min]
                ELSE IF v > cur THEN halve[<<mid + 1, max>>]
                ELSE IF v < cur THEN halve[<<min, mid - 1>>]
                ELSE [found |-> TRUE, pos |-> mid]
    IN  CASE is.length = 0 -> [found |-> FALSE, pos |-> 0]
          [] is.length > 0 /\ v > _intsetGet(is, is.length - 1) ->
                [found |-> FALSE, pos |-> is.length]
          [] is.length > 0 /\ v < _intsetGet(is, 0) -> [found |-> FALSE, pos |-> 0]
          [] OTHER -> halve[<<0, is.length - 1>>]

\* Mutant: from the front, and over what is yet to be read.
RewrittenForwards(is, newenc, prepend) ==
    FoldLeft(LAMBDA c, n : _intsetSet(c, n - 1 + prepend, newenc,
                                      _intsetGetEncoded(c, n - 1, is.encoding)),
             intsetResize(is.contents, is.length + 1, newenc),
             [n \in 1 .. is.length |-> n])

\* Every integer in the new width, one place further back if there is to be
\* one before the first: from the back, so that none is written over.
Rewritten(is, newenc, prepend) ==
    LET from[n \in 0 .. is.length] ==
            LET rest == from[n + 1]
            IN  IF n = is.length THEN intsetResize(is.contents, is.length + 1, newenc)
                ELSE _intsetSet(rest, n + prepend, newenc,
                                _intsetGetEncoded(rest, n, is.encoding))
    IN  from[0]

\* An integer too wide for the set is below or above all that is in it.
intsetUpgradeAndAdd(is, v) ==
    LET newenc == _intsetValueEncoding(v)
        prepend == IF v < 0 THEN 1 ELSE 0
    IN  [encoding |-> newenc, length |-> is.length + 1,
         contents |-> _intsetSet(Rewritten(is, newenc, prepend),
                                 IF v < 0 THEN 0 ELSE is.length, newenc, v)]

\* memmove of everything from one position on to another position.
intsetMoveTail(is, contents, from, to) ==
    LET moved == (is.length - from) * is.encoding
        shift == (to - from) * is.encoding
    IN  [i \in DOMAIN contents |->
            IF i - to * is.encoding \in 1 .. moved THEN contents[i - shift] ELSE contents[i]]

\* An integer that is there already is found, not added.
intsetAdd(is, v) ==
    LET pos == intsetSearch(is, v).pos
        resized == intsetResize(is.contents, is.length + 1, is.encoding)
        room == IF pos < is.length THEN intsetMoveTail(is, resized, pos, pos + 1) ELSE resized
    IN  IF _intsetValueEncoding(v) > is.encoding THEN intsetUpgradeAndAdd(is, v)
        ELSE IF intsetSearch(is, v).found THEN is
        ELSE [is EXCEPT !.length = @ + 1, !.contents = _intsetSet(room, pos, is.encoding, v)]

intsetFind(is, v) ==
    _intsetValueEncoding(v) <= is.encoding /\ intsetSearch(is, v).found

\* The width stays, however narrow what is left.
intsetRemove(is, v) ==
    LET pos == intsetSearch(is, v).pos
        moved == IF pos < is.length - 1 THEN intsetMoveTail(is, is.contents, pos + 1, pos)
                 ELSE is.contents
    IN  IF ~intsetFind(is, v) THEN is
        ELSE [is EXCEPT !.length = @ - 1,
                        !.contents = intsetResize(moved, is.length - 1, is.encoding)]

\* The integers in the order of the block.
Integers64(is) == [i \in 1 .. is.length |-> _intsetGet(is, i - 1)]

-----------------------------------------------------------------------------

\* What every search relies on: each integer is whole, and they are in order.
WholeAndInOrder(is) ==
    /\ \A i \in 1 .. is.length : Integers64(is)[i] # Garbage
    /\ \A i \in 1 .. is.length - 1 : Integers64(is)[i] < Integers64(is)[i + 1]

=============================================================================
