------------------------ MODULE SetsAndHashes_proofs ------------------------
(***************************************************************************)
(* What the sets and the hash of Containers promise, for every set of      *)
(* members, fields and values, all sizes of strings, every bound of the    *)
(* three widths, every limit and every argument of the commands.           *)
(*                                                                         *)
(* The first part is about intsets: a block with ascending integers, whole *)
(* and none wider than the set's width (IntsetOK), is searched rightly and *)
(* stays one when an integer is added, with the upgrade or without, and    *)
(* when one is removed.  The two recursive functions are solved by lemmas  *)
(* of Recursion_proofs, and what they compute follows by the smallest      *)
(* counterexample.                                                         *)
(*                                                                         *)
(* The second part is about the keys.  IInv says that what a key holds     *)
(* under the type of sets is a well-formed set of either encoding with     *)
(* members: without the first no command could be said to change it by one *)
(* member, and without the second an empty set could not be told from a    *)
(* missing one, as the contract does not.  The commands of lists and       *)
(* hashes have to be shown to leave sets alone.                            *)
(*                                                                         *)
(* The third part is about zipmaps: the bytes of a block are the sum of    *)
(* what its entries take (ZipmapOK), whatever an entry leaves free when    *)
(* its value is replaced, and the first byte counts the entries until it   *)
(* no longer can.  Each of the C functions that change a zipmap keeps      *)
(* that, and changes the map it stands for by one field or not at all.     *)
(* The fourth part says the same of hashes of either encoding (HashOK),    *)
(* through the conversion from one to the other, and of the loop of HMSET, *)
(* by the smallest number of turns that would go wrong.                    *)
(*                                                                         *)
(* The last part is about the key again.  HInv says that what it holds     *)
(* under the type of hashes is a well-formed hash with fields; SINTERSTORE *)
(* and the commands of lists and sets, of which IInv is used, leave a hash *)
(* alone or replace it as a whole.                                         *)
(***************************************************************************)
EXTENDS Containers, Recursion_proofs

-----------------------------------------------------------------------------
(* The search of an intset.                                                *)

Widths == {1, 2, 4}

\* One turn of the search between two positions, the rest of it given.
Halving(is, v, h, at) ==
    LET min == at[1]
        max == at[2]
        mid == (min + max) \div 2
        cur == _intsetGet(is, mid)
    IN  IF max < min THEN [found |-> FALSE, pos |-> min]
        ELSE IF v > cur THEN h[<<mid + 1, max>>]
        ELSE IF v < cur THEN h[<<min, mid - 1>>]
        ELSE [found |-> TRUE, pos |-> mid]

Stretches(is) == (0 .. is.length) \X (-1 .. is.length - 1)
IsHalving(is, v, h) == h = [at \in Stretches(is) |-> Halving(is, v, h, at)]

Halved(is, v) == CHOOSE h : IsHalving(is, v, h)

\* The search, its recursive part named.
LEMMA SearchIs ==
    ASSUME NEW is, NEW v
    PROVE  intsetSearch(is, v) =
             CASE is.length = 0 -> [found |-> FALSE, pos |-> 0]
               [] is.length > 0 /\ v > _intsetGet(is, is.length - 1) ->
                     [found |-> FALSE, pos |-> is.length]
               [] is.length > 0 /\ v < _intsetGet(is, 0) -> [found |-> FALSE, pos |-> 0]
               [] OTHER -> Halved(is, v)[<<0, is.length - 1>>]
BY DEF intsetSearch, Halved, IsHalving, Halving, Stretches

Result == [found : BOOLEAN, pos : Int]
Room(at) == IF at[2] < at[1] THEN 0 ELSE at[2] - at[1] + 1

\* There is a function the recursion describes.
LEMMA HalvingExists ==
    ASSUME NEW is, is.length \in Nat, NEW v
    PROVE  IsHalving(is, v, Halved(is, v))
<1> DEFINE D == Stretches(is)
           m == [at \in D |-> Room(at)]
           F == [a \in D \X [D -> Result] |-> Halving(is, v, a[2], a[1])]
<1>1. m \in [D -> Nat]
  BY DEF Room, Stretches
<1>2. ASSUME NEW at \in D
      PROVE  LET mid == (at[1] + at[2]) \div 2
             IN  /\ at[1] \in Int /\ at[2] \in Int /\ mid \in Int
                 /\ at[2] >= at[1] =>
                       /\ <<mid + 1, at[2]>> \in D /\ m[<<mid + 1, at[2]>>] < m[at]
                       /\ <<at[1], mid - 1>> \in D /\ m[<<at[1], mid - 1>>] < m[at]
  BY DEF Room, Stretches
<1>3. F \in [D \X [D -> Result] -> Result]
  <2> SUFFICES ASSUME NEW at \in D, NEW h \in [D -> Result]
               PROVE  Halving(is, v, h, at) \in Result
    OBVIOUS
  <2> DEFINE mid == (at[1] + at[2]) \div 2
  <2>1. at[2] >= at[1] => h[<<mid + 1, at[2]>>] \in Result /\ h[<<at[1], mid - 1>>] \in Result
    <3> HIDE DEF D
    <3> QED BY <1>2
  <2>2. at[1] \in Int /\ at[2] \in Int /\ mid \in Int
    BY <1>2
  <2>3. [found |-> FALSE, pos |-> at[1]] \in Result /\ [found |-> TRUE, pos |-> mid] \in Result
    BY <2>2 DEF Result
  <2> QED BY <2>1, <2>2, <2>3 DEF Halving
<1>4. Descends(D, Result, F, m)
  <2> SUFFICES ASSUME NEW at \in D, NEW g \in [D -> Result], NEW h \in [D -> Result],
                      \A y \in D : m[y] < m[at] => g[y] = h[y]
               PROVE  Halving(is, v, g, at) = Halving(is, v, h, at)
    BY <1>1, <1>3 DEF Descends
  <2> HIDE DEF D, m, F
  <2> QED BY <1>2 DEF Halving
<1>5. [D -> Result] # {}
  <2>1. [found |-> TRUE, pos |-> 0] \in Result
    BY DEF Result
  <2>2. [at \in D |-> [found |-> TRUE, pos |-> 0]] \in [D -> Result]
    BY <2>1
  <2> QED BY <2>2
<1>6. \E h \in [D -> Result] : h = [at \in D |-> F[<<at, h>>]]
  <2> HIDE DEF D, F, m
  <2> QED BY <1>4, <1>5, RecursionSolved
<1>7. \E h : IsHalving(is, v, h)
  BY <1>6 DEF IsHalving
<1> HIDE DEF D, F, m
<1> QED BY <1>7 DEF Halved
\* An intset as intset.c keeps it: the block has its integers in the set's
\* width, whole and in ascending order.
IntsetOK(is) ==
    /\ is \in [encoding : Widths, length : Nat, contents : {is.contents}]
    /\ is.contents = [u \in 1 .. is.length * is.encoding |-> is.contents[u]]
    /\ \A p \in 0 .. is.length - 1 :
          /\ _intsetGet(is, p) \in Int
          /\ _intsetValueEncoding(_intsetGet(is, p)) <= is.encoding
    /\ \A p, q \in 0 .. is.length - 1 : p < q => _intsetGet(is, p) < _intsetGet(is, q)

\* What comes before a small integer is small, what comes after a large one
\* is large.
LEMMA Ascending ==
    ASSUME NEW is, IntsetOK(is), NEW v \in Int, NEW p \in 0 .. is.length - 1
    PROVE  /\ _intsetGet(is, p) < v => \A q \in 0 .. p : _intsetGet(is, q) < v
           /\ v < _intsetGet(is, p) => \A q \in p .. is.length - 1 : v < _intsetGet(is, q)
<1> DEFINE s == [q \in 0 .. is.length - 1 |-> _intsetGet(is, q)]
<1>1. is.length \in Nat
  BY DEF IntsetOK
<1>2. /\ s \in [0 .. is.length - 1 -> Int]
      /\ \A i, j \in 0 .. is.length - 1 : i < j => s[i] < s[j]
      /\ \A q \in 0 .. is.length - 1 : s[q] = _intsetGet(is, q)
  BY DEF IntsetOK
<1> HIDE DEF s
<1>3. ASSUME s[p] < v, NEW q \in 0 .. p PROVE s[q] < v
  BY <1>1, <1>2, <1>3
<1>4. ASSUME v < s[p], NEW q \in p .. is.length - 1 PROVE v < s[q]
  BY <1>1, <1>2, <1>4
<1> QED BY <1>1, <1>2, <1>3, <1>4

\* What a search for v has to answer: its place, or the one it would take.
Right(is, v, r) ==
    \/ r.found = TRUE /\ r.pos \in 0 .. is.length - 1 /\ _intsetGet(is, r.pos) = v
    \/ /\ r.found = FALSE /\ r.pos \in 0 .. is.length
       /\ \A q \in 0 .. r.pos - 1 : _intsetGet(is, q) < v
       /\ \A q \in r.pos .. is.length - 1 : _intsetGet(is, q) > v

\* The integers outside a stretch are on their side of v.
Between(is, v, at) ==
    /\ at[1] <= at[2] + 1
    /\ \A q \in 0 .. at[1] - 1 : _intsetGet(is, q) < v
    /\ \A q \in at[2] + 1 .. is.length - 1 : _intsetGet(is, q) > v

\* The halving finds v wherever it may be, or its place.
LEMMA HalvingFinds ==
    ASSUME NEW is, IntsetOK(is), NEW v \in Int
    PROVE  \A at \in Stretches(is) : Between(is, v, at) => Right(is, v, Halved(is, v)[at])
<1> DEFINE h == Halved(is, v)
           Wrong == {at \in Stretches(is) : Between(is, v, at) /\ ~Right(is, v, h[at])}
           B == {Room(at) : at \in Wrong}
<1>1. SUFFICES ASSUME B # {} PROVE FALSE
  OBVIOUS
<1>2. B \in SUBSET Nat
  BY DEF Room, Stretches
<1>3. PICK n \in B : \A i \in B : n <= i
  <2> HIDE DEF B
  <2> QED BY <1>1, <1>2, LeastNat
<1>4. PICK at \in Wrong : n = Room(at)
  BY <1>3
<1>5. \A y \in Wrong : Room(at) <= Room(y)
  BY <1>3, <1>4
<1> DEFINE min == at[1]
           max == at[2]
           mid == (min + max) \div 2
           lower == <<min, mid - 1>>
           upper == <<mid + 1, max>>
<1>6. /\ is.length \in Nat /\ at \in Stretches(is)
      /\ min \in 0 .. is.length /\ max \in -1 .. is.length - 1
  BY <1>4 DEF IntsetOK, Stretches
<1>7. h[at] = Halving(is, v, h, at)
  <2> HIDE DEF h, Wrong
  <2>1. IsHalving(is, v, h)
    BY <1>6, HalvingExists DEF h
  <2> QED BY <1>6, <2>1 DEF IsHalving
<1>8. CASE max < min
  <2>1. h[at] = [found |-> FALSE, pos |-> min]
    BY <1>7, <1>8 DEF Halving
  <2>2. Right(is, v, h[at])
    <3> HIDE DEF h
    <3> QED BY <1>4, <1>6, <1>8, <2>1 DEF Right, Between
  <2> QED BY <1>4, <2>2
<1>9. CASE min <= max
  <2>1. /\ mid \in min .. max
        /\ lower \in Stretches(is) /\ Room(lower) < Room(at)
        /\ upper \in Stretches(is) /\ Room(upper) < Room(at)
    BY <1>6, <1>9 DEF Stretches, Room
  <2>2. lower \notin Wrong /\ upper \notin Wrong
    <3>1. Room(lower) \in Int /\ Room(upper) \in Int /\ Room(at) \in Int
      BY <1>6, <2>1 DEF Room
    <3> HIDE DEF Wrong, lower, upper
    <3> QED BY <1>5, <2>1, <3>1
  <2> DEFINE cur == _intsetGet(is, mid)
  <2>3. cur \in Int
    <3>1. mid \in 0 .. is.length - 1
      BY <1>6, <2>1
    <3> QED BY ONLY IntsetOK(is), <3>1 DEF IntsetOK
  <2>4. Between(is, v, at)
    BY <1>4
  <2>5. CASE v > cur
    <3>1. \A q \in 0 .. mid : _intsetGet(is, q) < v
      BY <1>6, <2>1, <2>3, <2>5, Ascending
    <3>2. Between(is, v, upper)
      BY <1>6, <1>9, <2>1, <2>4, <3>1 DEF Between
    <3>3. h[at] = h[upper]
      BY <1>6, <1>7, <1>9, <2>3, <2>5 DEF Halving
    <3> HIDE DEF h, upper
    <3> QED BY <1>4, <2>1, <2>2, <3>2, <3>3
  <2>6. CASE v < cur
    <3>1. \A q \in mid .. is.length - 1 : _intsetGet(is, q) > v
      BY <1>6, <2>1, <2>3, <2>6, Ascending
    <3>2. Between(is, v, lower)
      BY <1>6, <1>9, <2>1, <2>4, <3>1 DEF Between
    <3>3. h[at] = h[lower]
      BY <1>6, <1>7, <1>9, <2>3, <2>6 DEF Halving
    <3> HIDE DEF h, lower
    <3> QED BY <1>4, <2>1, <2>2, <3>2, <3>3
  <2>7. CASE v = cur
    <3>1. h[at] = [found |-> TRUE, pos |-> mid]
      BY <1>6, <1>7, <1>9, <2>3, <2>7 DEF Halving
    <3> HIDE DEF h
    <3>2. Right(is, v, h[at])
      BY <1>6, <2>1, <2>7, <3>1 DEF Right
    <3> QED BY <1>4, <3>2
  <2> QED BY <2>3, <2>5, <2>6, <2>7
<1> QED BY <1>6, <1>8, <1>9

\* intsetSearch finds what is there, and the place of what is not.
LEMMA SearchFinds ==
    ASSUME NEW is, IntsetOK(is), NEW v \in Int
    PROVE  Right(is, v, intsetSearch(is, v))
<1> DEFINE n == is.length
           r == intsetSearch(is, v)
<1>1. n \in Nat
  BY DEF IntsetOK
<1>2. CASE n = 0
  <2>1. r = [found |-> FALSE, pos |-> 0]
    BY <1>2, SearchIs
  <2> HIDE DEF r
  <2> QED BY <1>2, <2>1 DEF Right, r
<1>3. CASE n > 0 /\ v > _intsetGet(is, n - 1)
  <2>1. \A q \in 0 .. n - 1 : _intsetGet(is, q) < v
    BY <1>1, <1>3, Ascending
  <2>3. ~ v < _intsetGet(is, 0)
    BY <1>1, <1>3, <2>1 DEF IntsetOK
  <2>2. r = [found |-> FALSE, pos |-> n]
    BY <1>1, <1>3, <2>3, SearchIs
  <2> HIDE DEF r
  <2> QED BY <1>1, <2>1, <2>2 DEF Right, r
<1>4. CASE n > 0 /\ ~(v > _intsetGet(is, n - 1)) /\ v < _intsetGet(is, 0)
  <2>1. r = [found |-> FALSE, pos |-> 0]
    BY <1>4, SearchIs
  <2>2. \A q \in 0 .. n - 1 : _intsetGet(is, q) > v
    BY <1>1, <1>4, Ascending
  <2> HIDE DEF r
  <2> QED BY <1>1, <2>1, <2>2 DEF Right, r
<1>5. CASE n > 0 /\ ~(v > _intsetGet(is, n - 1)) /\ ~(v < _intsetGet(is, 0))
  <2> DEFINE at == <<0, n - 1>>
  <2>1. r = Halved(is, v)[at]
    BY <1>5, SearchIs
  <2>2. at \in Stretches(is) /\ Between(is, v, at)
    BY <1>1, <1>5 DEF Stretches, Between
  <2> HIDE DEF r, at
  <2> QED BY <2>1, <2>2, HalvingFinds DEF r
<1> QED BY <1>1, <1>2, <1>3, <1>4, <1>5

-----------------------------------------------------------------------------
(* The block.                                                              *)

\* Places of integers in a block.
LEMMA Places ==
    ASSUME NEW e \in Widths, NEW p \in Nat, NEW n \in Nat
    PROVE  /\ p * e \in Nat /\ (p + 1) * e = p * e + e
           /\ p < n => p * e + e <= n * e
           /\ p <= n => p * e <= n * e
           /\ \A f \in Widths : e <= f => p * e <= p * f
           /\ e >= 1
<1>1. CASE e = 1
  BY <1>1 DEF Widths
<1>2. CASE e = 2
  BY <1>2 DEF Widths
<1>3. CASE e = 4
  BY <1>3 DEF Widths
<1> QED BY <1>1, <1>2, <1>3 DEF Widths

\* The block of n integers, and the units of one of them.
Block(e, n) == 1 .. n * e
Cell(e, p) == p * e + 1 .. (p + 1) * e

\* The units of integers of one width.
LEMMA Cells ==
    ASSUME NEW e \in Widths, NEW p \in Nat
    PROVE  /\ Block(e, p) \subseteq Block(e, p + 1) /\ Cell(e, p) \subseteq Block(e, p + 1)
           /\ \A i \in 1 .. e : p * e + i \in Cell(e, p)
           /\ \A n \in Nat : p < n => Cell(e, p) \subseteq Block(e, n)
           /\ \A q \in Nat : q # p => Cell(e, q) \cap Cell(e, p) = {}
<1>1. CASE e = 1
  BY <1>1 DEF Block, Cell
<1>2. CASE e = 2
  BY <1>2 DEF Block, Cell
<1>3. CASE e = 4
  BY <1>3 DEF Block, Cell
<1> QED BY <1>1, <1>2, <1>3 DEF Widths

\* The units of integers in a block of wider ones: those up to a place are
\* before the wider integer of that place.
LEMMA WiderCells ==
    ASSUME NEW e \in Widths, NEW f \in Widths, e < f, NEW p \in Nat, NEW q \in Nat, p <= q
    PROVE  Block(e, p) \subseteq Block(f, q) /\ Block(e, p) \cap Cell(f, q) = {}
<1>1. CASE e = 1 /\ f = 2
  BY <1>1 DEF Block, Cell
<1>2. CASE e = 1 /\ f = 4
  BY <1>2 DEF Block, Cell
<1>3. CASE e = 2 /\ f = 4
  BY <1>3 DEF Block, Cell
<1> QED BY <1>1, <1>2, <1>3 DEF Widths

\* An integer moved as it is reads the same.
LEMMA ReadMoved ==
    ASSUME NEW c, NEW d, NEW e \in Widths, NEW p \in Nat, NEW q \in Nat,
           \A i \in 1 .. e : d[q * e + i] = c[p * e + i]
    PROVE  _intsetGetEncoded(d, q, e) = _intsetGetEncoded(c, p, e)
<1>1. 1 \in 1 .. e
  BY DEF Widths
<1>2. d[q * e + 1] = c[p * e + 1]
  BY <1>1
<1> QED BY <1>2 DEF _intsetGetEncoded

\* An integer whose units are the same reads the same.
LEMMA ReadSame ==
    ASSUME NEW c, NEW d, NEW e \in Widths, NEW p \in Nat, \A u \in Cell(e, p) : d[u] = c[u]
    PROVE  _intsetGetEncoded(d, p, e) = _intsetGetEncoded(c, p, e)
BY Cells, ReadMoved

\* What is written is read back, and the rest of the block stays.
LEMMA SetReads ==
    ASSUME NEW c, NEW e \in Widths, NEW p \in Nat, NEW v, Cell(e, p) \subseteq DOMAIN c
    PROVE  /\ DOMAIN _intsetSet(c, p, e, v) = DOMAIN c
           /\ _intsetGetEncoded(_intsetSet(c, p, e, v), p, e) = v
           /\ \A u \in DOMAIN c \ Cell(e, p) : _intsetSet(c, p, e, v)[u] = c[u]
<1> DEFINE d == _intsetSet(c, p, e, v)
<1>1. /\ DOMAIN d = DOMAIN c
      /\ \A u \in Cell(e, p) : d[u] = [val |-> v, enc |-> e, at |-> u - p * e]
      /\ \A u \in DOMAIN c \ Cell(e, p) : d[u] = c[u]
  BY DEF _intsetSet, Cell
<1>2. ASSUME NEW i \in 1 .. e
      PROVE  d[p * e + i] = [val |-> v, enc |-> e, at |-> i]
  <2>1. p * e + i \in Cell(e, p) /\ (p * e + i) - p * e = i
    BY Cells, Places
  <2> HIDE DEF d
  <2> QED BY <1>1, <2>1
<1>3. d[p * e + 1] = [val |-> v, enc |-> e, at |-> 1]
  BY <1>2 DEF Widths
<1> HIDE DEF d
<1>4. d[p * e + 1].val = v
  BY <1>3
<1>5. _intsetGetEncoded(d, p, e) = v
  BY <1>2, <1>4 DEF _intsetGetEncoded
<1> QED BY <1>1, <1>5 DEF d

\* The other integers of the block stay as well.
LEMMA SetElsewhere ==
    ASSUME NEW c, NEW e \in Widths, NEW p \in Nat, NEW v, NEW q \in Nat, q # p,
           Cell(e, p) \subseteq DOMAIN c, Cell(e, q) \subseteq DOMAIN c
    PROVE  _intsetGetEncoded(_intsetSet(c, p, e, v), q, e) = _intsetGetEncoded(c, q, e)
<1>1. Cell(e, q) \cap Cell(e, p) = {}
  BY Cells
<1> DEFINE d == _intsetSet(c, p, e, v)
<1>2. \A u \in DOMAIN c \ Cell(e, p) : d[u] = c[u]
  BY SetReads
<1> HIDE DEF d
<1>3. \A u \in Cell(e, q) : d[u] = c[u]
  BY <1>1, <1>2
<1>4. _intsetGetEncoded(d, q, e) = _intsetGetEncoded(c, q, e)
  BY <1>3, ReadSame
<1> QED BY <1>4 DEF d

\* A larger or smaller block keeps what fits into both.
LEMMA ResizeKeeps ==
    ASSUME NEW c, NEW e \in Widths, NEW f \in Widths, NEW n \in Nat, NEW p \in Nat,
           Cell(e, p) \subseteq Block(f, n), Cell(e, p) \subseteq DOMAIN c
    PROVE  _intsetGetEncoded(intsetResize(c, n, f), p, e) = _intsetGetEncoded(c, p, e)
<1> DEFINE d == intsetResize(c, n, f)
<1>1. \A u \in Cell(e, p) : d[u] = c[u]
  BY DEF intsetResize, Block
<1> HIDE DEF d
<1>2. _intsetGetEncoded(d, p, e) = _intsetGetEncoded(c, p, e)
  BY <1>1, ReadSame
<1> QED BY <1>2 DEF d

-----------------------------------------------------------------------------
(* The upgrade.                                                            *)

\* What is rewritten from the n-th integer on, given what comes behind it.
RewrittenFrom(is, newenc, prepend, h, n) ==
    LET rest == h[n + 1]
    IN  IF n = is.length THEN intsetResize(is.contents, is.length + 1, newenc)
        ELSE _intsetSet(rest, n + prepend, newenc, _intsetGetEncoded(rest, n, is.encoding))

IsRewriting(is, newenc, prepend, h) ==
    h = [n \in 0 .. is.length |-> RewrittenFrom(is, newenc, prepend, h, n)]
Rewriting(is, newenc, prepend) == CHOOSE h : IsRewriting(is, newenc, prepend, h)

\* The upgrade, its recursive part named.
LEMMA RewrittenIs ==
    ASSUME NEW is, NEW newenc, NEW prepend
    PROVE  Rewritten(is, newenc, prepend) = Rewriting(is, newenc, prepend)[0]
BY DEF Rewritten, Rewriting, IsRewriting, RewrittenFrom

\* The rewriting is described by its recursion: what it reads and writes are
\* units of the block.
LEMMA RewritingExists ==
    ASSUME NEW is, is.encoding \in Widths, is.length \in Nat,
           NEW newenc \in Widths, is.encoding < newenc, NEW prepend \in {0, 1}
    PROVE  IsRewriting(is, newenc, prepend, Rewriting(is, newenc, prepend))
<1> DEFINE N == (is.length + 1) * newenc
           base == intsetResize(is.contents, is.length + 1, newenc)
           Old == {base[i] : i \in 1 .. N}
           Vals == {u.val : u \in Old} \cup {Garbage}
           Units == Old \cup [val : Vals, enc : {newenc}, at : 1 .. newenc]
           A == [1 .. N -> Units]
           D == 0 .. is.length
           m == [n \in D |-> is.length - n]
           F == [a \in D \X [D -> A] |-> RewrittenFrom(is, newenc, prepend, a[2], a[1])]
<1>1. base \in A
  <2>1. base = [i \in 1 .. N |-> base[i]]
    BY DEF intsetResize
  <2> HIDE DEF base, N
  <2> QED BY <2>1
<1>2. ASSUME NEW c \in A, NEW n \in 0 .. is.length - 1
      PROVE  _intsetGetEncoded(c, n, is.encoding) \in Vals
  <2> DEFINE enc == is.encoding
             len == is.length
  <2>1. n * enc + 1 \in 1 .. N
    <3>1. n + 1 \in Nat /\ n + 1 <= len + 1 /\ n \in Nat /\ len + 1 \in Nat /\ 1 \in 1 .. enc
      BY DEF Widths
    <3>2. enc \in Widths /\ enc < newenc
      OBVIOUS
    <3> HIDE DEF enc, len
    <3>3. n * enc + 1 \in Block(enc, n + 1)
      BY <3>1, <3>2, Cells
    <3>4. Block(enc, n + 1) \subseteq Block(newenc, len + 1)
      BY <3>1, <3>2, WiderCells
    <3> QED BY <3>3, <3>4 DEF Block, len
  <2> HIDE DEF N, Old
  <2>2. c[n * is.encoding + 1] \in Units
    BY <2>1
  <2>3. c[n * is.encoding + 1].val \in Vals
    BY <2>2
  <2> QED BY <2>3 DEF _intsetGetEncoded
<1>3. ASSUME NEW c \in A, NEW n \in 0 .. is.length - 1, NEW v \in Vals
      PROVE  _intsetSet(c, n + prepend, newenc, v) \in A
  <2> DEFINE from == (n + prepend) * newenc
             to == (n + prepend + 1) * newenc
  <2>1. from \in Nat /\ to = from + newenc /\ newenc \in Nat
    BY Places DEF Widths
  <2> HIDE DEF N, Old, from, to
  <2>2. \A i \in from + 1 .. to : i - from \in 1 .. newenc
    BY <2>1
  <2>3. _intsetSet(c, n + prepend, newenc, v) =
           [i \in 1 .. N |-> IF i \in from + 1 .. to
                             THEN [val |-> v, enc |-> newenc, at |-> i - from] ELSE c[i]]
    BY DEF _intsetSet, from, to
  <2> HIDE DEF Vals
  <2> QED BY <2>2, <2>3
<1>4. F \in [D \X [D -> A] -> A]
  <2> SUFFICES ASSUME NEW n \in D, NEW h \in [D -> A]
               PROVE  RewrittenFrom(is, newenc, prepend, h, n) \in A
    OBVIOUS
  <2>1. CASE n = is.length
    BY <1>1, <2>1 DEF RewrittenFrom
  <2>2. CASE n # is.length
    <3>1. n \in 0 .. is.length - 1 /\ h[n + 1] \in A
      <4> HIDE DEF A
      <4> QED BY <2>2
    <3> HIDE DEF A, Vals
    <3> QED BY <1>2, <1>3, <2>2, <3>1 DEF RewrittenFrom
  <2> QED BY <2>1, <2>2
<1>5. Descends(D, A, F, m)
  <2>1. m \in [D -> Nat]
    OBVIOUS
  <2> SUFFICES ASSUME NEW n \in D, NEW g \in [D -> A], NEW h \in [D -> A],
                      \A y \in D : m[y] < m[n] => g[y] = h[y]
               PROVE  RewrittenFrom(is, newenc, prepend, g, n) =
                      RewrittenFrom(is, newenc, prepend, h, n)
    <3> HIDE DEF A, m
    <3> QED BY <1>4, <2>1 DEF Descends
  <2>2. n # is.length => g[n + 1] = h[n + 1]
    <3> SUFFICES ASSUME n # is.length PROVE g[n + 1] = h[n + 1]
      OBVIOUS
    <3>1. n + 1 \in D /\ m[n + 1] < m[n]
      OBVIOUS
    <3> HIDE DEF A, D, m
    <3> QED BY <3>1
  <2> HIDE DEF A
  <2> QED BY <2>2 DEF RewrittenFrom
<1>6. [D -> A] # {}
  <2>1. [n \in D |-> base] \in [D -> A]
    <3> HIDE DEF A, base
    <3> QED BY <1>1
  <2> QED BY <2>1
<1>7. \E h \in [D -> A] : h = [n \in D |-> F[<<n, h>>]]
  <2> HIDE DEF D, A, F, m
  <2> QED BY <1>5, <1>6, RecursionSolved
<1>8. \E h : IsRewriting(is, newenc, prepend, h)
  <2>1. PICK h \in [D -> A] : h = [n \in D |-> F[<<n, h>>]]
    BY <1>7
  <2>2. \A n \in D : F[<<n, h>>] = RewrittenFrom(is, newenc, prepend, h, n)
    <3> HIDE DEF A
    <3> QED OBVIOUS
  <2>3. h = [n \in D |-> RewrittenFrom(is, newenc, prepend, h, n)]
    <3> HIDE DEF A, F
    <3> QED BY <2>1, <2>2
  <2> QED BY <2>3 DEF IsRewriting
<1> HIDE DEF D, A, F, m
<1> QED BY <1>8 DEF Rewriting

\* c has the integers of the old block from the n-th on in the new width,
\* and before them nothing is touched.
RewrittenBehind(old, enc, len, newenc, prepend, n, c) ==
    /\ DOMAIN c = Block(newenc, len + 1)
    /\ \A u \in Block(enc, n) : c[u] = old[u]
    /\ \A q \in n .. len - 1 :
          _intsetGetEncoded(c, q + prepend, newenc) = _intsetGetEncoded(old, q, enc)

\* One turn of the upgrade: it writes over nothing that is yet to be read.
LEMMA RewritingTurn ==
    ASSUME NEW old, NEW enc \in Widths, NEW len \in Nat,
           NEW newenc \in Widths, enc < newenc, NEW prepend \in {0, 1},
           NEW n \in 0 .. len - 1,
           NEW rest, RewrittenBehind(old, enc, len, newenc, prepend, n + 1, rest)
    PROVE  RewrittenBehind(old, enc, len, newenc, prepend, n,
              _intsetSet(rest, n + prepend, newenc, _intsetGetEncoded(rest, n, enc)))
<1> DEFINE v == _intsetGetEncoded(rest, n, enc)
           p == n + prepend
           c == _intsetSet(rest, p, newenc, v)
<1>1. /\ n \in Nat /\ p \in Nat /\ n + 1 \in Nat /\ len + 1 \in Nat
      /\ p < len + 1 /\ n <= p /\ n <= len + 1
  OBVIOUS
<1>2. /\ Block(enc, n) \cap Cell(newenc, p) = {}
      /\ Block(enc, n) \subseteq Block(newenc, len + 1)
  <2> HIDE DEF p
  <2> QED BY <1>1, WiderCells
<1>3. /\ Cell(newenc, p) \subseteq Block(newenc, len + 1)
      /\ Block(enc, n) \subseteq Block(enc, n + 1) /\ Cell(enc, n) \subseteq Block(enc, n + 1)
  <2> HIDE DEF p
  <2> QED BY <1>1, Cells
<1>4. /\ DOMAIN rest = Block(newenc, len + 1)
      /\ \A u \in Block(enc, n + 1) : rest[u] = old[u]
      /\ \A q \in n + 1 .. len - 1 :
            _intsetGetEncoded(rest, q + prepend, newenc) = _intsetGetEncoded(old, q, enc)
  BY DEF RewrittenBehind
<1>5. v = _intsetGetEncoded(old, n, enc)
  BY <1>1, <1>3, <1>4, ReadSame
<1> HIDE DEF v, p
<1>6. /\ DOMAIN c = DOMAIN rest
      /\ _intsetGetEncoded(c, p, newenc) = v
      /\ \A u \in DOMAIN rest \ Cell(newenc, p) : c[u] = rest[u]
  BY <1>1, <1>3, <1>4, SetReads
<1>7. \A u \in Block(enc, n) : c[u] = old[u]
  <2> HIDE DEF c
  <2> QED BY <1>2, <1>3, <1>4, <1>6
<1>8. ASSUME NEW q \in n + 1 .. len - 1
      PROVE  _intsetGetEncoded(c, q + prepend, newenc) = _intsetGetEncoded(old, q, enc)
  <2> DEFINE r == q + prepend
  <2>1. r \in Nat /\ r # p /\ r < len + 1
    BY DEF p
  <2> HIDE DEF r
  <2>2. Cell(newenc, r) \subseteq DOMAIN rest
    BY <1>1, <1>4, <2>1, Cells
  <2>3. _intsetGetEncoded(c, r, newenc) = _intsetGetEncoded(rest, r, newenc)
    BY <1>1, <1>3, <1>4, <2>1, <2>2, SetElsewhere
  <2> QED BY <1>4, <2>3 DEF r
<1> HIDE DEF c
<1>9. \A q \in n .. len - 1 : q = n \/ q \in n + 1 .. len - 1
  OBVIOUS
<1>10. RewrittenBehind(old, enc, len, newenc, prepend, n, c)
  BY <1>4, <1>5, <1>6, <1>7, <1>8, <1>9 DEF RewrittenBehind, p
<1> QED BY <1>10 DEF c, p, v

\* The upgrade in the block that it reads from.
LEMMA RewritingHolds ==
    ASSUME NEW is, is.encoding \in Widths, is.length \in Nat,
           DOMAIN is.contents = Block(is.encoding, is.length),
           NEW newenc \in Widths, is.encoding < newenc, NEW prepend \in {0, 1}
    PROVE  RewrittenBehind(is.contents, is.encoding, is.length, newenc, prepend, 0,
                           Rewritten(is, newenc, prepend))
<1> DEFINE h == Rewriting(is, newenc, prepend)
           enc == is.encoding
           len == is.length
           Behind(n) == RewrittenBehind(is.contents, enc, len, newenc, prepend, n, h[n])
           Wrong == {n \in 0 .. len : ~Behind(n)}
           B == {len - n : n \in Wrong}
<1>1. CASE B = {}
  BY <1>1, RewrittenIs
<1>2. CASE B # {}
  <2>1. PICK left \in B : \A i \in B : left <= i
    <3>1. B \in SUBSET Nat
      OBVIOUS
    <3> HIDE DEF B
    <3> QED BY <1>2, <3>1, LeastNat
  <2>2. PICK n \in Wrong : left = len - n
    BY <2>1
  <2>3. n \in 0 .. len /\ ~Behind(n)
    OBVIOUS
  <2>4. n + 1 \notin Wrong
    <3> SUFFICES ASSUME n + 1 \in Wrong PROVE FALSE
      OBVIOUS
    <3>1. len - (n + 1) \in B
      OBVIOUS
    <3>2. left <= len - (n + 1)
      <4> HIDE DEF B
      <4> QED BY <2>1, <3>1
    <3> QED BY <2>2, <2>3, <3>2
  <2>5. h[n] = RewrittenFrom(is, newenc, prepend, h, n)
    <3>1. IsRewriting(is, newenc, prepend, h)
      BY RewritingExists
    <3> HIDE DEF h
    <3> QED BY <2>3, <3>1 DEF IsRewriting
  <2> HIDE DEF h
  <2>6. CASE n = len
    <3>1. h[n] = intsetResize(is.contents, len + 1, newenc)
      BY <2>5, <2>6 DEF RewrittenFrom
    <3>2. Block(enc, len) \subseteq Block(newenc, len + 1)
      <4>1. len \in Nat /\ len + 1 \in Nat /\ len <= len + 1 /\ enc \in Widths /\ enc < newenc
        OBVIOUS
      <4> HIDE DEF enc, len
      <4> QED BY <4>1, WiderCells
    <3>3. DOMAIN is.contents = Block(enc, len)
      OBVIOUS
    <3> HIDE DEF enc, len
    <3>4. /\ DOMAIN h[n] = Block(newenc, len + 1)
          /\ \A u \in Block(enc, len) : h[n][u] = is.contents[u]
      BY <3>1, <3>2, <3>3 DEF intsetResize, Block
    <3>5. n .. len - 1 = {}
      BY <2>6 DEF len
    <3> QED BY <2>3, <2>6, <3>4, <3>5 DEF RewrittenBehind
  <2>7. CASE n < len
    <3>1. n \in 0 .. len - 1 /\ n + 1 \in 0 .. len
      BY <2>3, <2>7
    <3>2. Behind(n + 1)
      BY <2>4, <3>1
    <3>3. h[n] = _intsetSet(h[n + 1], n + prepend, newenc, _intsetGetEncoded(h[n + 1], n, enc))
      BY <2>5, <2>7 DEF RewrittenFrom
    <3>4. enc \in Widths /\ enc < newenc /\ len \in Nat
      OBVIOUS
    <3> HIDE DEF enc, len
    <3>5. Behind(n)
      BY <3>1, <3>2, <3>3, <3>4, RewritingTurn
    <3> QED BY <2>3, <3>5
  <2> QED BY <2>3, <2>6, <2>7
<1> QED BY <1>1, <1>2

-----------------------------------------------------------------------------
(* Adding and removing.                                                    *)

\* Every integer has a width.
LEMMA WidthOf ==
    ASSUME NEW v \in Int
    PROVE  /\ _intsetValueEncoding(v) \in Widths
           /\ _intsetValueEncoding(v) = IF Fits(v, Int16Bound) THEN 1
                                        ELSE IF Fits(v, Int32Bound) THEN 2 ELSE 4
BY IntsetAssumption DEF _intsetValueEncoding, Fits, Widths, INTSET_ENC_INT16, INTSET_ENC_INT32,
                      INTSET_ENC_INT64

\* A memmove of the integers from one position on to another.
LEMMA MoveReads ==
    ASSUME NEW is, is.encoding \in Widths, is.length \in Nat, NEW c,
           NEW from \in 0 .. is.length, NEW to \in Nat, NEW q \in Nat,
           Cell(is.encoding, q) \subseteq DOMAIN c
    PROVE  LET d == intsetMoveTail(is, c, from, to)
               p == IF q \in to .. to + (is.length - from) - 1 THEN q - to + from ELSE q
           IN  _intsetGetEncoded(d, q, is.encoding) = _intsetGetEncoded(c, p, is.encoding)
<1> DEFINE e == is.encoding
           n == is.length
           d == intsetMoveTail(is, c, from, to)
           p == IF q \in to .. to + (n - from) - 1 THEN q - to + from ELSE q
<1>1. p \in Nat
  OBVIOUS
<1>2. ASSUME NEW i \in 1 .. e PROVE d[q * e + i] = c[p * e + i]
  <2>1. q * e + i \in DOMAIN c
    BY Cells
  <2>2. d[q * e + i] = IF (q * e + i) - to * e \in 1 .. (n - from) * e
                       THEN c[(q * e + i) - (to - from) * e] ELSE c[q * e + i]
    BY <2>1 DEF intsetMoveTail
  <2>3. /\ (q * e + i) - to * e \in 1 .. (n - from) * e <=>
              q \in to .. to + (n - from) - 1
        /\ (q * e + i) - (to - from) * e = (q - to + from) * e + i
    <3>1. e \in Widths /\ n \in Nat
      OBVIOUS
    <3> HIDE DEF e, n
    <3>2. CASE e = 1
      BY <3>1, <3>2
    <3>3. CASE e = 2
      BY <3>1, <3>3
    <3>4. CASE e = 4
      BY <3>1, <3>4
    <3> QED BY <3>1, <3>2, <3>3, <3>4 DEF Widths
  <2> HIDE DEF d, e, n
  <2> QED BY <2>2, <2>3 DEF n
<1>3. e \in Widths
  OBVIOUS
<1> HIDE DEF d, e, p
<1>4. _intsetGetEncoded(d, q, e) = _intsetGetEncoded(c, p, e)
  BY <1>1, <1>2, <1>3, ReadMoved
<1> QED BY <1>4 DEF d, e, p

\* The integers of an intset.
Ints(is) == {_intsetGet(is, p) : p \in 0 .. is.length - 1}

-----------------------------------------------------------------------------
(* Ascending sequences, and what the three functions of intsets do to them.*)

\* Sequences counted from zero, like the positions of an intset: one that
\* ascends, what is in it, one with a number more, one with a number less.
Ascends(s, n) ==
    /\ s \in [0 .. n - 1 -> Int]
    /\ \A p, q \in 0 .. n - 1 : p < q => s[p] < s[q]
InIt(s, n) == {s[p] : p \in 0 .. n - 1}
WithOne(s, n, pos, v) ==
    [q \in 0 .. n |-> IF q < pos THEN s[q] ELSE IF q = pos THEN v ELSE s[q - 1]]
WithoutOne(s, n, pos) == [q \in 0 .. n - 2 |-> IF q < pos THEN s[q] ELSE s[q + 1]]
Narrow(s, n, e) == \A p \in 0 .. n - 1 : _intsetValueEncoding(s[p]) <= e
PlaceFor(s, n, pos, v) ==
    /\ pos \in 0 .. n
    /\ \A q \in 0 .. pos - 1 : s[q] < v
    /\ \A q \in pos .. n - 1 : s[q] > v

\* A number more in its place.
LEMMA OneMore ==
    ASSUME NEW n \in Nat, NEW s, Ascends(s, n), NEW v \in Int, NEW pos, PlaceFor(s, n, pos, v)
    PROVE  /\ Ascends(WithOne(s, n, pos, v), n + 1)
           /\ InIt(WithOne(s, n, pos, v), n + 1) = InIt(s, n) \cup {v}
           /\ \A e \in Widths : Narrow(s, n, e) /\ _intsetValueEncoding(v) <= e =>
                 Narrow(WithOne(s, n, pos, v), n + 1, e)
<1> DEFINE t == WithOne(s, n, pos, v)
<1>1. /\ s \in [0 .. n - 1 -> Int]
      /\ \A p, q \in 0 .. n - 1 : p < q => s[p] < s[q]
      /\ pos \in 0 .. n
      /\ \A q \in 0 .. pos - 1 : s[q] < v
      /\ \A q \in pos .. n - 1 : s[q] > v
  BY DEF Ascends, PlaceFor
<1>2. t = [q \in 0 .. n |-> IF q < pos THEN s[q] ELSE IF q = pos THEN v ELSE s[q - 1]]
  BY DEF WithOne
<1> HIDE DEF t
<1>3. t \in [0 .. n -> Int]
  BY <1>1, <1>2
<1>4. ASSUME NEW p \in 0 .. n, NEW q \in 0 .. n, p < q PROVE t[p] < t[q]
  <2>1. CASE q < pos
    BY <1>1, <1>2, <1>4, <2>1
  <2>2. CASE q = pos
    BY <1>1, <1>2, <1>4, <2>2
  <2>3. CASE q > pos
    <3>1. t[q] = s[q - 1] /\ q - 1 \in pos .. n - 1 /\ q - 1 \in 0 .. n - 1
      BY <1>1, <1>2, <2>3
    <3>2. CASE p < pos
      <4>1. t[p] = s[p] /\ p \in 0 .. n - 1 /\ p < q - 1
        BY <1>1, <1>2, <2>3, <3>2
      <4> QED BY <1>1, <3>1, <4>1
    <3>3. CASE p = pos
      BY <1>1, <1>2, <3>1, <3>3
    <3>4. CASE p > pos
      <4>1. t[p] = s[p - 1] /\ p - 1 \in 0 .. n - 1 /\ p - 1 < q - 1
        BY <1>1, <1>2, <1>4, <3>4
      <4> QED BY <1>1, <3>1, <4>1
    <3> QED BY <1>1, <3>2, <3>3, <3>4
  <2> QED BY <1>1, <2>1, <2>2, <2>3
<1>5. ASSUME NEW q \in 0 .. n
      PROVE  t[q] = v \/ \E p \in 0 .. n - 1 : t[q] = s[p]
  <2>1. CASE q < pos
    BY <1>1, <1>2, <2>1
  <2>2. CASE q = pos
    BY <1>2, <2>2
  <2>3. CASE q > pos
    <3>1. t[q] = s[q - 1] /\ q - 1 \in 0 .. n - 1
      BY <1>1, <1>2, <2>3
    <3> QED BY <3>1
  <2> QED BY <1>1, <2>1, <2>2, <2>3
<1>6. ASSUME NEW p \in 0 .. n - 1 PROVE \E q \in 0 .. n : t[q] = s[p]
  <2>1. CASE p < pos
    <3>1. p \in 0 .. n /\ t[p] = s[p]
      BY <1>1, <1>2, <2>1
    <3> QED BY <3>1
  <2>2. CASE p >= pos
    <3>1. p + 1 \in 0 .. n /\ t[p + 1] = s[p]
      BY <1>1, <1>2, <2>2
    <3> QED BY <3>1
  <2> QED BY <1>1, <2>1, <2>2
<1>7. t[pos] = v /\ pos \in 0 .. n
  BY <1>1, <1>2
<1>8. 0 .. (n + 1) - 1 = 0 .. n
  OBVIOUS
<1>9. Ascends(t, n + 1)
  BY <1>3, <1>4, <1>8 DEF Ascends
<1>10. InIt(t, n + 1) = InIt(s, n) \cup {v}
  <2>1. ASSUME NEW x \in InIt(t, n + 1) PROVE x \in InIt(s, n) \cup {v}
    <3>1. PICK q \in 0 .. n : x = t[q]
      BY <1>8 DEF InIt
    <3> QED BY <1>5, <3>1 DEF InIt
  <2>2. ASSUME NEW x \in InIt(s, n) PROVE x \in InIt(t, n + 1)
    <3>1. PICK p \in 0 .. n - 1 : x = s[p]
      BY DEF InIt
    <3> QED BY <1>6, <1>8, <3>1 DEF InIt
  <2>3. v \in InIt(t, n + 1)
    BY <1>7, <1>8 DEF InIt
  <2> QED BY <2>1, <2>2, <2>3
<1>11. ASSUME NEW e \in Widths, Narrow(s, n, e), _intsetValueEncoding(v) <= e
       PROVE  Narrow(t, n + 1, e)
  BY <1>5, <1>8, <1>11 DEF Narrow
<1> QED BY <1>9, <1>10, <1>11 DEF t

\* A number less.
LEMMA OneLess ==
    ASSUME NEW n \in Nat, NEW s, Ascends(s, n), NEW pos \in 0 .. n - 1
    PROVE  /\ Ascends(WithoutOne(s, n, pos), n - 1)
           /\ InIt(WithoutOne(s, n, pos), n - 1) = InIt(s, n) \ {s[pos]}
           /\ \A e \in Widths : Narrow(s, n, e) => Narrow(WithoutOne(s, n, pos), n - 1, e)
<1> DEFINE t == WithoutOne(s, n, pos)
           old(q) == IF q < pos THEN q ELSE q + 1
<1>1. /\ s \in [0 .. n - 1 -> Int]
      /\ \A p, q \in 0 .. n - 1 : p < q => s[p] < s[q]
  BY DEF Ascends
<1>2. \A q \in 0 .. n - 2 : old(q) \in 0 .. n - 1 /\ old(q) # pos
  OBVIOUS
<1>3. t = [q \in 0 .. n - 2 |-> s[old(q)]]
  BY DEF WithoutOne
<1>4. \A p, q \in 0 .. n - 2 : p < q => old(p) < old(q)
  OBVIOUS
<1>5. \A p \in 0 .. n - 1 : p = pos \/ \E q \in 0 .. n - 2 : p = old(q)
  <2> SUFFICES ASSUME NEW p \in 0 .. n - 1, p # pos PROVE \E q \in 0 .. n - 2 : p = old(q)
    OBVIOUS
  <2>1. CASE p < pos
    <3>1. p \in 0 .. n - 2 /\ p = old(p)
      BY <2>1
    <3> HIDE DEF old
    <3> QED BY <3>1
  <2>2. CASE p > pos
    <3>1. p - 1 \in 0 .. n - 2 /\ p = old(p - 1)
      BY <2>2
    <3> HIDE DEF old
    <3> QED BY <3>1
  <2> QED BY <2>1, <2>2
<1> HIDE DEF t, old
<1>6. 0 .. (n - 1) - 1 = 0 .. n - 2
  OBVIOUS
<1>7. \A p \in 0 .. n - 1 : p # pos => s[p] # s[pos]
  <2> SUFFICES ASSUME NEW p \in 0 .. n - 1, p # pos PROVE s[p] # s[pos]
    OBVIOUS
  <2>1. p < pos \/ pos < p
    OBVIOUS
  <2>2. s[p] \in Int /\ s[pos] \in Int
    BY <1>1
  <2> QED BY <1>1, <2>1, <2>2
<1>8. Ascends(t, n - 1)
  <2>1. t \in [0 .. n - 2 -> Int]
    BY <1>1, <1>2, <1>3
  <2>2. ASSUME NEW p \in 0 .. n - 2, NEW q \in 0 .. n - 2, p < q PROVE t[p] < t[q]
    <3>1. old(p) \in 0 .. n - 1 /\ old(q) \in 0 .. n - 1 /\ old(p) < old(q)
      BY <1>2, <1>4, <2>2
    <3>2. t[p] = s[old(p)] /\ t[q] = s[old(q)]
      BY <1>3
    <3> QED BY <1>1, <3>1, <3>2
  <2> QED BY <1>6, <2>1, <2>2 DEF Ascends
<1>9. InIt(t, n - 1) = InIt(s, n) \ {s[pos]}
  <2>1. ASSUME NEW x \in InIt(t, n - 1) PROVE x \in InIt(s, n) /\ x # s[pos]
    <3>1. PICK q \in 0 .. n - 2 : x = t[q]
      BY <1>6 DEF InIt
    <3>2. x = s[old(q)]
      BY <1>3, <3>1
    <3> QED BY <1>2, <1>7, <3>2 DEF InIt
  <2>2. ASSUME NEW x \in InIt(s, n), x # s[pos] PROVE x \in InIt(t, n - 1)
    <3>1. PICK p \in 0 .. n - 1 : x = s[p]
      BY DEF InIt
    <3>2. PICK q \in 0 .. n - 2 : p = old(q)
      BY <1>5, <2>2, <3>1
    <3>3. x = t[q]
      BY <1>3, <3>1, <3>2
    <3> QED BY <1>6, <3>3 DEF InIt
  <2> QED BY <2>1, <2>2
<1>10. ASSUME NEW e \in Widths, Narrow(s, n, e) PROVE Narrow(t, n - 1, e)
  <2>1. \A q \in 0 .. n - 2 : t[q] = s[old(q)]
    BY <1>3
  <2> QED BY <1>2, <1>6, <1>10, <2>1 DEF Narrow
<1> QED BY <1>8, <1>9, <1>10 DEF t

\* The integers of an intset by position.
At(is) == [p \in 0 .. is.length - 1 |-> _intsetGet(is, p)]
Shaped(is) ==
    /\ is \in [encoding : Widths, length : Nat, contents : {is.contents}]
    /\ is.contents = [u \in Block(is.encoding, is.length) |-> is.contents[u]]

\* A record of the three parts of an intset.
LEMMA ShapedAs ==
    ASSUME NEW e \in Widths, NEW n \in Nat, NEW c, c = [u \in Block(e, n) |-> c[u]]
    PROVE  Shaped([encoding |-> e, length |-> n, contents |-> c])
BY DEF Shaped

\* An intset is a block of the right size with an ascending sequence in it,
\* none of it too wide.
LEMMA IntsetIs ==
    ASSUME NEW is
    PROVE  /\ IntsetOK(is) <=> /\ Shaped(is) /\ Ascends(At(is), is.length)
                               /\ Narrow(At(is), is.length, is.encoding)
           /\ Ints(is) = InIt(At(is), is.length)
<1> DEFINE n == is.length
           s == At(is)
<1>1. \A p \in 0 .. n - 1 : s[p] = _intsetGet(is, p)
  BY DEF At
<1>2. s \in [0 .. n - 1 -> Int] <=> \A p \in 0 .. n - 1 : _intsetGet(is, p) \in Int
  BY DEF At
<1> HIDE DEF s
<1>3. Ints(is) = InIt(s, n)
  BY <1>1 DEF Ints, InIt
<1>4. Ascends(s, n) /\ Narrow(s, n, is.encoding) <=>
         /\ \A p \in 0 .. n - 1 :
               /\ _intsetGet(is, p) \in Int
               /\ _intsetValueEncoding(_intsetGet(is, p)) <= is.encoding
         /\ \A p, q \in 0 .. n - 1 : p < q => _intsetGet(is, p) < _intsetGet(is, q)
  BY <1>1, <1>2 DEF Ascends, Narrow
<1> QED BY <1>3, <1>4 DEF IntsetOK, Shaped, Block, s

\* A block filled with an ascending sequence is an intset.
LEMMA IntsetMade ==
    ASSUME NEW is, Shaped(is), NEW s, Ascends(s, is.length), Narrow(s, is.length, is.encoding),
           \A p \in 0 .. is.length - 1 : _intsetGet(is, p) = s[p]
    PROVE  IntsetOK(is) /\ Ints(is) = InIt(s, is.length)
<1>1. s = [p \in 0 .. is.length - 1 |-> s[p]]
  BY DEF Ascends
<1>2. s = At(is)
  BY <1>1 DEF At
<1> QED BY <1>2, IntsetIs

\* Every integer of one intset is in the other one, and one more or less.
ReadsWith(new, is, pos, v) == \A q \in 0 .. is.length :
    _intsetGet(new, q) = IF q < pos THEN _intsetGet(is, q)
                         ELSE IF q = pos THEN v ELSE _intsetGet(is, q - 1)
ReadsWithout(new, is, pos) == \A q \in 0 .. is.length - 2 :
    _intsetGet(new, q) = IF q < pos THEN _intsetGet(is, q) ELSE _intsetGet(is, q + 1)

\* An intset that was written anew with one integer more, in its place.
LEMMA Inserted ==
    ASSUME NEW is, IntsetOK(is), NEW v \in Int, NEW pos, PlaceFor(At(is), is.length, pos, v),
           NEW new, Shaped(new), new.length = is.length + 1,
           is.encoding <= new.encoding, _intsetValueEncoding(v) <= new.encoding,
           ReadsWith(new, is, pos, v)
    PROVE  IntsetOK(new) /\ Ints(new) = Ints(is) \cup {v}
<1> DEFINE n == is.length
           s == At(is)
           t == WithOne(s, n, pos, v)
<1>1. /\ n \in Nat /\ is.encoding \in Widths /\ new.encoding \in Widths
      /\ Ascends(s, n) /\ Narrow(s, n, is.encoding) /\ Ints(is) = InIt(s, n)
  <2>1. n \in Nat /\ is.encoding \in Widths
    BY DEF IntsetOK
  <2>2. new.encoding \in Widths
    BY DEF Shaped
  <2> QED BY <2>1, <2>2, IntsetIs
<1>2. Narrow(s, n, new.encoding)
  <2> SUFFICES ASSUME NEW p \in 0 .. n - 1
               PROVE  _intsetValueEncoding(s[p]) <= new.encoding
    BY DEF Narrow
  <2> HIDE DEF s
  <2>1. s[p] \in Int /\ _intsetValueEncoding(s[p]) <= is.encoding
    BY <1>1 DEF Ascends, Narrow
  <2>2. _intsetValueEncoding(s[p]) \in Widths
    BY <2>1, WidthOf
  <2> QED BY <1>1, <2>1, <2>2 DEF Widths
<1>3. /\ Ascends(t, n + 1)
      /\ InIt(t, n + 1) = InIt(s, n) \cup {v}
      /\ Narrow(t, n + 1, new.encoding)
  <2> HIDE DEF s, n
  <2>1. PlaceFor(s, n, pos, v)
    BY DEF s, n
  <2> QED BY <1>1, <1>2, <2>1, OneMore
<1>4. \A q \in 0 .. n : _intsetGet(new, q) = t[q]
  <2>1. \A q \in 0 .. n - 1 : s[q] = _intsetGet(is, q)
    BY DEF At
  <2>2. \A q \in 0 .. n : q < pos => s[q] = _intsetGet(is, q)
    BY <1>1, <2>1 DEF PlaceFor
  <2>3. \A q \in 0 .. n : q > pos => s[q - 1] = _intsetGet(is, q - 1)
    BY <1>1, <2>1 DEF PlaceFor
  <2>4. t = [q \in 0 .. n |-> IF q < pos THEN s[q] ELSE IF q = pos THEN v ELSE s[q - 1]]
    BY DEF WithOne
  <2>5. pos \in 0 .. n
    BY DEF PlaceFor
  <2> HIDE DEF s, t
  <2> QED BY <1>1, <2>2, <2>3, <2>4, <2>5 DEF ReadsWith
<1> HIDE DEF t, s
<1>5. 0 .. new.length - 1 = 0 .. n
  BY <1>1
<1> QED BY <1>1, <1>3, <1>4, <1>5, IntsetMade

\* An intset that was written anew with one integer less.
LEMMA TakenOut ==
    ASSUME NEW is, IntsetOK(is), NEW pos \in 0 .. is.length - 1,
           NEW new, Shaped(new), new.length = is.length - 1, new.encoding = is.encoding,
           ReadsWithout(new, is, pos)
    PROVE  IntsetOK(new) /\ Ints(new) = Ints(is) \ {_intsetGet(is, pos)}
<1> DEFINE n == is.length
           s == At(is)
           t == WithoutOne(s, n, pos)
<1>1. /\ n \in Nat /\ is.encoding \in Widths
      /\ Ascends(s, n) /\ Narrow(s, n, is.encoding) /\ Ints(is) = InIt(s, n)
      /\ \A q \in 0 .. n - 1 : s[q] = _intsetGet(is, q)
  <2>1. n \in Nat /\ is.encoding \in Widths
    BY DEF IntsetOK
  <2>2. \A q \in 0 .. n - 1 : s[q] = _intsetGet(is, q)
    BY DEF At
  <2> QED BY <2>1, <2>2, IntsetIs
<1>2. pos \in 0 .. n - 1
  OBVIOUS
<1>3. /\ Ascends(t, n - 1)
      /\ InIt(t, n - 1) = InIt(s, n) \ {s[pos]}
      /\ Narrow(t, n - 1, is.encoding)
  <2> HIDE DEF s, n
  <2> QED BY <1>1, <1>2, OneLess
<1>4. t = [q \in 0 .. n - 2 |-> IF q < pos THEN s[q] ELSE s[q + 1]]
  BY DEF WithoutOne
<1> HIDE DEF t, s
<1>5. \A q \in 0 .. n - 2 : _intsetGet(new, q) = t[q]
  BY <1>1, <1>2, <1>4 DEF ReadsWithout
<1>6. 0 .. new.length - 1 = 0 .. n - 2
  BY <1>1
<1> QED BY <1>1, <1>2, <1>3, <1>5, <1>6, IntsetMade

\* What a search found, in terms of the positions.
LEMMA SearchPlaces ==
    ASSUME NEW is, IntsetOK(is), NEW v \in Int
    PROVE  LET r == intsetSearch(is, v)
           IN  /\ r.found \in BOOLEAN
               /\ r.found <=> v \in Ints(is)
               /\ r.found => r.pos \in 0 .. is.length - 1 /\ _intsetGet(is, r.pos) = v
               /\ ~r.found => PlaceFor(At(is), is.length, r.pos, v)
<1> DEFINE r == intsetSearch(is, v)
<1>1. Right(is, v, r)
  BY SearchFinds
<1> HIDE DEF r
<1>2. is.length \in Nat /\ \A q \in 0 .. is.length - 1 : At(is)[q] = _intsetGet(is, q)
  BY DEF IntsetOK, At
<1>3. CASE r.found = TRUE
  <2>1. r.pos \in 0 .. is.length - 1 /\ _intsetGet(is, r.pos) = v
    BY <1>1, <1>3 DEF Right
  <2> QED BY <1>3, <2>1 DEF Ints, r
<1>4. CASE r.found = FALSE
  <2>1. /\ r.pos \in 0 .. is.length
        /\ \A q \in 0 .. r.pos - 1 : _intsetGet(is, q) < v
        /\ \A q \in r.pos .. is.length - 1 : _intsetGet(is, q) > v
    BY <1>1, <1>4 DEF Right
  <2>2. PlaceFor(At(is), is.length, r.pos, v)
    BY <1>2, <2>1 DEF PlaceFor
  <2>3. \A q \in 0 .. is.length - 1 : _intsetGet(is, q) # v
    <3> SUFFICES ASSUME NEW q \in 0 .. is.length - 1, _intsetGet(is, q) = v PROVE FALSE
      OBVIOUS
    <3>1. q \in 0 .. r.pos - 1 \/ q \in r.pos .. is.length - 1
      BY <1>2, <2>1
    <3> QED BY <2>1, <3>1
  <2> QED BY <1>4, <2>2, <2>3 DEF Ints, r
<1> QED BY <1>1, <1>3, <1>4 DEF Right, r

\* An integer wider than a set is not in it, and below or above all of it.
LEMMA TooWide ==
    ASSUME NEW is, IntsetOK(is), NEW v \in Int, is.encoding < _intsetValueEncoding(v)
    PROVE  PlaceFor(At(is), is.length, IF v < 0 THEN 0 ELSE is.length, v) /\ v \notin Ints(is)
<1>1. /\ is.length \in Nat /\ is.encoding \in Widths
      /\ \A q \in 0 .. is.length - 1 :
            /\ At(is)[q] = _intsetGet(is, q) /\ _intsetGet(is, q) \in Int
            /\ _intsetValueEncoding(_intsetGet(is, q)) <= is.encoding
  BY DEF IntsetOK, At
<1>2. ASSUME NEW w \in Int, _intsetValueEncoding(w) <= is.encoding
      PROVE  IF v < 0 THEN v < w ELSE w < v
  <2>1. is.encoding = 1 \/ is.encoding = 2
    BY <1>1, WidthOf DEF Widths
  <2>2. /\ is.encoding = 1 => Fits(w, Int16Bound) /\ ~Fits(v, Int16Bound)
        /\ is.encoding = 2 => Fits(w, Int32Bound) /\ ~Fits(v, Int32Bound)
    BY <1>2, WidthOf, IntsetAssumption DEF Widths, Fits
  <2> QED BY <2>1, <2>2, IntsetAssumption DEF Fits
<1>3. \A q \in 0 .. is.length - 1 : IF v < 0 THEN v < _intsetGet(is, q)
                                   ELSE _intsetGet(is, q) < v
  BY <1>1, <1>2
<1>4. v \notin Ints(is)
  <2> SUFFICES ASSUME NEW q \in 0 .. is.length - 1, v = _intsetGet(is, q) PROVE FALSE
    BY DEF Ints
  <2> QED BY <1>1, <1>3
<1> DEFINE pos == IF v < 0 THEN 0 ELSE is.length
<1>5. /\ pos \in 0 .. is.length
      /\ \A q \in 0 .. pos - 1 : _intsetGet(is, q) < v
      /\ \A q \in pos .. is.length - 1 : _intsetGet(is, q) > v
  BY <1>1, <1>3
<1> HIDE DEF pos
<1>6. PlaceFor(At(is), is.length, pos, v)
  <2>1. \A q \in 0 .. pos - 1 : At(is)[q] = _intsetGet(is, q)
    BY <1>1, <1>5
  <2>2. \A q \in pos .. is.length - 1 : At(is)[q] = _intsetGet(is, q)
    BY <1>1, <1>5
  <2> QED BY <1>5, <2>1, <2>2 DEF PlaceFor
<1> QED BY <1>4, <1>6 DEF pos

\* The in-place upgrade loses nothing and keeps the order.
LEMMA UpgradeHolds ==
    ASSUME NEW is, IntsetOK(is), NEW v \in Int, is.encoding < _intsetValueEncoding(v)
    PROVE  LET new == intsetUpgradeAndAdd(is, v)
           IN  IntsetOK(new) /\ Ints(new) = Ints(is) \cup {v} /\ new.length = is.length + 1
<1> DEFINE new == intsetUpgradeAndAdd(is, v)
           n == is.length
           f == _intsetValueEncoding(v)
           prepend == IF v < 0 THEN 1 ELSE 0
           pos == IF v < 0 THEN 0 ELSE n
           old == is.contents
           c == Rewritten(is, f, prepend)
           d == _intsetSet(c, pos, f, v)
<1>1. /\ n \in Nat /\ is.encoding \in Widths /\ f \in Widths /\ is.encoding < f
      /\ DOMAIN old = Block(is.encoding, n) /\ prepend \in {0, 1} /\ pos \in 0 .. n
  BY WidthOf DEF IntsetOK, Block
<1>2. RewrittenBehind(old, is.encoding, n, f, prepend, 0, c)
  BY <1>1, RewritingHolds
<1>3. new = [encoding |-> f, length |-> n + 1, contents |-> d]
  BY DEF intsetUpgradeAndAdd
<1>4. \A q \in 0 .. n : q < pos \/ q = pos \/ q > pos
  BY <1>1
<1>5. /\ prepend = 1 => pos = 0
      /\ prepend = 0 => pos = n
  OBVIOUS
<1>6. PlaceFor(At(is), n, pos, v)
  BY TooWide
<1> HIDE DEF c, d, f, n, old, prepend, pos, new
<1>7. /\ DOMAIN c = Block(f, n + 1)
      /\ \A q \in 0 .. n - 1 :
            _intsetGetEncoded(c, q + prepend, f) = _intsetGetEncoded(old, q, is.encoding)
  BY <1>2 DEF RewrittenBehind
<1>8. \A q \in 0 .. n : Cell(f, q) \subseteq DOMAIN c
  BY <1>1, <1>7, Cells
<1>9. /\ DOMAIN d = Block(f, n + 1) /\ _intsetGetEncoded(d, pos, f) = v
      /\ d = [u \in DOMAIN d |-> d[u]]
  <2>1. DOMAIN d = Block(f, n + 1) /\ _intsetGetEncoded(d, pos, f) = v
    BY <1>1, <1>7, <1>8, SetReads DEF d
  <2>2. d = [u \in DOMAIN d |-> d[u]]
    BY DEF d, _intsetSet
  <2> QED BY <2>1, <2>2
<1>10. \A q \in 0 .. n : q # pos => _intsetGetEncoded(d, q, f) = _intsetGetEncoded(c, q, f)
  BY <1>1, <1>8, SetElsewhere DEF d
<1>11. /\ Shaped(new) /\ new.length = n + 1 /\ new.encoding = f
       /\ \A q \in 0 .. n : _intsetGet(new, q) = _intsetGetEncoded(d, q, f)
       /\ \A q \in 0 .. n - 1 : _intsetGet(is, q) = _intsetGetEncoded(old, q, is.encoding)
  <2>1. Shaped(new)
    <3>1. n + 1 \in Nat /\ f \in Widths /\ d = [u \in Block(f, n + 1) |-> d[u]]
      BY <1>1, <1>9
    <3> QED BY <1>3, <3>1, ShapedAs
  <2> QED BY <2>1, <1>3 DEF _intsetGet, old
<1>12. ASSUME NEW q \in 0 .. n
       PROVE  _intsetGet(new, q) = IF q < pos THEN _intsetGet(is, q)
                                   ELSE IF q = pos THEN v ELSE _intsetGet(is, q - 1)
  <2>1. CASE q < pos
    <3>1. prepend = 0 /\ q \in 0 .. n - 1 /\ q # pos /\ q + prepend = q
      BY <1>1, <1>5, <2>1
    <3>2. _intsetGetEncoded(c, q, f) = _intsetGetEncoded(old, q, is.encoding)
      BY <1>7, <3>1
    <3> QED BY <1>10, <1>11, <2>1, <3>1, <3>2
  <2>2. CASE q = pos
    BY <1>1, <1>9, <1>11, <2>2
  <2>3. CASE q > pos
    <3>1. prepend = 1 /\ q - 1 \in 0 .. n - 1 /\ q # pos /\ (q - 1) + prepend = q
      BY <1>1, <1>5, <2>3
    <3>2. _intsetGetEncoded(c, q, f) = _intsetGetEncoded(old, q - 1, is.encoding)
      BY <1>7, <3>1
    <3> QED BY <1>1, <1>10, <1>11, <2>3, <3>1, <3>2
  <2> QED BY <1>4, <2>1, <2>2, <2>3
<1>13. IntsetOK(new) /\ Ints(new) = Ints(is) \cup {v}
  <2>1. is.encoding <= new.encoding /\ _intsetValueEncoding(v) <= new.encoding
    BY <1>1, <1>11 DEF Widths, f
  <2>2. ReadsWith(new, is, pos, v)
    BY <1>12 DEF ReadsWith, n
  <2>3. PlaceFor(At(is), is.length, pos, v) /\ Shaped(new) /\ new.length = is.length + 1
    BY <1>6, <1>11 DEF n
  <2> QED BY <2>1, <2>2, <2>3, Inserted
<1> QED BY <1>11, <1>13 DEF new, n

\* An intset has three fields.
LEMMA RecordOf ==
    ASSUME NEW is, IntsetOK(is), NEW d, NEW n
    PROVE  [is EXCEPT !.length = n, !.contents = d] =
              [encoding |-> is.encoding, length |-> n, contents |-> d]
<1> DEFINE old == is.contents
           one == [is EXCEPT !.length = n]
<1>1. is \in [encoding : Widths, length : Nat, contents : {old}]
  BY DEF IntsetOK
<1> HIDE DEF old
<1>2. one = [encoding |-> is.encoding, length |-> n, contents |-> old]
  BY <1>1
<1>3. [is EXCEPT !.length = n, !.contents = d] = [one EXCEPT !.contents = d]
  OBVIOUS
<1> HIDE DEF one
<1> QED BY <1>2, <1>3

\* intsetAdd adds, and changes nothing if it is there.
LEMMA AddHolds ==
    ASSUME NEW is, IntsetOK(is), NEW v \in Int
    PROVE  LET new == intsetAdd(is, v)
           IN  /\ IntsetOK(new) /\ Ints(new) = Ints(is) \cup {v}
               /\ v \in Ints(is) => new = is
               /\ v \notin Ints(is) => new.length = is.length + 1
<1> DEFINE r == intsetSearch(is, v)
           n == is.length
           e == is.encoding
           c == intsetResize(is.contents, n + 1, e)
           room == IF r.pos < n THEN intsetMoveTail(is, c, r.pos, r.pos + 1) ELSE c
           d == _intsetSet(room, r.pos, e, v)
           new == [is EXCEPT !.length = @ + 1, !.contents = d]
<1>1. intsetAdd(is, v) = IF _intsetValueEncoding(v) > e THEN intsetUpgradeAndAdd(is, v)
                         ELSE IF r.found THEN is ELSE new
  BY DEF intsetAdd
<1>2. /\ r.found <=> v \in Ints(is)
      /\ ~r.found => PlaceFor(At(is), n, r.pos, v)
  BY SearchPlaces
<1>3. n \in Nat /\ e \in Widths /\ DOMAIN is.contents = Block(e, n)
      /\ is \in [encoding : Widths, length : Nat, contents : {is.contents}]
  BY DEF IntsetOK, Block
<1>4. _intsetValueEncoding(v) \in Widths
  BY WidthOf
<1>5. CASE _intsetValueEncoding(v) > e
  <2>1. intsetAdd(is, v) = intsetUpgradeAndAdd(is, v)
    BY <1>1, <1>5
  <2>2. e < _intsetValueEncoding(v)
    BY <1>3, <1>4, <1>5 DEF Widths
  <2> HIDE DEF new
  <2> QED BY <2>1, <2>2, UpgradeHolds, TooWide
<1>6. CASE ~(_intsetValueEncoding(v) > e) /\ r.found
  <2>1. intsetAdd(is, v) = is /\ v \in Ints(is)
    BY <1>1, <1>2, <1>6
  <2> QED BY <2>1
<1>7. CASE ~(_intsetValueEncoding(v) > e) /\ ~r.found
  <2>1. intsetAdd(is, v) = new /\ v \notin Ints(is) /\ PlaceFor(At(is), n, r.pos, v)
    BY <1>1, <1>2, <1>7
  <2>2. r.pos \in 0 .. n
    BY <2>1 DEF PlaceFor
  <2> HIDE DEF r
  <2>3. new = [encoding |-> e, length |-> n + 1, contents |-> d]
    <3> HIDE DEF d
    <3> QED BY RecordOf
  <2> HIDE DEF new, d, room, c
  <2>4. DOMAIN c = Block(e, n + 1)
    BY DEF c, intsetResize, Block
  <2>5. DOMAIN room = Block(e, n + 1)
    BY <2>4 DEF room, intsetMoveTail
  <2>6. \A q \in 0 .. n : Cell(e, q) \subseteq Block(e, n + 1)
    <3> HIDE DEF n, e
    <3> QED BY <1>3, Cells
  <2>7. ASSUME NEW q \in 0 .. n, q # r.pos
        PROVE  LET p == IF q < r.pos THEN q ELSE q - 1
               IN  /\ p \in 0 .. n - 1
                   /\ _intsetGetEncoded(d, q, e) = _intsetGetEncoded(is.contents, p, e)
    <3> DEFINE p == IF q < r.pos THEN q ELSE q - 1
    <3>1. p \in 0 .. n - 1
      BY <1>3, <2>2, <2>7
    <3>2. _intsetGetEncoded(d, q, e) = _intsetGetEncoded(room, q, e)
      <4> HIDE DEF n, e
      <4> QED BY <1>3, <2>2, <2>5, <2>6, <2>7, SetElsewhere DEF d
    <3>3. _intsetGetEncoded(room, q, e) = _intsetGetEncoded(c, p, e)
      <4>1. CASE r.pos < n
        <5>1. room = intsetMoveTail(is, c, r.pos, r.pos + 1)
          BY <4>1 DEF room
        <5>2. p = IF q \in r.pos + 1 .. (r.pos + 1) + (n - r.pos) - 1
                  THEN q - (r.pos + 1) + r.pos ELSE q
          BY <1>3, <2>2, <2>7
        <5>3. Cell(e, q) \subseteq DOMAIN c /\ q \in Nat /\ r.pos + 1 \in Nat /\ r.pos \in 0 .. n
          BY <1>3, <2>2, <2>4, <2>6
        <5> HIDE DEF p
        <5> QED BY <1>3, <5>1, <5>2, <5>3, MoveReads
      <4>2. CASE ~(r.pos < n)
        BY <1>3, <2>2, <2>7, <4>2 DEF room
      <4> QED BY <4>1, <4>2
    <3>4. _intsetGetEncoded(c, p, e) = _intsetGetEncoded(is.contents, p, e)
      <4> HIDE DEF n, e, p
      <4>1. Cell(e, p) \subseteq Block(e, n) /\ Cell(e, p) \subseteq Block(e, n + 1)
        BY <1>3, <3>1, <2>6, Cells
      <4> QED BY <1>3, <3>1, <4>1, ResizeKeeps DEF c
    <3> QED BY <3>1, <3>2, <3>3, <3>4
  <2>8. DOMAIN d = Block(e, n + 1) /\ _intsetGetEncoded(d, r.pos, e) = v
    <3> HIDE DEF n, e
    <3> QED BY <1>3, <2>2, <2>5, <2>6, SetReads DEF d
  <2>12. d = [u \in DOMAIN d |-> d[u]]
    BY DEF d, _intsetSet
  <2>9. /\ Shaped(new) /\ new.length = n + 1 /\ new.encoding = e
        /\ \A q \in 0 .. n : _intsetGet(new, q) = _intsetGetEncoded(d, q, e)
        /\ \A q \in 0 .. n - 1 : _intsetGet(is, q) = _intsetGetEncoded(is.contents, q, e)
    <3>1. n + 1 \in Nat /\ e \in Widths /\ d = [u \in Block(e, n + 1) |-> d[u]]
      BY <1>3, <2>8, <2>12
    <3>2. Shaped(new)
      <4> HIDE DEF n, e
      <4> QED BY <2>3, <3>1, ShapedAs
    <3> QED BY <2>3, <3>2 DEF _intsetGet
  <2>10. ASSUME NEW q \in 0 .. n
         PROVE  _intsetGet(new, q) = IF q < r.pos THEN _intsetGet(is, q)
                                     ELSE IF q = r.pos THEN v ELSE _intsetGet(is, q - 1)
    <3>1. CASE q = r.pos
      BY <2>2, <2>8, <2>9, <3>1
    <3>2. CASE q # r.pos
      BY <2>7, <2>9, <3>2
    <3> QED BY <3>1, <3>2
  <2>11. IntsetOK(new) /\ Ints(new) = Ints(is) \cup {v}
    <3>1. is.encoding <= new.encoding /\ _intsetValueEncoding(v) <= new.encoding
      BY <1>3, <1>4, <1>7, <2>9 DEF Widths
    <3>2. ReadsWith(new, is, r.pos, v)
      BY <2>10 DEF ReadsWith
    <3> QED BY <2>1, <2>9, <3>1, <3>2, Inserted
  <2> QED BY <2>1, <2>9, <2>11
<1> QED BY <1>5, <1>6, <1>7

\* intsetFind finds what is there.
LEMMA FindHolds ==
    ASSUME NEW is, IntsetOK(is), NEW v \in Int
    PROVE  intsetFind(is, v) <=> v \in Ints(is)
<1>1. intsetSearch(is, v).found <=> v \in Ints(is)
  BY SearchPlaces
<1>2. v \in Ints(is) => _intsetValueEncoding(v) <= is.encoding
  BY DEF Ints, IntsetOK
<1> QED BY <1>1, <1>2 DEF intsetFind

\* intsetRemove removes, and changes nothing if it is not there.
LEMMA RemoveHolds ==
    ASSUME NEW is, IntsetOK(is), NEW v \in Int
    PROVE  LET new == intsetRemove(is, v)
           IN  /\ IntsetOK(new) /\ Ints(new) = Ints(is) \ {v}
               /\ v \notin Ints(is) => new = is
               /\ v \in Ints(is) => new.length = is.length - 1
<1> DEFINE r == intsetSearch(is, v)
           n == is.length
           e == is.encoding
           moved == IF r.pos < n - 1 THEN intsetMoveTail(is, is.contents, r.pos + 1, r.pos)
                    ELSE is.contents
           d == intsetResize(moved, n - 1, e)
           new == [is EXCEPT !.length = @ - 1, !.contents = d]
<1>1. intsetRemove(is, v) = IF ~intsetFind(is, v) THEN is ELSE new
  BY DEF intsetRemove
<1>2. CASE v \notin Ints(is)
  <2>1. intsetRemove(is, v) = is
    BY <1>1, <1>2, FindHolds
  <2> QED BY <1>2, <2>1
<1>3. CASE v \in Ints(is)
  <2>1. intsetRemove(is, v) = new
    BY <1>1, <1>3, FindHolds
  <2>2. r.pos \in 0 .. n - 1 /\ _intsetGet(is, r.pos) = v
    BY <1>3, SearchPlaces
  <2>3. n \in Nat /\ e \in Widths /\ DOMAIN is.contents = Block(e, n)
        /\ is \in [encoding : Widths, length : Nat, contents : {is.contents}]
    BY DEF IntsetOK, Block
  <2> HIDE DEF r
  <2>4. /\ new = [encoding |-> e, length |-> n - 1, contents |-> d] /\ n - 1 \in Nat
        /\ \A q \in 0 .. n - 2 : q \in Nat /\ q < n - 1 /\ q \in 0 .. n - 1
    <3>1. new = [encoding |-> e, length |-> n - 1, contents |-> d]
      <4> HIDE DEF d
      <4> QED BY RecordOf
    <3> HIDE DEF new, n
    <3> QED BY <2>2, <2>3, <3>1
  <2> HIDE DEF new, d, moved
  <2>5. DOMAIN moved = Block(e, n)
    BY <2>3 DEF moved, intsetMoveTail
  <2>6. DOMAIN d = Block(e, n - 1) /\ d = [u \in DOMAIN d |-> d[u]]
    BY DEF d, intsetResize, Block
  <2>7. \A q \in 0 .. n - 1 : Cell(e, q) \subseteq Block(e, n)
    <3> HIDE DEF n, e
    <3> QED BY <2>3, Cells
  <2>8. \A q \in 0 .. n - 2 : Cell(e, q) \subseteq Block(e, n - 1)
    <3> HIDE DEF n, e
    <3> QED BY <2>3, <2>4, Cells
  <2>9. ASSUME NEW q \in 0 .. n - 2
        PROVE  LET p == IF q < r.pos THEN q ELSE q + 1
               IN  _intsetGetEncoded(d, q, e) = _intsetGetEncoded(is.contents, p, e)
    <3> DEFINE p == IF q < r.pos THEN q ELSE q + 1
    <3>1. _intsetGetEncoded(d, q, e) = _intsetGetEncoded(moved, q, e)
      <4>1. q \in Nat /\ q \in 0 .. n - 1 /\ n - 1 \in Nat
        BY <2>4
      <4> HIDE DEF n, e
      <4>2. Cell(e, q) \subseteq Block(e, n) /\ Cell(e, q) \subseteq Block(e, n - 1)
        BY <2>7, <2>8, <4>1
      <4> QED BY <2>3, <2>5, <4>1, <4>2, ResizeKeeps DEF d
    <3>2. CASE r.pos < n - 1
      <4>1. moved = intsetMoveTail(is, is.contents, r.pos + 1, r.pos)
        BY <3>2 DEF moved
      <4>2. p = IF q \in r.pos .. r.pos + (n - (r.pos + 1)) - 1
                THEN q - r.pos + (r.pos + 1) ELSE q
        BY <2>2, <2>3
      <4>3. /\ Cell(e, q) \subseteq DOMAIN is.contents /\ q \in Nat
            /\ r.pos \in Nat /\ r.pos + 1 \in 0 .. n
        BY <2>2, <2>3, <2>7
      <4> HIDE DEF p
      <4>4. _intsetGetEncoded(moved, q, e) = _intsetGetEncoded(is.contents, p, e)
        BY <2>3, <4>1, <4>2, <4>3, MoveReads
      <4> QED BY <3>1, <4>4 DEF p
    <3>3. CASE ~(r.pos < n - 1)
      <4>1. moved = is.contents /\ q < r.pos
        BY <2>2, <2>3, <3>3 DEF moved
      <4> QED BY <3>1, <4>1
    <3> QED BY <3>2, <3>3
  <2>10. /\ Shaped(new) /\ new.length = n - 1 /\ new.encoding = e
         /\ \A q \in 0 .. n - 2 : _intsetGet(new, q) = _intsetGetEncoded(d, q, e)
         /\ \A q \in 0 .. n - 1 : _intsetGet(is, q) = _intsetGetEncoded(is.contents, q, e)
    <3>1. n - 1 \in Nat /\ e \in Widths /\ d = [u \in Block(e, n - 1) |-> d[u]]
      BY <2>3, <2>4, <2>6
    <3>2. Shaped(new)
      <4> HIDE DEF n, e
      <4> QED BY <2>4, <3>1, ShapedAs
    <3> QED BY <2>4, <3>2 DEF _intsetGet
  <2>11. ASSUME NEW q \in 0 .. n - 2
         PROVE  _intsetGet(new, q) = IF q < r.pos THEN _intsetGet(is, q)
                                     ELSE _intsetGet(is, q + 1)
    <3>1. q \in 0 .. n - 1 /\ q + 1 \in 0 .. n - 1
      BY <2>3
    <3> QED BY <2>9, <2>10, <3>1
  <2>12. IntsetOK(new) /\ Ints(new) = Ints(is) \ {v}
    <3>1. ReadsWithout(new, is, r.pos)
      BY <2>11 DEF ReadsWithout
    <3> QED BY <2>2, <2>10, <3>1, TakenOut
  <2> QED BY <1>3, <2>1, <2>10, <2>12
<1> QED BY <1>2, <1>3

\* A new intset is one, with nothing in it.
LEMMA NewIntset == IntsetOK(intsetNew) /\ Ints(intsetNew) = {} /\ intsetNew.length = 0
<1> DEFINE is == [encoding |-> 1, length |-> 0, contents |-> <<>>]
<1>1. is = intsetNew
  BY DEF intsetNew, INTSET_ENC_INT16
<1>2. is \in [encoding : Widths, length : Nat, contents : {is.contents}]
  BY DEF Widths
<1>3. is.contents = [u \in 1 .. is.length * is.encoding |-> is.contents[u]]
  OBVIOUS
<1>4. 0 .. is.length - 1 = {} /\ is.length = 0
  OBVIOUS
<1> HIDE DEF is
<1>5. IntsetOK(is) /\ Ints(is) = {}
  BY <1>2, <1>3, <1>4 DEF IntsetOK, Ints
<1> QED BY <1>1, <1>4, <1>5

\* Whoever reads an intset finds whole integers in order.
LEMMA IntsetWhole == ASSUME NEW is, IntsetOK(is) PROVE WholeAndInOrder(is)
<1>1. is.length \in Nat
  BY DEF IntsetOK
<1>2. \A i \in 1 .. is.length :
         /\ Integers64(is)[i] = _intsetGet(is, i - 1)
         /\ i - 1 \in 0 .. is.length - 1
  BY <1>1 DEF Integers64
<1>3. \A i \in 1 .. is.length : Integers64(is)[i] # Garbage
  BY <1>2, IntsetAssumption DEF IntsetOK
<1>4. ASSUME NEW i \in 1 .. is.length - 1 PROVE Integers64(is)[i] < Integers64(is)[i + 1]
  <2>1. /\ Integers64(is)[i] = _intsetGet(is, i - 1) /\ Integers64(is)[i + 1] = _intsetGet(is, i)
        /\ i - 1 \in 0 .. is.length - 1 /\ i \in 0 .. is.length - 1 /\ i - 1 < i
    <3>1. i \in 1 .. is.length /\ i + 1 \in 1 .. is.length /\ (i + 1) - 1 = i
      BY <1>1
    <3>2. i - 1 < i
      OBVIOUS
    <3> QED BY <1>2, <3>1, <3>2
  <2> QED BY <2>1 DEF IntsetOK
<1> QED BY <1>3, <1>4 DEF WholeAndInOrder

\* Every unit of a block belongs to an integer.
LEMMA UnitOf ==
    ASSUME NEW e \in Widths, NEW n \in Nat, NEW u \in 1 .. n * e
    PROVE  \E p \in 0 .. n - 1, i \in 1 .. e : u = p * e + i
<1>1. CASE e = 1
  <2>1. u - 1 \in 0 .. n - 1 /\ u = (u - 1) * e + 1 /\ 1 \in 1 .. e
    BY <1>1
  <2> QED BY <2>1
<1>2. ASSUME NEW k \in {2, 4}, e = k PROVE \E p \in 0 .. n - 1, i \in 1 .. e : u = p * e + i
  <2> DEFINE p == (u - 1) \div k
             i == u - p * k
  <2>1. u \in Int /\ 1 <= u /\ u <= n * k
    BY <1>2
  <2>2. p \in Int /\ p * k <= u - 1 /\ u - 1 < p * k + k
    <3>1. CASE k = 2
      BY <2>1, <3>1
    <3>2. CASE k = 4
      BY <2>1, <3>2
    <3> QED BY <3>1, <3>2
  <2> HIDE DEF p
  <2>3. p \in 0 .. n - 1 /\ i \in 1 .. e /\ u = p * e + i
    BY <1>2, <2>1, <2>2
  <2> QED BY <2>3
<1> QED BY <1>1, <1>2 DEF Widths

\* The units of an intset are those of integers.
LEMMA IntsetTyped == ASSUME NEW is, IntsetOK(is) PROVE is \in Intsets
<1> DEFINE n == is.length
           e == is.encoding
           c == is.contents
           Unit == [val : Int, enc : 1 .. 4, at : 1 .. 4]
<1>1. /\ is \in [encoding : Widths, length : Nat, contents : {c}]
      /\ n \in Nat /\ e \in Widths /\ c = [u \in 1 .. n * e |-> c[u]]
      /\ \A p \in 0 .. n - 1 : _intsetGetEncoded(c, p, e) \in Int
  BY DEF IntsetOK, _intsetGet
<1> HIDE DEF n, e, c
<1>2. ASSUME NEW u \in 1 .. n * e PROVE c[u] \in Unit
  <2>1. PICK p \in 0 .. n - 1, i \in 1 .. e : u = p * e + i
    BY <1>1, UnitOf
  <2>2. _intsetGetEncoded(c, p, e) \in Int
    BY <1>1, <2>1
  <2>3. \E v \in Int : c[p * e + i] = [val |-> v, enc |-> e, at |-> i]
    BY <2>1, <2>2, IntsetAssumption DEF _intsetGetEncoded
  <2>4. e \in 1 .. 4 /\ i \in 1 .. 4
    BY <1>1 DEF Widths
  <2> QED BY <2>1, <2>3, <2>4
<1>3. n * e \in Nat
  BY <1>1 DEF Widths
<1>4. c \in [1 .. n * e -> Unit]
  <2> HIDE DEF Unit
  <2> QED BY <1>1, <1>2
<1>5. c \in Seq(Unit)
  <2> HIDE DEF Unit
  <2> QED BY <1>3, <1>4
<1>6. e \in {INTSET_ENC_INT16, INTSET_ENC_INT32, INTSET_ENC_INT64}
  BY <1>1 DEF Widths, INTSET_ENC_INT16, INTSET_ENC_INT32, INTSET_ENC_INT64
<1> HIDE DEF Unit
<1> QED BY <1>1, <1>5, <1>6 DEF Intsets, n, e, c, Unit

\* The length counts the integers.
LEMMA IntsCounted ==
    ASSUME NEW is, IntsetOK(is)
    PROVE  /\ IsFiniteSet(Ints(is)) /\ Cardinality(Ints(is)) = is.length
           /\ ToSet(Integers64(is)) = Ints(is)
<1> DEFINE n == is.length
           f == Integers64(is)
<1>1. n \in Nat /\ f = [i \in 1 .. n |-> _intsetGet(is, i - 1)]
  BY DEF IntsetOK, Integers64
<1>2. /\ \A p \in 0 .. n - 1 : _intsetGet(is, p) \in Int
      /\ \A p, q \in 0 .. n - 1 : p < q => _intsetGet(is, p) < _intsetGet(is, q)
  BY DEF IntsetOK
<1> HIDE DEF f, n
<1>3. \A i \in 1 .. n : f[i] = _intsetGet(is, i - 1) /\ i - 1 \in 0 .. n - 1
  BY <1>1
<1>4. \A p \in 0 .. n - 1 : p + 1 \in 1 .. n /\ f[p + 1] = _intsetGet(is, p)
  BY <1>1
<1>5. Ints(is) = {f[i] : i \in 1 .. n}
  <2>1. Ints(is) = {_intsetGet(is, p) : p \in 0 .. n - 1}
    BY DEF Ints, n
  <2> QED BY <1>3, <1>4, <2>1
<1>6. DOMAIN f = 1 .. n
  BY <1>1
<1>7. ASSUME NEW i \in 1 .. n, NEW j \in 1 .. n, i # j PROVE f[i] # f[j]
  <2>1. f[i] = _intsetGet(is, i - 1) /\ f[j] = _intsetGet(is, j - 1)
        /\ i - 1 \in 0 .. n - 1 /\ j - 1 \in 0 .. n - 1
    BY <1>3
  <2>2. i - 1 < j - 1 \/ j - 1 < i - 1
    BY <1>1, <1>7
  <2> QED BY <1>2, <2>1, <2>2
<1>8. f \in Bijection(1 .. n, Ints(is))
  <2>1. f \in [1 .. n -> Ints(is)]
    BY <1>1, <1>5, <1>6
  <2>2. f \in Injection(1 .. n, Ints(is))
    BY <1>6, <1>7, <2>1 DEF Injection, IsInjective
  <2>3. f \in Surjection(1 .. n, Ints(is))
    BY <1>5, <2>1 DEF Surjection
  <2> QED BY <2>2, <2>3 DEF Bijection
<1>9. ExistsBijection(1 .. n, Ints(is))
  BY <1>8 DEF ExistsBijection
<1>10. IsFiniteSet(Ints(is)) /\ Cardinality(Ints(is)) = n
  BY <1>1, <1>9, FS_NatBijection, FS_CountingElements
<1>11. ToSet(f) = Ints(is)
  BY <1>5, <1>6 DEF ToSet
<1> QED BY <1>10, <1>11 DEF n, f

-----------------------------------------------------------------------------
(* Sets.                                                                   *)

SetOK(set) ==
    \/ /\ set = [enc |-> INTSET, ptr |-> set.ptr]
       /\ IntsetOK(set.ptr) /\ set.ptr.length <= set_max_intset_entries
       /\ Ints(set.ptr) \subseteq MemberIntegers
    \/ /\ set = [enc |-> DICT, ptr |-> set.ptr]
       /\ IsFiniteSet(set.ptr) /\ set.ptr \subseteq SetMembers

\* Both encodings as sets of members.
LEMMA SetIs ==
    ASSUME NEW set, SetOK(set)
    PROVE  /\ MembersOf(set) \subseteq SetMembers /\ IsFiniteSet(MembersOf(set))
           /\ setTypeSize(set) = Cardinality(MembersOf(set))
           /\ \A e \in SetMembers : setTypeIsMember(set, e) <=> e \in MembersOf(set)
           /\ IsIntset(set) => /\ WholeAndInOrder(set.ptr) /\ MembersOf(set) = Ints(set.ptr)
                               /\ IntsetOK(set.ptr) /\ set.ptr.length <= set_max_intset_entries
                               /\ set.ptr \in Intsets
           /\ set \in SetValues
<1>1. CASE set = [enc |-> INTSET, ptr |-> set.ptr] /\ IntsetOK(set.ptr)
           /\ set.ptr.length <= set_max_intset_entries /\ Ints(set.ptr) \subseteq MemberIntegers
  <2>1. IsIntset(set)
    BY <1>1 DEF IsIntset
  <2>2. MembersOf(set) = Ints(set.ptr) /\ setTypeSize(set) = Cardinality(Ints(set.ptr))
        /\ IsFiniteSet(Ints(set.ptr))
    BY <1>1, <2>1, IntsCounted DEF MembersOf, setTypeSize
  <2>3. ASSUME NEW e \in SetMembers
        PROVE  setTypeIsMember(set, e) <=> e \in MembersOf(set)
    <3>1. setTypeIsMember(set, e) <=> e \in MemberIntegers /\ intsetFind(set.ptr, e)
      BY <2>1 DEF setTypeIsMember
    <3>2. e \in MemberIntegers => e \in Int
      BY SetsAssumption
    <3> QED BY <1>1, <2>2, <3>1, <3>2, FindHolds
  <2>4. set \in SetValues
    <3>1. set.ptr \in Intsets
      BY <1>1, IntsetTyped
    <3> HIDE DEF SetOK
    <3> DEFINE ptr == set.ptr
    <3>2. set = [enc |-> INTSET, ptr |-> ptr] /\ ptr \in Intsets
      BY <1>1, <3>1
    <3> HIDE DEF ptr
    <3> QED BY <3>2 DEF SetValues
  <2>5. Ints(set.ptr) \subseteq SetMembers
    BY <1>1, SetsAssumption
  <2> QED BY <1>1, <2>2, <2>3, <2>4, <2>5, IntsetWhole, IntsetTyped
<1>2. CASE set = [enc |-> DICT, ptr |-> set.ptr] /\ IsFiniteSet(set.ptr)
           /\ set.ptr \subseteq SetMembers
  <2>1. ~IsIntset(set)
    BY <1>2 DEF IsIntset, INTSET, DICT
  <2>2. set \in SetValues
    <3> DEFINE ptr == set.ptr
    <3>2. set = [enc |-> DICT, ptr |-> ptr] /\ ptr \in SUBSET SetMembers
      BY <1>2
    <3> HIDE DEF ptr
    <3> QED BY <3>2 DEF SetValues
  <2> QED BY <1>2, <2>1, <2>2 DEF MembersOf, setTypeSize, setTypeIsMember
<1> QED BY <1>1, <1>2 DEF SetOK

\* A set kept as a dict.
LEMMA DictOK ==
    ASSUME NEW S, S \subseteq SetMembers, IsFiniteSet(S)
    PROVE  LET set == [enc |-> DICT, ptr |-> S]
           IN  SetOK(set) /\ MembersOf(set) = S
BY DEF SetOK, MembersOf, IsIntset, INTSET, DICT

\* A set kept as an intset.
LEMMA IntsetSetOK ==
    ASSUME NEW is, IntsetOK(is), is.length <= set_max_intset_entries,
           Ints(is) \subseteq MemberIntegers
    PROVE  LET set == [enc |-> INTSET, ptr |-> is]
           IN  SetOK(set) /\ MembersOf(set) = Ints(is)
BY IntsCounted DEF SetOK, MembersOf, IsIntset

\* New sets are empty, whichever encoding they start with.
LEMMA Created ==
    /\ SetOK(createIntsetObject) /\ MembersOf(createIntsetObject) = {}
    /\ \A e \in SetMembers : SetOK(setTypeCreate(e)) /\ MembersOf(setTypeCreate(e)) = {}
<1>1. SetOK(createIntsetObject) /\ MembersOf(createIntsetObject) = {}
  <2>1. intsetNew.length <= set_max_intset_entries
    BY NewIntset, SetsAssumption
  <2> QED BY <2>1, NewIntset, IntsetSetOK DEF createIntsetObject
<1>2. SetOK(createSetObject) /\ MembersOf(createSetObject) = {}
  BY DictOK, FS_EmptySet DEF createSetObject
<1> QED BY <1>1, <1>2 DEF setTypeCreate

\* A member more, whatever becomes of the encoding.
LEMMA SetAdd ==
    ASSUME NEW set, SetOK(set), NEW e \in SetMembers
    PROVE  /\ SetOK(setTypeAdd(set, e))
           /\ MembersOf(setTypeAdd(set, e)) = MembersOf(set) \cup {e}
<1>1. /\ MembersOf(set) \cup {e} \subseteq SetMembers
      /\ IsFiniteSet(MembersOf(set) \cup {e})
  BY SetIs, FS_AddElement
<1>2. CASE IsIntset(set)
  <2> DEFINE is == intsetAdd(set.ptr, e)
             new == [set EXCEPT !.ptr = is]
  <2>1. /\ setTypeAdd(set, e) = IF e \notin MemberIntegers
                                THEN [enc |-> DICT, ptr |-> MembersOf(set) \cup {e}]
                                ELSE IF is.length > set_max_intset_entries
                                THEN setTypeConvert(new) ELSE new
    BY <1>2 DEF setTypeAdd
  <2>2. /\ set = [enc |-> INTSET, ptr |-> set.ptr] /\ IntsetOK(set.ptr)
        /\ Ints(set.ptr) \subseteq MemberIntegers
        /\ MembersOf(set) = Ints(set.ptr)
    BY <1>2, SetIs DEF SetOK, IsIntset, INTSET, DICT
  <2>3. CASE e \notin MemberIntegers
    BY <1>1, <2>1, <2>3, DictOK
  <2>4. CASE e \in MemberIntegers
    <3>1. e \in Int
      BY <2>4, SetsAssumption
    <3>2. IntsetOK(is) /\ Ints(is) = MembersOf(set) \cup {e} /\ Ints(is) \subseteq MemberIntegers
      BY <2>2, <2>4, <3>1, AddHolds
    <3> HIDE DEF is
    <3>3. new = [enc |-> INTSET, ptr |-> is]
      BY <2>2
    <3> HIDE DEF new
    <3>4. is.length \in Nat
      BY <3>2 DEF IntsetOK
    <3>5. CASE is.length > set_max_intset_entries
      <4>1. MembersOf(new) = Ints(is)
        BY <3>2, <3>3, IntsCounted DEF MembersOf, IsIntset
      <4> QED BY <1>1, <2>1, <2>4, <3>2, <3>5, <4>1, DictOK DEF setTypeConvert
    <3>6. CASE ~(is.length > set_max_intset_entries)
      <4>1. is.length <= set_max_intset_entries
        BY <3>4, <3>6, SetsAssumption
      <4> QED BY <2>1, <2>4, <3>2, <3>3, <3>6, <4>1, IntsetSetOK
    <3> QED BY <3>5, <3>6
  <2> QED BY <2>3, <2>4
<1>3. CASE ~IsIntset(set)
  <2>1. set = [enc |-> DICT, ptr |-> set.ptr] /\ MembersOf(set) = set.ptr
    BY <1>3 DEF SetOK, IsIntset, MembersOf
  <2>2. setTypeAdd(set, e) = [enc |-> DICT, ptr |-> MembersOf(set) \cup {e}]
    <3>1. setTypeAdd(set, e) = [set EXCEPT !.ptr = set.ptr \cup {e}]
      BY <1>3 DEF setTypeAdd
    <3> QED BY <2>1, <3>1
  <2> QED BY <1>1, <2>2, DictOK
<1> QED BY <1>2, <1>3

\* A member less.
LEMMA SetRemove ==
    ASSUME NEW set, SetOK(set), NEW e \in SetMembers
    PROVE  /\ SetOK(setTypeRemove(set, e))
           /\ MembersOf(setTypeRemove(set, e)) = MembersOf(set) \ {e}
<1>1. /\ MembersOf(set) \ {e} \subseteq SetMembers
      /\ IsFiniteSet(MembersOf(set) \ {e})
  BY SetIs, FS_RemoveElement
<1>2. CASE IsIntset(set)
  <2> DEFINE is == intsetRemove(set.ptr, e)
  <2>2. /\ set = [enc |-> INTSET, ptr |-> set.ptr] /\ IntsetOK(set.ptr)
        /\ Ints(set.ptr) \subseteq MemberIntegers
        /\ set.ptr.length <= set_max_intset_entries /\ set.ptr.length \in Nat
        /\ MembersOf(set) = Ints(set.ptr)
    BY <1>2, SetIs DEF SetOK, IsIntset, INTSET, DICT, IntsetOK
  <2>3. CASE e \notin MemberIntegers
    <3>1. setTypeRemove(set, e) = set
      BY <1>2, <2>3 DEF setTypeRemove
    <3> QED BY <2>2, <2>3, <3>1
  <2>4. CASE e \in MemberIntegers
    <3>1. e \in Int
      BY <2>4, SetsAssumption
    <3>2. /\ IntsetOK(is) /\ Ints(is) = MembersOf(set) \ {e} /\ Ints(is) \subseteq MemberIntegers
          /\ is.length <= set_max_intset_entries
      <4>1. /\ IntsetOK(is) /\ Ints(is) = Ints(set.ptr) \ {e}
            /\ e \notin Ints(set.ptr) => is = set.ptr
            /\ e \in Ints(set.ptr) => is.length = set.ptr.length - 1
        BY <2>2, <3>1, RemoveHolds
      <4> HIDE DEF is
      <4> QED BY <2>2, <4>1, SetsAssumption
    <3>3. setTypeRemove(set, e) = [set EXCEPT !.ptr = is]
      BY <1>2, <2>4 DEF setTypeRemove
    <3> HIDE DEF is
    <3>4. setTypeRemove(set, e) = [enc |-> INTSET, ptr |-> is]
      BY <2>2, <3>3
    <3> QED BY <3>2, <3>4, IntsetSetOK
  <2> QED BY <2>3, <2>4
<1>3. CASE ~IsIntset(set)
  <2>1. set = [enc |-> DICT, ptr |-> set.ptr] /\ MembersOf(set) = set.ptr
    BY <1>3 DEF SetOK, IsIntset, MembersOf
  <2>2. setTypeRemove(set, e) = [enc |-> DICT, ptr |-> MembersOf(set) \ {e}]
    <3>1. setTypeRemove(set, e) = [set EXCEPT !.ptr = set.ptr \ {e}]
      BY <1>3 DEF setTypeRemove
    <3> QED BY <2>1, <3>1
  <2> QED BY <1>1, <2>2, DictOK
<1> QED BY <1>2, <1>3

-----------------------------------------------------------------------------
(* The first field of a hash.                                              *)

\* The first field of a zipmap.
LEMMA FirstField ==
    ASSUME NEW f, NEW v
    PROVE  LET zm == zipmapSet([len |-> 0, bytes |-> 2, entries |-> <<>>], f, v)
           IN  /\ {e.field : e \in ToSet(zm.entries)} = {f}
               /\ zipmapLen(zm) \in 0 .. 1 /\ zipmapLen(Counted(zm)) \in 0 .. 1
<1> DEFINE z == [len |-> 0, bytes |-> 2, entries |-> <<>>]
           zm == zipmapSet(z, f, v)
           ent == [field |-> f, val |-> v, free |-> 0]
           len == IF 0 < ZIPMAP_BIGLEN THEN 1 ELSE 0
           bytes == TotalLength(z) + zipmapRequiredLength(f, v)
<1>1. zipmapLookupRaw(z, f) = 0
  BY DEF zipmapLookupRaw, SelectInSeq
<1>2. zm = [len |-> len, bytes |-> bytes, entries |-> Append(<<>>, ent)]
  BY <1>1 DEF zipmapSet
<1>3. len \in {0, 1}
  OBVIOUS
<1>4. Append(<<>>, ent) = <<ent>>
  OBVIOUS
<1> HIDE DEF zm, ent, bytes, len
<1>5. /\ zm.len = len /\ zm.entries = <<ent>> /\ Len(zm.entries) = 1
  BY <1>2, <1>4
<1>6. {e.field : e \in ToSet(zm.entries)} = {f}
  <2>1. ToSet(zm.entries) = {ent}
    BY <1>5 DEF ToSet
  <2> QED BY <2>1 DEF ent
<1>7. zipmapLen(zm) \in 0 .. 1
  BY <1>3, <1>5 DEF zipmapLen
<1>8. zipmapLen(Counted(zm)) \in 0 .. 1
  <2>1. CASE Counted(zm) = zm
    BY <1>7, <2>1
  <2>2. CASE Counted(zm) = [zm EXCEPT !.len = 1]
    <3>1. Counted(zm) = [len |-> 1, bytes |-> bytes, entries |-> <<ent>>]
      BY <1>2, <1>4, <2>2
    <3>2. Counted(zm).len = 1 /\ Len(Counted(zm).entries) = 1
      BY <3>1
    <3> QED BY <3>2 DEF zipmapLen
  <2>3. Counted(zm) = zm \/ Counted(zm) = [zm EXCEPT !.len = 1]
    BY <1>5 DEF Counted
  <2> QED BY <2>1, <2>2, <2>3
<1> QED BY <1>6, <1>7, <1>8 DEF zm

\* The first field of a hash: one at most is counted, whether the zipmap stays
\* or becomes a dict for it.
LEMMA FirstSet ==
    ASSUME NEW f, NEW v
    PROVE  LET zm == [len |-> 0, bytes |-> 2, entries |-> <<>>]
           IN  hashTypeLength(hashTypeSet([enc |-> ZIPMAP, ptr |-> zm], f, v)) \in 0 .. 1
<1> DEFINE z == [len |-> 0, bytes |-> 2, entries |-> <<>>]
           zm == zipmapSet(z, f, v)
           new == [enc |-> ZIPMAP, ptr |-> z]
           after == hashTypeSet(new, f, v)
           more == [enc |-> ZIPMAP, ptr |-> zm]
<1>1. /\ {e.field : e \in ToSet(zm.entries)} = {f}
      /\ zipmapLen(zm) \in 0 .. 1 /\ zipmapLen(Counted(zm)) \in 0 .. 1
  BY FirstField
<1>2. new.ptr = z /\ IsZipmap(new) /\ (\A p : [new EXCEPT !.ptr = p] = [enc |-> ZIPMAP, ptr |-> p])
  BY DEF IsZipmap
<1> HIDE DEF z, new
<1>3. after = IF zipmapLen(zm) > hash_max_zipmap_entries THEN convertToRealHash(more)
              ELSE [enc |-> ZIPMAP, ptr |-> Counted(zm)]
  BY <1>2 DEF hashTypeSet
<1> HIDE DEF zm, after
<1>4. FieldsOf(more) = {f}
  BY <1>1 DEF FieldsOf, IsZipmap
<1>5. hashTypeLength(convertToRealHash(more)) \in 0 .. 1
  <2> DEFINE r == convertToRealHash(more)
  <2>1. r.enc = HT /\ r.ptr = Map(more)
    BY DEF convertToRealHash
  <2>2. DOMAIN Map(more) = {f} /\ ~IsZipmap(r)
    BY <1>4, <2>1 DEF Map, IsZipmap, HT, ZIPMAP
  <2> HIDE DEF r
  <2>3. hashTypeLength(r) = 1
    BY <2>1, <2>2, FS_Singleton DEF hashTypeLength
  <2> QED BY <2>3 DEF r
<1>6. hashTypeLength([enc |-> ZIPMAP, ptr |-> Counted(zm)]) \in 0 .. 1
  BY <1>1 DEF hashTypeLength, IsZipmap
<1> QED BY <1>3, <1>5, <1>6 DEF after, new, z

\* The same for a hash that is a dict already.
LEMMA FirstInDict ==
    ASSUME NEW f, NEW v, NEW h, ~IsZipmap(h), h = [enc |-> HT, ptr |-> h.ptr], DOMAIN h.ptr = {}
    PROVE  hashTypeLength(hashTypeSet(h, f, v)) \in 0 .. 1
<1> DEFINE p == SetInDict(h.ptr, f, v)
           after == hashTypeSet(h, f, v)
<1>1. after = [h EXCEPT !.ptr = p]
  BY DEF hashTypeSet
<1>2. DOMAIN p = {f}
  BY DEF SetInDict
<1> HIDE DEF p, after
<1>3. after = [enc |-> HT, ptr |-> p]
  BY <1>1
<1>4. hashTypeLength(after) = 1
  BY <1>2, <1>3, FS_Singleton DEF hashTypeLength, IsZipmap, HT, ZIPMAP
<1> QED BY <1>4 DEF after

-----------------------------------------------------------------------------
(* The keys.                                                               *)

\* What the two keys may hold.
EntryOK(e) == e # Absent =>
    /\ e = [type |-> e.type, val |-> e.val, ver |-> e.ver, due |-> e.due]
    /\ e.type = REDIS_SET =>
          /\ e.ver \in 0 .. VersionMax /\ e.due \in Nat \cup {NoTTL}
          /\ SetOK(e.val) /\ MembersOf(e.val) # {}

IInv == EntryOK(key) /\ EntryOK(other)

IsSet(e) == e # Absent /\ e.type = REDIS_SET
Members(e) == IF IsSet(e) THEN MembersOf(e.val) ELSE {}
Pair(a, b) == [n \in {"key", "other"} |-> IF n = "key" THEN a ELSE b]

\* What the contract calls the two sets.
LEMMA StoredMembersIs == StoredMembers = Pair(Members(key), Members(other))
BY DEF StoredMembers, Pair, Members, IsSet, Holding, HoldsSet

\* The same after a step.
LEMMA StoredMembersNextIs == StoredMembers' = Pair(Members(key'), Members(other'))
<1>1. /\ DOMAIN Holding' = {"key", "other"}
      /\ Holding'["key"] = key' /\ Holding'["other"] = other'
  BY DEF Holding
<1>2. StoredMembers' =
        [n \in DOMAIN Holding' |->
            IF Holding'[n] # Absent /\ Holding'[n].type = REDIS_SET
            THEN MembersOf(Holding'[n].val) ELSE {}]
  BY DEF StoredMembers, HoldsSet
<1> QED BY <1>1, <1>2 DEF Pair, Members, IsSet

\* An entry that holds a set is not the mark of an absent one.
LEMMA EntryMade ==
    ASSUME NEW set, SetOK(set), MembersOf(set) # {},
           NEW ver \in 0 .. VersionMax, NEW due \in Nat \cup {NoTTL}
    PROVE  LET e == [type |-> REDIS_SET, val |-> set, ver |-> ver, due |-> due]
           IN  EntryOK(e) /\ e # Absent /\ IsSet(e) /\ Members(e) = MembersOf(set)
<1> DEFINE e == [type |-> REDIS_SET, val |-> set, ver |-> ver, due |-> due]
<1>1. set \in SetValues
  BY SetIs
<1>2. e \in TypedEntry({REDIS_SET}, SetValues)
  BY <1>1 DEF TypedEntry
<1>3. e # Absent
  BY <1>2, SetMarkAssumption
<1>4. e.type = REDIS_SET /\ e.val = set /\ e.ver = ver /\ e.due = due
  OBVIOUS
<1>5. e = [type |-> e.type, val |-> e.val, ver |-> e.ver, due |-> e.due]
  OBVIOUS
<1> HIDE DEF e
<1> QED BY <1>3, <1>4, <1>5 DEF EntryOK, IsSet, Members

\* What the write commands store.
LEMMA WrittenIs ==
    ASSUME EntryOK(key), key = Absent \/ key.type = REDIS_SET, NEW r \in Requests,
           NEW set, SetOK(set), MembersOf(set) # {}
    PROVE  LET e == Written(REDIS_SET, set, r)
           IN  EntryOK(e) /\ e # Absent /\ IsSet(e) /\ Members(e) = MembersOf(set)
<1>1. r \in [ver : 0 .. VersionMax, care : BOOLEAN, et : Int] /\ VersionMax \in Nat
  BY RequestAssumption
<1>2. WriteVersion(r) \in 0 .. VersionMax
  BY <1>1 DEF WriteVersion, EntryOK
<1>3. ExpireOrNot(r) \in Nat \cup {NoTTL}
  BY <1>1 DEF ExpireOrNot, EntryOK
<1> QED BY <1>2, <1>3, EntryMade DEF Written

\* A stored value replaced.
LEMMA ReplacedIs ==
    ASSUME NEW e, EntryOK(e), IsSet(e), NEW set, SetOK(set), MembersOf(set) # {}
    PROVE  LET f == [e EXCEPT !.val = set]
           IN  EntryOK(f) /\ f # Absent /\ IsSet(f) /\ Members(f) = MembersOf(set)
<1> DEFINE ver == e.ver
           due == e.due
           v == e.val
<1>1. e = [type |-> REDIS_SET, val |-> v, ver |-> ver, due |-> due]
      /\ ver \in 0 .. VersionMax /\ due \in Nat \cup {NoTTL}
  BY DEF EntryOK, IsSet
<1> HIDE DEF ver, due, v
<1>2. [e EXCEPT !.val = set] = [type |-> REDIS_SET, val |-> set, ver |-> ver, due |-> due]
  BY <1>1
<1> QED BY <1>1, <1>2, EntryMade

\* A deadline replaced.
LEMMA DueIs ==
    ASSUME EntryOK(key), IsSet(key), NEW r \in Requests
    PROVE  LET f == [key EXCEPT !.due = ExpireOrNot(r)]
           IN  EntryOK(f) /\ f # Absent /\ IsSet(f) /\ Members(f) = Members(key)
<1> DEFINE ver == key.ver
           due == key.due
           v == key.val
           new == ExpireOrNot(r)
<1>1. key = [type |-> REDIS_SET, val |-> v, ver |-> ver, due |-> due] /\ SetOK(v)
      /\ ver \in 0 .. VersionMax /\ due \in Nat \cup {NoTTL} /\ MembersOf(v) # {}
      /\ Members(key) = MembersOf(v)
  BY DEF EntryOK, IsSet, Members
<1>2. new \in Nat \cup {NoTTL}
  BY <1>1, RequestAssumption DEF ExpireOrNot
<1> HIDE DEF ver, due, v, new
<1>3. [key EXCEPT !.due = new] = [type |-> REDIS_SET, val |-> v, ver |-> ver, due |-> new]
  BY <1>1
<1> QED BY <1>1, <1>2, <1>3, EntryMade DEF new

-----------------------------------------------------------------------------
(* The commands of the other types.                                        *)

\* A key that holds a value of one type, if anything.
HoldsOnly(e, type) ==
    e # Absent => /\ e = [type |-> e.type, val |-> e.val, ver |-> e.ver, due |-> e.due]
                  /\ e.type = type

\* What a command of a type may do.
Keeps(type, cmds) ==
    /\ other' = other
    /\ key' = key \/ (HasType(type) /\ HoldsOnly(key', type))
    /\ reply'.cmd \in cmds

\* A stored value replaced.
LEMMA OtherReplaced ==
    ASSUME NEW e, EntryOK(e), e # Absent, NEW type, e.type = type, NEW val
    PROVE  HoldsOnly([e EXCEPT !.val = val], type)
<1> DEFINE ver == e.ver
           due == e.due
           v == e.val
<1>1. e = [type |-> type, val |-> v, ver |-> ver, due |-> due]
  BY DEF EntryOK
<1> HIDE DEF ver, due, v
<1>2. [e EXCEPT !.val = val] = [type |-> type, val |-> val, ver |-> ver, due |-> due]
  BY <1>1
<1> QED BY <1>2 DEF HoldsOnly

\* Another deadline.
LEMMA OtherDue ==
    ASSUME NEW type, NEW val, NEW r, NEW due
    PROVE  HoldsOnly([Written(type, val, r) EXCEPT !.due = due], type)
<1>1. [Written(type, val, r) EXCEPT !.due = due] =
         [type |-> type, val |-> val, ver |-> WriteVersion(r), due |-> due]
  BY DEF Written
<1> QED BY <1>1 DEF HoldsOnly

\* Refusals and queries change nothing.
LEMMA RepliesKeep ==
    ASSUME NEW of, NEW cmds, NEW cmd, cmd \in cmds, NEW arg
    PROVE  /\ \A rc, val : Answer(cmd, arg, rc, val) => other' = other /\ reply'.cmd \in cmds
           /\ \A rc, val : Reply(cmd, arg, rc, val) => Keeps(of, cmds)
           /\ \A rc : Refuse(cmd, arg, rc) => Keeps(of, cmds)
           /\ \A type : RefuseRead(cmd, arg, type) => Keeps(of, cmds)
           /\ \A type, r : RefuseWrite(cmd, arg, type, r) => Keeps(of, cmds)
BY DEF Refuse, Reply, Answer, AnswerForBoth, Keeps, RefuseRead, RefuseWrite

\* A command that answers, and stores or replaces a value of its type.
LEMMA OtherStores ==
    ASSUME EntryOK(key), NEW type, NEW cmds, NEW cmd, cmd \in cmds,
           NEW arg, NEW rc, NEW val, Answer(cmd, arg, rc, val)
    PROVE  /\ \A v, r : HasType(type) /\ key' = Written(type, v, r) => Keeps(type, cmds)
           /\ \A v, r : HasType(type) /\ key' = [Written(type, v, r) EXCEPT !.due = key.due] =>
                          Keeps(type, cmds)
           /\ \A v : Readable(type) /\ key' = [key EXCEPT !.val = v] => Keeps(type, cmds)
           /\ HasType(type) /\ key' = Absent => Keeps(type, cmds)
           /\ key' = key => Keeps(type, cmds)
<1>1. other' = other /\ reply'.cmd \in cmds
  BY RepliesKeep
<1>2. HoldsOnly(Absent, type)
  BY DEF HoldsOnly
<1>3. \A v : Readable(type) => HoldsOnly([key EXCEPT !.val = v], type) /\ HasType(type)
  BY OtherReplaced DEF Readable, HasType
<1>4. \A v, r : HoldsOnly(Written(type, v, r), type)
  BY DEF HoldsOnly, Written
<1>5. \A v, r : HoldsOnly([Written(type, v, r) EXCEPT !.due = key.due], type)
  BY OtherDue
<1> QED BY <1>1, <1>2, <1>3, <1>4, <1>5 DEF Keeps

\* The commands of lists touch lists only.
LEMMA ListKeeps ==
    ASSUME EntryOK(key), ListCommand
    PROVE  Keeps(REDIS_LIST, ListCommands)
<1>1. /\ "PUSH" \in ListCommands /\ "PUSHX" \in ListCommands
      /\ "LINSERT" \in ListCommands /\ "LSET" \in ListCommands
      /\ "POP" \in ListCommands /\ "LTRIM" \in ListCommands
      /\ "LREM" \in ListCommands /\ "LLEN" \in ListCommands
      /\ "LINDEX" \in ListCommands /\ "LRANGE" \in ListCommands
  BY DEF ListCommands
<1>2. \A r : Writable(REDIS_LIST, r) => Readable(REDIS_LIST)
  BY DEF Writable
<1>3. Readable(REDIS_LIST) => HasType(REDIS_LIST)
  BY DEF Readable
<1>4. ASSUME NEW where, NEW vs, NEW r, pushnGenericCommand(where, vs, r) PROVE Keeps(REDIS_LIST, ListCommands)
  <2>1. \/ \E rc : Refuse("PUSH", <<where, vs>>, rc)
        \/ /\ HasType(REDIS_LIST)
           /\ key' = key \/ \E val : key' = Written(REDIS_LIST, val, r)
           /\ \E rc, val : Answer("PUSH", <<where, vs>>, rc, val)
    BY <1>4 DEF pushnGenericCommand
  <2> QED BY <1>1, <2>1, RepliesKeep, OtherStores
<1>5. ASSUME NEW where, NEW vs, NEW r, Pushx(where, vs, r) PROVE Keeps(REDIS_LIST, ListCommands)
  <2>1. \/ RefuseWrite("PUSHX", <<where, vs>>, REDIS_LIST, r)
        \/ /\ Writable(REDIS_LIST, r)
           /\ \E val : key' = Written(REDIS_LIST, val, r)
           /\ \E rc, val : Answer("PUSHX", <<where, vs>>, rc, val)
    BY <1>5 DEF Pushx
  <2> QED BY <1>1, <1>2, <1>3, <2>1, RepliesKeep, OtherStores
<1>6. ASSUME NEW where, NEW pivot, NEW v, NEW r, Linsert(where, pivot, v, r) PROVE Keeps(REDIS_LIST, ListCommands)
  <2>1. \/ RefuseWrite("LINSERT", <<where, pivot, v>>, REDIS_LIST, r)
        \/ /\ Writable(REDIS_LIST, r)
           /\ \/ \E val : key' = Written(REDIS_LIST, val, r)
              \/ \E val : key' = [key EXCEPT !.val = val]
           /\ \E rc, val : Answer("LINSERT", <<where, pivot, v>>, rc, val)
    BY <1>6 DEF Linsert
  <2> QED BY <1>1, <1>2, <1>3, <2>1, RepliesKeep, OtherStores
<1>7. ASSUME NEW index, NEW v, NEW r, Lset(index, v, r) PROVE Keeps(REDIS_LIST, ListCommands)
  <2>1. \/ RefuseWrite("LSET", <<index, v>>, REDIS_LIST, r)
        \/ /\ Writable(REDIS_LIST, r)
           /\ \/ \E val : key' = [Written(REDIS_LIST, val, r) EXCEPT !.due = key.due]
              \/ \E val : key' = [key EXCEPT !.val = val]
           /\ \E rc, val : Answer("LSET", <<index, v>>, rc, val)
    BY <1>7 DEF Lset
  <2> QED BY <1>1, <1>2, <1>3, <2>1, RepliesKeep, OtherStores
<1>8. \A list, r : Rest(list, r) = Absent \/ Rest(list, r) = Written(REDIS_LIST, list, r)
  BY DEF Rest
<1>9. ASSUME NEW where, NEW count, NEW r, popnGenericCommand(where, count, r) PROVE Keeps(REDIS_LIST, ListCommands)
  <2>1. \/ RefuseRead("POP", <<where, count>>, REDIS_LIST)
        \/ \E rc : Refuse("POP", <<where, count>>, rc)
        \/ /\ Writable(REDIS_LIST, r)
           /\ \E val : key' = Rest(val, r)
           /\ \E rc, val : Answer("POP", <<where, count>>, rc, val)
    BY <1>9 DEF popnGenericCommand
  <2> QED BY <1>1, <1>2, <1>3, <1>8, <2>1, RepliesKeep, OtherStores
<1>10. ASSUME NEW start, NEW end, NEW r, Ltrim(start, end, r) PROVE Keeps(REDIS_LIST, ListCommands)
  <2>1. \/ RefuseWrite("LTRIM", <<start, end>>, REDIS_LIST, r)
        \/ /\ Writable(REDIS_LIST, r)
           /\ \E val : key' = Rest(val, r)
           /\ \E rc, val : Answer("LTRIM", <<start, end>>, rc, val)
    BY <1>10 DEF Ltrim
  <2> QED BY <1>1, <1>2, <1>3, <1>8, <2>1, RepliesKeep, OtherStores
<1>11. ASSUME NEW count, NEW v, NEW r, Lrem(count, v, r) PROVE Keeps(REDIS_LIST, ListCommands)
  <2>1. \/ RefuseWrite("LREM", <<count, v>>, REDIS_LIST, r)
        \/ /\ Writable(REDIS_LIST, r)
           /\ \E val : key' = Rest(val, r)
           /\ \E rc, val : Answer("LREM", <<count, v>>, rc, val)
    BY <1>11 DEF Lrem
  <2> QED BY <1>1, <1>2, <1>3, <1>8, <2>1, RepliesKeep, OtherStores
<1>12. CASE LinsertMalformed
  BY <1>1, <1>12, RepliesKeep DEF LinsertMalformed
<1>13. CASE Llen
  BY <1>1, <1>13, RepliesKeep DEF Llen
<1>14. ASSUME NEW index, Lindex(index) PROVE Keeps(REDIS_LIST, ListCommands)
  BY <1>1, <1>14, RepliesKeep DEF Lindex
<1>15. ASSUME NEW start, NEW end, Lrange(start, end) PROVE Keeps(REDIS_LIST, ListCommands)
  BY <1>1, <1>15, RepliesKeep DEF Lrange
<1> QED BY <1>4, <1>5, <1>6, <1>7, <1>9, <1>10, <1>11, <1>12, <1>13, <1>14, <1>15 DEF ListCommand

\* A new hash, whichever way it is encoded: no field in it, and one at most
\* after the first is set.  A command that finds a hash full or a field there
\* does not work on a new one.
LEMMA NewHash ==
    ASSUME NEW strings
    PROVE  LET h == hashTypeTryConversion(createHashObject, strings)
           IN  /\ \A f : ~hashTypeExists(h, f)
               /\ hashTypeLength(h) = 0 /\ hashTypeLength(Measured(h)) = 0
               /\ \A f, v : hashTypeLength(hashTypeSet(h, f, v)) \in 0 .. 1
<1> DEFINE z == [len |-> 0, bytes |-> 2, entries |-> <<>>]
           new == [enc |-> ZIPMAP, ptr |-> z]
           dict == convertToRealHash(new)
           h == hashTypeTryConversion(createHashObject, strings)
<1>1. h = new \/ h = dict
  BY DEF hashTypeTryConversion, createHashObject, zipmapNew
<1>2. IsZipmap(new) /\ FieldsOf(new) = {}
  BY DEF IsZipmap, FieldsOf, ToSet
<1>3. /\ dict = [enc |-> HT, ptr |-> Map(new)] /\ ~IsZipmap(dict) /\ DOMAIN Map(new) = {}
  BY <1>2 DEF convertToRealHash, IsZipmap, Map, HT, ZIPMAP
<1>4. \A f : zipmapLookupRaw(z, f) = 0
  BY DEF zipmapLookupRaw, SelectInSeq
<1>5. /\ \A f : ~hashTypeExists(new, f)
      /\ hashTypeLength(new) = 0 /\ hashTypeLength(Measured(new)) = 0
  BY <1>2, <1>4 DEF hashTypeExists, zipmapExists, hashTypeLength, zipmapLen, Measured, Counted
<1>6. /\ \A f : ~hashTypeExists(dict, f)
      /\ hashTypeLength(dict) = 0 /\ hashTypeLength(Measured(dict)) = 0
  BY <1>3, FS_EmptySet DEF hashTypeExists, hashTypeLength, Measured
<1>7. \A f, v : hashTypeLength(hashTypeSet(new, f, v)) \in 0 .. 1
  BY FirstSet
<1>8. \A f, v : hashTypeLength(hashTypeSet(dict, f, v)) \in 0 .. 1
  <2>1. dict = [enc |-> HT, ptr |-> dict.ptr] /\ DOMAIN dict.ptr = {} /\ ~IsZipmap(dict)
    BY <1>3
  <2> HIDE DEF dict
  <2> QED BY <2>1, FirstInDict
<1> HIDE DEF h, new, dict
<1> QED BY <1>1, <1>5, <1>6, <1>7, <1>8 DEF h

\* The commands of hashes touch hashes only, and none replaces the value of a
\* key that is not there: that takes a hash that is full, or has the field.
LEMMA HashKeeps ==
    ASSUME EntryOK(key), HashCommand
    PROVE  Keeps(REDIS_HASH, HashCommands)
<1>1. /\ "HSET" \in HashCommands /\ "HSETNX" \in HashCommands
      /\ "HMSET" \in HashCommands /\ "HINCRBY" \in HashCommands
      /\ "HDEL" \in HashCommands /\ "HGET" \in HashCommands
      /\ "HMGET" \in HashCommands /\ "HEXISTS" \in HashCommands
      /\ "HLEN" \in HashCommands /\ "HGETALL" \in HashCommands
  BY DEF HashCommands
<1>2. \A r : Writable(REDIS_HASH, r) => Readable(REDIS_HASH)
  BY DEF Writable
<1>3. Readable(REDIS_HASH) => HasType(REDIS_HASH)
  BY DEF Readable
<1>4. hash_max_size \in Nat /\ hash_max_size >= 1
  BY HashesAssumption
<1>5. key = Absent => Working = createHashObject
  BY DEF Working
<1>6. HasType(REDIS_HASH) /\ key # Absent => Readable(REDIS_HASH)
  BY DEF Readable
<1>7. \A r : Ready(r) => HasType(REDIS_HASH)
  BY DEF Ready
<1>8. \A cmd, arg, r : RefuseHash(cmd, arg, r) => \E rc : Refuse(cmd, arg, rc)
  BY DEF RefuseHash
<1>9. \A h : Kept(h) = [key EXCEPT !.val = h]
  BY DEF Kept
<1>10. ASSUME NEW f, NEW v, NEW r, Hset(f, v, r) PROVE Keeps(REDIS_HASH, HashCommands)
  <2> DEFINE old == hashTypeTryConversion(Working, {f, v})
             new == hashTypeSet(old, f, v)
  <2>1. \/ \E rc : Refuse("HSET", <<f, v>>, rc)
        \/ /\ HasType(REDIS_HASH)
           /\ \E val : key' = Written(REDIS_HASH, val, r)
           /\ \E rc, val : Answer("HSET", <<f, v>>, rc, val)
        \/ /\ HasType(REDIS_HASH) /\ hashTypeLength(new) > hash_max_size
           /\ \E val : key' = [key EXCEPT !.val = val]
           /\ \E rc, val : Answer("HSET", <<f, v>>, rc, val)
    <3> HIDE DEF old, new
    <3> QED BY <1>7, <1>8, <1>9, <1>10 DEF Hset, old, new
  <2>2. key = Absent => hashTypeLength(new) \in 0 .. 1
    BY <1>5, NewHash
  <2>3. ~(hashTypeLength(new) \in 0 .. 1 /\ hashTypeLength(new) > hash_max_size)
    <3> DEFINE n == hashTypeLength(new)
    <3> HIDE DEF n
    <3> QED BY <1>4 DEF n
  <2> HIDE DEF old, new
  <2> QED BY <1>1, <1>6, <2>1, <2>2, <2>3, RepliesKeep, OtherStores
<1>11. ASSUME NEW f, NEW v, NEW r, Hsetnx(f, v, r) PROVE Keeps(REDIS_HASH, HashCommands)
  <2> DEFINE old == hashTypeTryConversion(Working, {f, v})
  <2>1. \/ \E rc : Refuse("HSETNX", <<f, v>>, rc)
        \/ /\ HasType(REDIS_HASH)
           /\ \E val : key' = Written(REDIS_HASH, val, r)
           /\ \E rc, val : Answer("HSETNX", <<f, v>>, rc, val)
        \/ /\ HasType(REDIS_HASH) /\ hashTypeExists(old, f)
           /\ \E val : key' = [key EXCEPT !.val = val]
           /\ \E rc, val : Answer("HSETNX", <<f, v>>, rc, val)
    <3> HIDE DEF old
    <3> QED BY <1>7, <1>8, <1>9, <1>11 DEF Hsetnx, old
  <2>2. key = Absent => ~hashTypeExists(old, f)
    BY <1>5, NewHash
  <2> HIDE DEF old
  <2> QED BY <1>1, <1>6, <2>1, <2>2, RepliesKeep, OtherStores
<1>12. ASSUME NEW pairs, NEW r, Hmset(pairs, r) PROVE Keeps(REDIS_HASH, HashCommands)
  <2> DEFINE strings == UNION {{pairs[i][1], pairs[i][2]} : i \in DOMAIN pairs}
             old == Measured(hashTypeTryConversion(Working, strings))
  <2>1. \/ \E rc : Refuse("HMSET", pairs, rc)
        \/ /\ HasType(REDIS_HASH)
           /\ \E val : key' = Written(REDIS_HASH, val, r)
           /\ \E rc, val : Answer("HMSET", pairs, rc, val)
        \/ /\ HasType(REDIS_HASH) /\ hashTypeLength(old) >= hash_max_size
           /\ \E val : key' = [key EXCEPT !.val = val]
           /\ \E rc, val : Answer("HMSET", pairs, rc, val)
    <3> HIDE DEF old
    <3> QED BY <1>7, <1>8, <1>9, <1>12 DEF Hmset, old
  <2>2. key = Absent => hashTypeLength(old) = 0
    <3> HIDE DEF strings
    <3> QED BY <1>5, NewHash
  <2> HIDE DEF old
  <2> QED BY <1>1, <1>4, <1>6, <2>1, <2>2, RepliesKeep, OtherStores
<1>13. ASSUME NEW f, NEW incr, NEW r, Hincrby(f, incr, r) PROVE Keeps(REDIS_HASH, HashCommands)
  <2>1. \/ \E rc : Refuse("HINCRBY", <<f, incr>>, rc)
        \/ /\ HasType(REDIS_HASH)
           /\ \E val : key' = Written(REDIS_HASH, val, r)
           /\ \E rc, val : Answer("HINCRBY", <<f, incr>>, rc, val)
        \/ /\ HasType(REDIS_HASH) /\ hashTypeLength(Working) + 1 > hash_max_size
           /\ \E val : key' = [key EXCEPT !.val = val]
           /\ \E rc, val : Answer("HINCRBY", <<f, incr>>, rc, val)
    BY <1>7, <1>8, <1>9, <1>13 DEF Hincrby
  <2>2. key = Absent => hashTypeLength(Working) = 0
    BY <1>5 DEF createHashObject, zipmapNew, hashTypeLength, zipmapLen, IsZipmap
  <2>3. hashTypeLength(Working) = 0 => ~(hashTypeLength(Working) + 1 > hash_max_size)
    <3> DEFINE n == hashTypeLength(Working)
    <3> HIDE DEF n
    <3> QED BY <1>4 DEF n
  <2> QED BY <1>1, <1>6, <2>1, <2>2, <2>3, RepliesKeep, OtherStores
<1>14. ASSUME NEW f, NEW r, Hdel(f, r) PROVE Keeps(REDIS_HASH, HashCommands)
  <2>1. \/ RefuseWrite("HDEL", f, REDIS_HASH, r)
        \/ \E rc : Refuse("HDEL", f, rc)
        \/ /\ Writable(REDIS_HASH, r)
           /\ key' = Absent \/ \E val : key' = Written(REDIS_HASH, val, r)
           /\ \E rc, val : Answer("HDEL", f, rc, val)
    BY <1>14 DEF Hdel
  <2> QED BY <1>1, <1>2, <1>3, <2>1, RepliesKeep, OtherStores
<1>15. CASE HmsetMalformed
  BY <1>1, <1>15, RepliesKeep DEF HmsetMalformed
<1>16. CASE HincrbyMalformed
  BY <1>1, <1>16, RepliesKeep DEF HincrbyMalformed
<1>17. ASSUME NEW f, Hget(f) PROVE Keeps(REDIS_HASH, HashCommands)
  BY <1>1, <1>17, RepliesKeep DEF Hget
<1>18. ASSUME NEW f, Hexists(f) PROVE Keeps(REDIS_HASH, HashCommands)
  BY <1>1, <1>18, RepliesKeep DEF Hexists
<1>19. ASSUME NEW fs, Hmget(fs) PROVE Keeps(REDIS_HASH, HashCommands)
  BY <1>1, <1>19, RepliesKeep DEF Hmget
<1>20. CASE Hlen
  <2>1. \/ RefuseRead("HLEN", <<>>, REDIS_HASH)
        \/ /\ Readable(REDIS_HASH)
           /\ \E val : key' = [key EXCEPT !.val = val]
           /\ \E rc, val : Answer("HLEN", <<>>, rc, val)
    BY <1>9, <1>20 DEF Hlen
  <2> QED BY <1>1, <2>1, RepliesKeep, OtherStores
<1>21. CASE genericHgetallCommand
  BY <1>1, <1>21, RepliesKeep DEF genericHgetallCommand
<1> QED BY <1>10, <1>11, <1>12, <1>13, <1>14, <1>15, <1>16, <1>17, <1>18, <1>19, <1>20, <1>21
        DEF HashCommand

-----------------------------------------------------------------------------
(* What SINTERSTORE stores.                                                *)

\* SINTERSTORE adds the members one by one.
AddedUpTo(s, h, n) == IF n = 0 THEN createIntsetObject ELSE setTypeAdd(h[n - 1], s[n])
IsAdding(s, h) == h = [n \in 0 .. Len(s) |-> AddedUpTo(s, h, n)]
Adding(s) == CHOOSE h : IsAdding(s, h)

\* The set that is stored, its recursive part named.
LEMMA StoredIs == ASSUME NEW s PROVE Stored(s) = Adding(s)[Len(s)]
BY DEF Stored, Adding, IsAdding, AddedUpTo

\* There is a function the recursion describes.
LEMMA AddingHolds ==
    ASSUME NEW s \in Seq(SetMembers)
    PROVE  IsAdding(s, Adding(s))
<1> DEFINE A == {set \in SetValues : SetOK(set)}
           N == Len(s)
           F == [n \in 1 .. N |-> [set \in A |-> setTypeAdd(set, s[n])]]
<1>1. N \in Nat /\ \A i \in 1 .. N : s[i] \in SetMembers
  OBVIOUS
<1>2. createIntsetObject \in A
  BY Created, SetIs
<1>3. F \in [1 .. N -> [A -> A]]
  <2>1. \A set \in A, e \in SetMembers : setTypeAdd(set, e) \in A
    BY SetAdd, SetIs
  <2> HIDE DEF A
  <2> QED BY <1>1, <2>1
<1>4. PICK h \in [0 .. N -> A] : StepBy(F, createIntsetObject, N, h)
  <2> HIDE DEF A, F, N
  <2> QED BY <1>1, <1>2, <1>3, StepsSolved
<1>5. \A n \in 0 .. N : h[n] = AddedUpTo(s, h, n)
  <2> SUFFICES ASSUME NEW n \in 0 .. N, n # 0 PROVE h[n] = setTypeAdd(h[n - 1], s[n])
    BY <1>4 DEF AddedUpTo, StepBy
  <2>1. n \in 1 .. N /\ n - 1 \in 0 .. N
    BY <1>1
  <2> HIDE DEF A, N
  <2>2. h[n - 1] \in A
    BY <2>1
  <2>3. h[n] = F[n][h[n - 1]]
    BY <1>4, <2>1 DEF StepBy
  <2> QED BY <2>1, <2>2, <2>3
<1>6. IsAdding(s, h)
  <2> HIDE DEF F
  <2> QED BY <1>5 DEF IsAdding
<1> QED BY <1>6 DEF Adding

\* Adding one by one adds all.
LEMMA StoredHolds ==
    ASSUME NEW s \in Seq(SetMembers)
    PROVE  SetOK(Stored(s)) /\ MembersOf(Stored(s)) = ToSet(s)
<1> DEFINE h == Adding(s)
           Done(n) == SetOK(h[n]) /\ MembersOf(h[n]) = {s[i] : i \in 1 .. n}
           B == {n \in 0 .. Len(s) : ~Done(n)}
<1>1. Len(s) \in Nat /\ \A i \in 1 .. Len(s) : s[i] \in SetMembers
  OBVIOUS
<1>2. /\ h[0] = createIntsetObject
      /\ \A n \in 1 .. Len(s) : h[n] = setTypeAdd(h[n - 1], s[n])
  <2>1. h = [n \in 0 .. Len(s) |-> AddedUpTo(s, h, n)]
    BY AddingHolds DEF IsAdding
  <2> HIDE DEF h
  <2>2. \A n \in 0 .. Len(s) : h[n] = AddedUpTo(s, h, n)
    BY <2>1
  <2> QED BY <1>1, <2>2 DEF AddedUpTo
<1> HIDE DEF h
<1>3. Done(0)
  BY <1>2, Created
<1>4. ASSUME NEW n \in 1 .. Len(s), Done(n - 1) PROVE Done(n)
  <2>1. h[n] = setTypeAdd(h[n - 1], s[n]) /\ s[n] \in SetMembers
    BY <1>1, <1>2
  <2>2. SetOK(h[n]) /\ MembersOf(h[n]) = MembersOf(h[n - 1]) \cup {s[n]}
    BY <1>4, <2>1, SetAdd
  <2>3. 1 .. n = (1 .. n - 1) \cup {n}
    BY <1>1
  <2> QED BY <1>4, <2>2, <2>3
<1>5. B = {}
  <2> SUFFICES ASSUME B # {} PROVE FALSE
    OBVIOUS
  <2>1. B \in SUBSET Nat
    OBVIOUS
  <2>2. PICK n \in B : \A k \in B : n <= k
    <3> HIDE DEF B
    <3> QED BY <2>1, LeastNat
  <2> HIDE DEF Done
  <2>3. n # 0 /\ n \in 0 .. Len(s)
    BY <1>3
  <2>4. n \in 1 .. Len(s) /\ n - 1 \in 0 .. Len(s) /\ ~(n <= n - 1)
    BY <1>1, <2>3
  <2>5. Done(n - 1)
    BY <2>2, <2>4
  <2> QED BY <1>4, <2>4, <2>5
<1>6. Done(Len(s))
  <2> HIDE DEF Done
  <2> QED BY <1>1, <1>5
<1>7. ToSet(s) = {s[i] : i \in 1 .. Len(s)}
  BY DEF ToSet
<1> QED BY <1>6, <1>7, StoredIs DEF h

\* The elements of a set in some order.
LEMMA SomeOrder ==
    ASSUME NEW S, IsFiniteSet(S)
    PROVE  /\ SetToSeq(S) \in Seq(S) /\ ToSet(SetToSeq(S)) = S
           /\ Len(SetToSeq(S)) = Cardinality(S)
<1> DEFINE n == Cardinality(S)
           s == SetToSeq(S)
<1>1. n \in Nat /\ ExistsBijection(1 .. n, S)
  BY FS_CardinalityType
<1> HIDE DEF n
<1>2. PICK f \in [1 .. n -> S] : IsInjective(f)
  BY <1>1 DEF ExistsBijection, Bijection, Injection
<1>3. s \in [1 .. n -> S] /\ IsInjective(s)
  BY <1>2 DEF SetToSeq, n
<1> HIDE DEF s
<1>4. s \in Injection(1 .. n, S)
  BY <1>3 DEF Injection
<1>5. Cardinality(1 .. n) = n
  BY <1>1, FS_Interval
<1>6. s \in Surjection(1 .. n, S)
  BY <1>4, <1>5, FS_Injection DEF n
<1>7. \A e \in S : \E i \in 1 .. n : s[i] = e
  BY <1>6 DEF Surjection
<1>8. s \in Seq(S) /\ Len(s) = n
  BY <1>1, <1>3
<1>9. ToSet(s) = S
  BY <1>3, <1>7 DEF ToSet
<1> QED BY <1>8, <1>9 DEF s, n

\* What SINTERSTORE stores is the intersection.
LEMMA StoresAll ==
    ASSUME NEW S, S \subseteq SetMembers, IsFiniteSet(S)
    PROVE  SetOK(Stored(SetToSeq(S))) /\ MembersOf(Stored(SetToSeq(S))) = S
<1>1. SetToSeq(S) \in Seq(S) /\ ToSet(SetToSeq(S)) = S
  BY SomeOrder
<1>2. SetToSeq(S) \in Seq(SetMembers)
  BY <1>1
<1> QED BY <1>1, <1>2, StoredHolds

-----------------------------------------------------------------------------
(* The commands of sets on one key.                                        *)

\* The promised sets before and after a step.
LEMMA SetsAre ==
    /\ \A n \in {"key", "other"} : StoredMembers[n] = Members(Holding[n])
    /\ Holding["key"] = key /\ Holding["other"] = other
    /\ DOMAIN StoredMembers = {"key", "other"} /\ DOMAIN Holding = {"key", "other"}
    /\ \A n \in {"key", "other"} : HoldsSet(n) <=> IsSet(Holding[n])
<1>1. DOMAIN Holding = {"key", "other"} /\ Holding["key"] = key /\ Holding["other"] = other
  BY DEF Holding
<1>2. DOMAIN StoredMembers = {"key", "other"}
      /\ StoredMembers["key"] = Members(key) /\ StoredMembers["other"] = Members(other)
  BY StoredMembersIs DEF Pair
<1> QED BY <1>1, <1>2 DEF HoldsSet, IsSet

\* The promise counts with the same operator.
LEMMA SameCount == \A S : PromisedSets!Cardinality(S) = Cardinality(S)
BY DEF PromisedSets!Cardinality, Cardinality

\* An entry as the contract sees it.
LEMMA EntryIs ==
    ASSUME NEW e, EntryOK(e)
    PROVE  /\ Members(e) \subseteq SetMembers /\ IsFiniteSet(Members(e))
           /\ IsSet(e) <=> Members(e) # {}
           /\ IsSet(e) => /\ SetOK(e.val) /\ MembersOf(e.val) = Members(e)
                          /\ setTypeSize(e.val) = Cardinality(Members(e))
                          /\ \A v \in SetMembers : setTypeIsMember(e.val, v) <=> v \in Members(e)
BY SetIs, FS_EmptySet DEF EntryOK, IsSet, Members

\* A step that changes the first key, and one that changes neither.
LEMMA KeyStep ==
    ASSUME IInv, NEW cmd, NEW arg, NEW rc, NEW val, Answer(cmd, arg, rc, val), EntryOK(key')
    PROVE  /\ IInv'
           /\ PromisedSets!Answering(cmd) /\ PromisedSets!Asked(arg)
           /\ PromisedSets!Answers(rc, val)
           /\ PromisedSets!Becomes(Members(key'))
           /\ Members(key') = Members(key) => StoredMembers' = StoredMembers
<1>1. other' = other /\ reply' = [cmd |-> cmd, arg |-> arg, rc |-> rc, val |-> val]
  BY DEF Answer, AnswerForBoth
<1>2. IInv'
  BY <1>1 DEF IInv
<1>3. /\ StoredMembers' = Pair(Members(key'), Members(other))
      /\ StoredMembers = Pair(Members(key), Members(other))
  BY <1>1, StoredMembersIs, StoredMembersNextIs
<1>4. StoredMembers' = [StoredMembers EXCEPT !["key"] = Members(key')]
  BY <1>3 DEF Pair
<1> QED BY <1>1, <1>2, <1>3, <1>4
        DEF PromisedSets!Answering, PromisedSets!Asked, PromisedSets!Answers, PromisedSets!Becomes

\* A command that only answers.
LEMMA SameStep ==
    ASSUME IInv, NEW cmd, NEW arg, NEW rc, NEW val, Reply(cmd, arg, rc, val)
    PROVE  /\ IInv'
           /\ PromisedSets!Answering(cmd) /\ PromisedSets!Asked(arg)
           /\ PromisedSets!Says(rc, val)
<1>1. key' = key /\ Answer(cmd, arg, rc, val) /\ EntryOK(key')
  BY DEF Reply, IInv
<1>2. Members(key') = Members(key)
  BY <1>1
<1> QED BY <1>1, <1>2, KeyStep DEF PromisedSets!Says

\* A command that is refused.
LEMMA RefusedStep ==
    ASSUME IInv, NEW cmd, NEW arg, NEW rc, Refuse(cmd, arg, rc)
    PROVE  /\ IInv'
           /\ PromisedSets!Answering(cmd) /\ PromisedSets!Asked(arg)
           /\ PromisedSets!Refuses(rc)
BY SameStep DEF Refuse, PromisedSets!Refuses

\* A command that finds no set to read.
LEMMA RefusedRead ==
    ASSUME IInv, NEW cmd, NEW arg, RefuseRead(cmd, arg, REDIS_SET)
    PROVE  /\ IInv'
           /\ PromisedSets!Answering(cmd) /\ PromisedSets!Asked(arg)
           /\ PromisedSets!Nothing
<1>1. PICK rc \in {"NOT_EXIST", "WRONG_TYPE"} : Refuse(cmd, arg, rc)
  BY DEF RefuseRead
<1>2. Members(key) = {}
  BY DEF RefuseRead, HasType, Members, IsSet
<1>3. PromisedSets!Own = {}
  BY <1>2, SetsAre DEF PromisedSets!Own
<1> QED BY <1>1, <1>3, RefusedStep DEF PromisedSets!Nothing

\* A command that finds no set to write, or another version of it.
LEMMA RefusedWrite ==
    ASSUME IInv, NEW cmd, NEW arg, NEW r, RefuseWrite(cmd, arg, REDIS_SET, r)
    PROVE  /\ IInv'
           /\ PromisedSets!Answering(cmd) /\ PromisedSets!Asked(arg)
           /\ PromisedSets!Nothing \/ (PromisedSets!Own # {} /\ PromisedSets!Conflict)
<1>1. CASE RefuseRead(cmd, arg, REDIS_SET)
  BY <1>1, RefusedRead
<1>2. CASE HasType(REDIS_SET) /\ ~VersionOK(r) /\ Refuse(cmd, arg, "VERSION_ERROR")
  <2>1. IsSet(key)
    BY <1>2 DEF VersionOK, HasType, IsSet
  <2>2. PromisedSets!Own # {}
    BY <2>1, SetsAre, EntryIs DEF IInv, PromisedSets!Own
  <2> QED BY <1>2, <2>2, RefusedStep DEF PromisedSets!Conflict
<1> QED BY <1>1, <1>2 DEF RefuseWrite

\* A key that can be read as a set.
LEMMA ReadableIs ==
    ASSUME IInv, Readable(REDIS_SET)
    PROVE  /\ IsSet(key) /\ EntryOK(key) /\ PromisedSets!Own = Members(key) /\ Members(key) # {}
           /\ key.type = REDIS_SET
<1>1. IsSet(key) /\ key.type = REDIS_SET
  BY DEF Readable, HasType, IsSet
<1> QED BY <1>1, SetsAre, EntryIs DEF IInv, PromisedSets!Own

\* SADD: a member too many is taken out again, and the set it leaves had
\* members before, since a first member is never too many.
LEMMA SaddStep ==
    ASSUME IInv, NEW e \in SetMembers, NEW r \in Requests, saddCommand(e, r)
    PROVE  IInv' /\ PromisedSets!Next
<1> DEFINE old == IF key = Absent THEN setTypeCreate(e) ELSE key.val
           new == setTypeAdd(old, e)
           less == setTypeRemove(new, e)
           own == Members(key)
<1> SUFFICES IInv' /\ PromisedSets!Answering("SADD") /\ PromisedSets!Asked(e)
             /\ PromisedSets!Add(e)
  BY DEF PromisedSets!Next
<1>1. EntryOK(key) /\ PromisedSets!Own = own
  BY SetsAre DEF IInv, PromisedSets!Own
<1>2. CASE Refuse("SADD", e, "VERSION_ERROR")
  BY <1>2, RefusedStep DEF PromisedSets!Add, PromisedSets!Conflict
<1>3. CASE ~HasType(REDIS_SET) /\ Refuse("SADD", e, "WRONG_TYPE")
  <2>1. own = {}
    BY <1>3 DEF HasType, Members, IsSet
  <2> QED BY <1>1, <1>3, <2>1, RefusedStep DEF PromisedSets!Add
<1>4. ASSUME HasType(REDIS_SET)
      PROVE  /\ SetOK(old) /\ MembersOf(old) = own /\ SetOK(new) /\ MembersOf(new) = own \cup {e}
             /\ SetOK(less) /\ MembersOf(less) = (own \cup {e}) \ {e}
             /\ setTypeIsMember(old, e) <=> e \in own
             /\ setTypeSize(new) = Cardinality(own \cup {e})
             /\ key = Absent \/ key.type = REDIS_SET
             /\ key # Absent <=> IsSet(key)
             /\ IsFiniteSet(own) /\ (IsSet(key) <=> own # {})
  <2>1. key = Absent \/ IsSet(key)
    BY <1>4 DEF HasType, IsSet
  <2>2. SetOK(old) /\ MembersOf(old) = own
    BY <1>1, <2>1, Created, EntryIs DEF Members, IsSet
  <2> HIDE DEF old
  <2>3. SetOK(new) /\ MembersOf(new) = own \cup {e}
    BY <2>2, SetAdd
  <2> HIDE DEF new
  <2>4. SetOK(less) /\ MembersOf(less) = (own \cup {e}) \ {e}
    BY <2>3, SetRemove
  <2> HIDE DEF less, own
  <2>5. /\ setTypeIsMember(old, e) <=> e \in own
        /\ setTypeSize(new) = Cardinality(own \cup {e})
    BY <2>2, <2>3, SetIs
  <2>6. (IsSet(key) <=> own # {}) /\ IsFiniteSet(own)
    BY <1>1, EntryIs DEF own
  <2>7. key # Absent <=> IsSet(key)
    BY <2>1 DEF IsSet
  <2>8. key = Absent \/ key.type = REDIS_SET
    BY <2>1 DEF IsSet
  <2> QED BY <2>2, <2>3, <2>4, <2>5, <2>6, <2>7, <2>8
<1> HIDE DEF old, new, less, own
<1>5. CASE /\ HasType(REDIS_SET) /\ setTypeIsMember(old, e)
           /\ key' = Written(REDIS_SET, old, r)
           /\ Answer("SADD", e, "ALREADY_EXIST", 0)
  <2>1. EntryOK(key') /\ Members(key') = own /\ e \in own
    BY <1>1, <1>4, <1>5, WrittenIs
  <2>2. Members(key') = Members(key)
    BY <2>1 DEF own
  <2> QED BY <1>1, <1>5, <2>1, <2>2, KeyStep
          DEF PromisedSets!Add, PromisedSets!Refuses, PromisedSets!Says
<1>6. CASE /\ HasType(REDIS_SET) /\ ~setTypeIsMember(old, e) /\ setTypeSize(new) > set_max_size
           /\ key' = [key EXCEPT !.val = less]
           /\ Answer("SADD", e, "LEN_LIMITED", 0)
  <2>1. e \notin own /\ (own \cup {e}) \ {e} = own
    BY <1>4, <1>6
  <2>2. Cardinality(own) \in Nat /\ setTypeSize(new) = Cardinality(own) + 1
    BY <1>4, <1>6, <2>1, FS_AddElement, FS_CardinalityType
  <2>3. Cardinality(own) >= set_max_size /\ Cardinality(own) # 0
    BY <1>6, <2>2, SetsAssumption
  <2>4. IsSet(key) /\ own # {}
    BY <1>4, <1>6, <2>3, FS_EmptySet
  <2>5. EntryOK(key') /\ Members(key') = own
    BY <1>1, <1>4, <1>6, <2>1, <2>4, ReplacedIs
  <2>6. Members(key') = Members(key)
    BY <2>5 DEF own
  <2> QED BY <1>1, <1>6, <2>1, <2>3, <2>5, <2>6, KeyStep, SameCount
          DEF PromisedSets!Add, PromisedSets!Refuses, PromisedSets!Says
<1>7. CASE /\ HasType(REDIS_SET) /\ ~setTypeIsMember(old, e) /\ setTypeSize(new) <= set_max_size
           /\ key' = Written(REDIS_SET, new, r)
           /\ Answer("SADD", e, "OK", 0)
  <2>1. e \notin own
    BY <1>4, <1>7
  <2>2. Cardinality(own) \in Nat /\ setTypeSize(new) = Cardinality(own) + 1
    BY <1>4, <1>7, <2>1, FS_AddElement, FS_CardinalityType
  <2>3. Cardinality(own) < set_max_size
    BY <1>7, <2>2, SetsAssumption
  <2>4. EntryOK(key') /\ Members(key') = own \cup {e}
    BY <1>1, <1>4, <1>7, WrittenIs
  <2> QED BY <1>1, <1>7, <2>1, <2>3, <2>4, KeyStep, SameCount DEF PromisedSets!Add
<1> QED BY <1>2, <1>3, <1>5, <1>6, <1>7 DEF saddCommand, old, new, less

\* A set that loses a member, and goes with the last one.
LEMMA LessStep ==
    ASSUME IInv, NEW r \in Requests, Readable(REDIS_SET), NEW e \in Members(key),
           LET less == setTypeRemove(key.val, e)
           IN  key' = IF setTypeSize(less) = 0 THEN Absent ELSE Written(REDIS_SET, less, r)
    PROVE  EntryOK(key') /\ Members(key') = Members(key) \ {e}
<1> DEFINE less == setTypeRemove(key.val, e)
<1>1. IsSet(key) /\ EntryOK(key) /\ key.type = REDIS_SET
  BY ReadableIs
<1>2. e \in SetMembers /\ SetOK(key.val) /\ MembersOf(key.val) = Members(key)
  BY <1>1, EntryIs
<1>3. SetOK(less) /\ MembersOf(less) = Members(key) \ {e}
  BY <1>2, SetRemove
<1> HIDE DEF less
<1>4. setTypeSize(less) = 0 <=> MembersOf(less) = {}
  BY <1>3, SetIs, FS_EmptySet
<1>5. CASE setTypeSize(less) = 0
  <2>1. key' = Absent
    BY <1>5 DEF less
  <2> QED BY <1>3, <1>4, <1>5, <2>1 DEF EntryOK, Members, IsSet
<1>6. CASE setTypeSize(less) # 0
  <2>1. key' = Written(REDIS_SET, less, r)
    BY <1>6 DEF less
  <2> QED BY <1>1, <1>3, <1>4, <1>6, <2>1, WrittenIs
<1> QED BY <1>5, <1>6

\* SREM.
LEMMA SremStep ==
    ASSUME IInv, NEW e \in SetMembers, NEW r \in Requests, sremCommand(e, r)
    PROVE  IInv' /\ PromisedSets!Next
<1> SUFFICES IInv' /\ PromisedSets!Answering("SREM") /\ PromisedSets!Asked(e)
             /\ PromisedSets!Remove(e)
  BY DEF PromisedSets!Next
<1>1. CASE RefuseWrite("SREM", e, REDIS_SET, r)
  BY <1>1, RefusedWrite DEF PromisedSets!Remove
<1>2. Writable(REDIS_SET, r) => Readable(REDIS_SET)
  BY DEF Writable
<1>3. CASE /\ Writable(REDIS_SET, r) /\ ~setTypeIsMember(key.val, e)
           /\ key' = [key EXCEPT !.due = ExpireOrNot(r)]
           /\ Answer("SREM", e, "NOT_EXIST", 0)
  <2>1. IsSet(key) /\ EntryOK(key) /\ PromisedSets!Own = Members(key) /\ Members(key) # {}
    BY <1>2, <1>3, ReadableIs
  <2>2. EntryOK(key') /\ Members(key') = Members(key)
    BY <1>3, <2>1, DueIs
  <2>3. e \notin Members(key)
    BY <1>3, <2>1, EntryIs
  <2> QED BY <1>3, <2>1, <2>2, <2>3, KeyStep
          DEF PromisedSets!Remove, PromisedSets!Refuses, PromisedSets!Says
<1>4. CASE /\ Writable(REDIS_SET, r) /\ setTypeIsMember(key.val, e)
           /\ LET less == setTypeRemove(key.val, e)
              IN  key' = IF setTypeSize(less) = 0 THEN Absent ELSE Written(REDIS_SET, less, r)
           /\ Answer("SREM", e, "OK", 1)
  <2>1. IsSet(key) /\ EntryOK(key) /\ PromisedSets!Own = Members(key)
    BY <1>2, <1>4, ReadableIs
  <2>2. e \in Members(key)
    BY <1>4, <2>1, EntryIs
  <2>3. EntryOK(key') /\ Members(key') = Members(key) \ {e}
    BY <1>2, <1>4, <2>2, LessStep
  <2> QED BY <1>4, <2>1, <2>2, <2>3, KeyStep DEF PromisedSets!Remove
<1> QED BY <1>1, <1>3, <1>4 DEF sremCommand

\* SPOP, whichever member it picks.
LEMMA SpopStep ==
    ASSUME IInv, NEW r \in Requests, spopCommand(r)
    PROVE  IInv' /\ PromisedSets!Next
<1> SUFFICES IInv' /\ PromisedSets!Answering("SPOP") /\ PromisedSets!Pop
  BY DEF PromisedSets!Next
<1>1. CASE RefuseWrite("SPOP", 0, REDIS_SET, r)
  BY <1>1, RefusedWrite DEF PromisedSets!Pop
<1>2. ASSUME Writable(REDIS_SET, r), NEW e \in MembersOf(key.val),
             LET less == setTypeRemove(key.val, e)
             IN  key' = IF setTypeSize(less) = 0 THEN Absent ELSE Written(REDIS_SET, less, r),
             Answer("SPOP", 0, "OK", e)
      PROVE  IInv' /\ PromisedSets!Answering("SPOP") /\ PromisedSets!Pop
  <2>1. Readable(REDIS_SET)
    BY <1>2 DEF Writable
  <2>2. IsSet(key) /\ EntryOK(key) /\ PromisedSets!Own = Members(key)
    BY <2>1, ReadableIs
  <2>3. e \in Members(key)
    BY <2>2, EntryIs
  <2>4. EntryOK(key') /\ Members(key') = Members(key) \ {e}
    BY <1>2, <2>1, <2>3, LessStep
  <2> QED BY <1>2, <2>2, <2>3, <2>4, KeyStep DEF PromisedSets!Pop
<1> QED BY <1>1, <1>2 DEF spopCommand

\* SISMEMBER.
LEMMA SismemberStep ==
    ASSUME IInv, NEW e \in SetMembers, sismemberCommand(e)
    PROVE  IInv' /\ PromisedSets!Next
<1> SUFFICES IInv' /\ PromisedSets!Answering("SISMEMBER") /\ PromisedSets!Asked(e)
             /\ PromisedSets!Contains(e)
  BY DEF PromisedSets!Next
<1>1. CASE RefuseRead("SISMEMBER", e, REDIS_SET)
  BY <1>1, RefusedRead DEF PromisedSets!Contains
<1>2. CASE /\ Readable(REDIS_SET)
           /\ Refuse("SISMEMBER", e, IF setTypeIsMember(key.val, e) THEN "OK" ELSE "CZERO")
  <2>1. IsSet(key) /\ EntryOK(key) /\ PromisedSets!Own = Members(key) /\ Members(key) # {}
    BY <1>2, ReadableIs
  <2>2. setTypeIsMember(key.val, e) <=> e \in PromisedSets!Own
    BY <2>1, EntryIs
  <2> DEFINE rc == IF setTypeIsMember(key.val, e) THEN "OK" ELSE "CZERO"
  <2>3. rc = IF e \in PromisedSets!Own THEN "OK" ELSE "CZERO"
    BY <2>2
  <2> HIDE DEF rc
  <2>4. IInv' /\ PromisedSets!Answering("SISMEMBER") /\ PromisedSets!Asked(e)
        /\ PromisedSets!Refuses(rc)
    BY <1>2, RefusedStep DEF rc
  <2> QED BY <2>1, <2>3, <2>4 DEF PromisedSets!Contains
<1> QED BY <1>1, <1>2 DEF sismemberCommand

\* SCARD.
LEMMA ScardStep ==
    ASSUME IInv, scardCommand
    PROVE  IInv' /\ PromisedSets!Next
<1> SUFFICES IInv' /\ PromisedSets!Answering("SCARD") /\ PromisedSets!Size
  BY DEF PromisedSets!Next
<1>1. CASE RefuseRead("SCARD", 0, REDIS_SET)
  BY <1>1, RefusedRead DEF PromisedSets!Size
<1>2. CASE Readable(REDIS_SET) /\ Reply("SCARD", 0, "OK", setTypeSize(key.val))
  <2>1. IsSet(key) /\ EntryOK(key) /\ PromisedSets!Own = Members(key) /\ Members(key) # {}
    BY <1>2, ReadableIs
  <2>2. setTypeSize(key.val) = Cardinality(PromisedSets!Own)
    BY <2>1, EntryIs
  <2> QED BY <1>2, <2>1, <2>2, SameStep, SameCount DEF PromisedSets!Size
<1> QED BY <1>1, <1>2 DEF scardCommand

-----------------------------------------------------------------------------
(* The commands of sets on both keys.                                      *)

Names == {"key", "other"}

\* A step that may change both keys.
LEMMA BothStep ==
    ASSUME NEW f, DOMAIN f = Names, EntryOK(f["key"]), EntryOK(f["other"]), Become(f),
           NEW cmd, NEW arg, NEW rc, NEW val, AnswerForBoth(cmd, arg, rc, val)
    PROVE  /\ IInv'
           /\ PromisedSets!Answering(cmd) /\ PromisedSets!Asked(arg)
           /\ PromisedSets!Answers(rc, val)
           /\ StoredMembers' = [n \in Names |-> Members(f[n])]
<1>1. key' = f["key"] /\ other' = f["other"]
  BY DEF Become
<1>2. IInv'
  BY <1>1 DEF IInv
<1>3. StoredMembers' = Pair(Members(f["key"]), Members(f["other"]))
  BY <1>1, StoredMembersNextIs
<1>4. Pair(Members(f["key"]), Members(f["other"])) = [n \in Names |-> Members(f[n])]
  BY DEF Pair, Names
<1> QED BY <1>2, <1>3, <1>4
        DEF AnswerForBoth, PromisedSets!Answering, PromisedSets!Asked, PromisedSets!Answers

\* The version SMOVE and SINTERSTORE send.
LEMMA VersionIs == ASSUME NEW ver \in {r.ver : r \in Requests} PROVE ver \in 0 .. VersionMax
BY RequestAssumption

\* A set stored as a new key.
LEMMA FreshIs ==
    ASSUME NEW set, SetOK(set), MembersOf(set) # {}, NEW ver \in 0 .. VersionMax
    PROVE  EntryOK(Fresh(set, ver)) /\ Members(Fresh(set, ver)) = MembersOf(set)
BY EntryMade DEF Fresh

\* SMOVE: the member leaves the one set, which goes with its last member, and
\* is in the other one, which may be new.
LEMMA SmoveStep ==
    ASSUME IInv, NEW from \in Names, NEW to \in Names, NEW e \in SetMembers,
           NEW ver \in {r.ver : r \in Requests}, smoveCommand(from, to, e, ver)
    PROVE  IInv' /\ PromisedSets!Next
<1> DEFINE arg == <<from, to, e>>
           dst == IF Holding[to] = Absent THEN Fresh(setTypeCreate(e), ver) ELSE Holding[to]
           f == [MovedOut(from, e) EXCEPT ![to] = [dst EXCEPT !.val = setTypeAdd(@, e)]]
           S == StoredMembers
<1> SUFFICES IInv' /\ PromisedSets!Answering("SMOVE") /\ PromisedSets!Asked(arg)
             /\ PromisedSets!Move(from, to, e)
  BY DEF PromisedSets!Next, Names
<1>1. \A n \in Names : /\ EntryOK(Holding[n]) /\ S[n] = Members(Holding[n])
                       /\ HoldsSet(n) <=> IsSet(Holding[n])
                       /\ HoldsSet(n) <=> S[n] # {}
                       /\ Holding[n] = Absent => ~HoldsSet(n)
  BY SetsAre, EntryIs DEF IInv, Names, HoldsSet
<1>2. DOMAIN S = Names /\ DOMAIN Holding = Names
  BY SetsAre DEF Names
<1> HIDE DEF f, dst, S, arg
<1>3. CASE Holding[from] = Absent /\ Refuse("SMOVE", arg, "CZERO")
  <2>1. e \notin S[from]
    BY <1>1, <1>3
  <2> QED BY <1>3, <2>1, RefusedStep DEF PromisedSets!Move, S
<1>4. CASE (~HoldsSet(from) \/ ~HoldsSet(to)) /\ Refuse("SMOVE", arg, "WRONG_TYPE")
  <2>1. S[from] = {} \/ S[to] = {}
    BY <1>1, <1>4
  <2> QED BY <1>4, <2>1, RefusedStep DEF PromisedSets!Move, S
<1>5. CASE HoldsSet(from) /\ from = to /\ Refuse("SMOVE", arg, "CONE")
  <2>1. S[from] # {}
    BY <1>1, <1>5
  <2> QED BY <1>5, <2>1, RefusedStep DEF PromisedSets!Move, S
<1>6. CASE /\ HoldsSet(from) /\ ~setTypeIsMember(Holding[from].val, e)
           /\ Refuse("SMOVE", arg, "CZERO")
  <2>1. e \notin S[from]
    BY <1>1, <1>6, EntryIs
  <2> QED BY <1>6, <2>1, RefusedStep DEF PromisedSets!Move, S
<1>7. CASE /\ HoldsSet(from) /\ (Holding[to] = Absent \/ HoldsSet(to)) /\ from # to
           /\ setTypeIsMember(Holding[from].val, e)
           /\ Become(f) /\ AnswerForBoth("SMOVE", arg, "CONE", 0)
  <2> DEFINE less == setTypeRemove(Holding[from].val, e)
             left == IF setTypeSize(less) = 0 THEN Absent ELSE [Holding[from] EXCEPT !.val = less]
             more == [dst EXCEPT !.val = setTypeAdd(@, e)]
  <2>1. e \in S[from] /\ SetOK(Holding[from].val) /\ MembersOf(Holding[from].val) = S[from]
    BY <1>1, <1>7, EntryIs
  <2>2. SetOK(less) /\ MembersOf(less) = S[from] \ {e}
    BY <2>1, SetRemove
  <2> HIDE DEF less
  <2>3. EntryOK(left) /\ Members(left) = S[from] \ {e}
    <3>1. setTypeSize(less) = 0 <=> MembersOf(less) = {}
      BY <2>2, SetIs, FS_EmptySet
    <3>2. EntryOK(Absent) /\ Members(Absent) = {}
      BY DEF EntryOK, Members, IsSet
    <3>3. MembersOf(less) # {} => LET g == [Holding[from] EXCEPT !.val = less]
                                  IN  EntryOK(g) /\ Members(g) = S[from] \ {e}
      BY <1>1, <1>7, <2>2, ReplacedIs
    <3> QED BY <2>2, <3>1, <3>2, <3>3
  <2>4. EntryOK(more) /\ Members(more) = S[to] \cup {e}
    <3>1. CASE Holding[to] = Absent
      <4> DEFINE new == setTypeCreate(e)
                 set == setTypeAdd(new, e)
      <4>1. SetOK(set) /\ MembersOf(set) = {} \cup {e}
        BY Created, SetAdd
      <4>2. dst = [type |-> REDIS_SET, val |-> new, ver |-> ver, due |-> NoTTL]
        BY <3>1 DEF dst, Fresh
      <4>3. more = [dst EXCEPT !.val = setTypeAdd(dst.val, e)] /\ dst.val = new
        BY <4>2
      <4> HIDE DEF new
      <4>4. more = Fresh(set, ver)
        BY <4>2, <4>3 DEF Fresh
      <4> HIDE DEF set, more
      <4>5. ver \in 0 .. VersionMax
        BY VersionIs
      <4>6. S[to] = {}
        BY <1>1, <3>1
      <4> QED BY <4>1, <4>4, <4>5, <4>6, FreshIs
    <3>2. CASE Holding[to] # Absent
      <4>1. dst = Holding[to] /\ HoldsSet(to)
        BY <1>7, <3>2 DEF dst
      <4>2. EntryOK(dst) /\ IsSet(dst) /\ SetOK(dst.val) /\ MembersOf(dst.val) = S[to]
        BY <1>1, <4>1, EntryIs
      <4> DEFINE set == setTypeAdd(dst.val, e)
      <4>3. SetOK(set) /\ MembersOf(set) = S[to] \cup {e}
        BY <4>2, SetAdd
      <4>4. more = [dst EXCEPT !.val = set]
        OBVIOUS
      <4> HIDE DEF set, more
      <4> QED BY <4>2, <4>3, <4>4, ReplacedIs
    <3> QED BY <3>1, <3>2
  <2>5. DOMAIN f = Names /\ f[from] = left /\ f[to] = more
    <3>1. MovedOut(from, e) = [Holding EXCEPT ![from] = left]
      BY DEF MovedOut, less
    <3>2. f = [MovedOut(from, e) EXCEPT ![to] = more]
      BY DEF f
    <3> HIDE DEF left, more
    <3> QED BY <1>2, <1>7, <3>1, <3>2
  <2> HIDE DEF left, more
  <2>6. EntryOK(f["key"]) /\ EntryOK(f["other"])
    BY <1>7, <2>3, <2>4, <2>5 DEF Names
  <2>7. /\ IInv' /\ PromisedSets!Answering("SMOVE") /\ PromisedSets!Asked(arg)
        /\ PromisedSets!Answers("CONE", 0)
        /\ StoredMembers' = [n \in Names |-> Members(f[n])]
    BY <1>7, <2>5, <2>6, BothStep
  <2>8. StoredMembers' = [S EXCEPT ![from] = @ \ {e}, ![to] = @ \cup {e}]
    <3> DEFINE out == [S EXCEPT ![from] = S[from] \ {e}]
               now == [out EXCEPT ![to] = out[to] \cup {e}]
    <3>1. DOMAIN now = Names /\ now[from] = S[from] \ {e} /\ now[to] = S[to] \cup {e}
      BY <1>2, <1>7
    <3>2. now = [n \in Names |-> now[n]]
      BY <1>2
    <3>3. now = [S EXCEPT ![from] = @ \ {e}, ![to] = @ \cup {e}]
      BY <1>2, <1>7
    <3> HIDE DEF now
    <3>4. \A n \in Names : now[n] = Members(f[n])
      BY <1>7, <2>3, <2>4, <2>5, <3>1 DEF Names
    <3> QED BY <2>7, <3>2, <3>3, <3>4
  <2> QED BY <1>7, <2>1, <2>7, <2>8 DEF PromisedSets!Move, S
<1> QED BY <1>3, <1>4, <1>5, <1>6, <1>7 DEF smoveCommand, f, dst, arg

-----------------------------------------------------------------------------

\* The first key without a set, if there is one.
LEMMA FirstIs ==
    ASSUME NEW names \in Intersections
    PROVE  /\ FirstWithout(names) = 0 => \A i \in DOMAIN names : HoldsSet(names[i])
           /\ FirstWithout(names) # 0 =>
                  FirstWithout(names) \in DOMAIN names /\ ~HoldsSet(names[FirstWithout(names)])
           /\ \A i \in DOMAIN names : names[i] \in Names
           /\ DOMAIN names # {}
<1> DEFINE I == {i \in 1 .. Len(names) : ~HoldsSet(names[i])}
<1>1. /\ names \in Seq(Names) /\ names # <<>> /\ DOMAIN names = 1 .. Len(names)
      /\ Len(names) \in Nat /\ \A i \in DOMAIN names : names[i] \in Names
  BY SetsAssumption DEF Names
<1>2. DOMAIN names # {}
  <2>1. \A s \in Seq(Names) : Len(s) = 0 => s = <<>>
    OBVIOUS
  <2>2. Len(names) >= 1
    BY <1>1, <2>1
  <2>3. 1 \in DOMAIN names
    BY <1>1, <2>2
  <2> QED BY <2>3
<1>3. FirstWithout(names) = IF I # {} THEN Min(I) ELSE 0
  BY DEF FirstWithout, SelectInSeq
<1>4. I # {} => Min(I) \in I
  <2> SUFFICES ASSUME I # {} PROVE Min(I) \in I
    OBVIOUS
  <2>1. I \in SUBSET Nat
    BY <1>1
  <2> HIDE DEF I
  <2>2. \E n \in I : \A m \in I : n <= m
    BY <2>1, LeastNat
  <2> QED BY <2>2 DEF Min
<1>5. 0 \notin I
  OBVIOUS
<1>6. \A i \in I : i \in DOMAIN names /\ ~HoldsSet(names[i])
  BY <1>1
<1>7. I = {} => \A i \in DOMAIN names : HoldsSet(names[i])
  BY <1>1
<1> HIDE DEF I
<1> QED BY <1>1, <1>2, <1>3, <1>4, <1>5, <1>6, <1>7

\* The members of the smallest set that are in all the others are those that
\* all sets have.
LEMMA AllIs ==
    ASSUME IInv, NEW names \in Intersections
    PROVE  /\ PromisedSets!SomeEmpty(names) <=> FirstWithout(names) # 0
           /\ PromisedSets!SomeEmpty(names) => PromisedSets!All(names) = {}
           /\ FirstWithout(names) = 0 => Common(names) = PromisedSets!All(names)
           /\ OutcomeWithout(names) \in {"NOT_EXIST", "WRONG_TYPE"}
           /\ PromisedSets!All(names) \subseteq SetMembers
           /\ FirstWithout(names) = 0 => IsFiniteSet(Common(names))
<1> DEFINE S == StoredMembers
<1>1. \A n \in Names : /\ EntryOK(Holding[n]) /\ S[n] = Members(Holding[n])
                       /\ HoldsSet(n) <=> IsSet(Holding[n])
                       /\ HoldsSet(n) <=> S[n] # {}
  BY SetsAre, EntryIs DEF IInv, Names, HoldsSet
<1>2. \A n \in Names : HoldsSet(n) =>
         /\ setTypeSize(Holding[n].val) = Cardinality(S[n]) /\ Cardinality(S[n]) \in Nat
         /\ \A v \in SetMembers : setTypeIsMember(Holding[n].val, v) <=> v \in S[n]
         /\ MembersOf(Holding[n].val) = S[n] /\ S[n] \subseteq SetMembers /\ IsFiniteSet(S[n])
  BY <1>1, EntryIs, FS_CardinalityType
<1>3. /\ PromisedSets!SomeEmpty(names) <=> \E i \in DOMAIN names : S[names[i]] = {}
      /\ PromisedSets!All(names) = {e \in SetMembers : \A i \in DOMAIN names : e \in S[names[i]]}
  BY DEF PromisedSets!SomeEmpty, PromisedSets!All
<1> HIDE DEF S
<1>4. PromisedSets!SomeEmpty(names) <=> FirstWithout(names) # 0
  BY <1>1, <1>3, FirstIs
<1>5. PromisedSets!SomeEmpty(names) => PromisedSets!All(names) = {}
  BY <1>3
<1>6. OutcomeWithout(names) \in {"NOT_EXIST", "WRONG_TYPE"}
  BY DEF OutcomeWithout
<1>7. ASSUME FirstWithout(names) = 0
      PROVE  Common(names) = PromisedSets!All(names) /\ IsFiniteSet(Common(names))
  <2> DEFINE T == ToSet(names)
             size(n) == setTypeSize(Holding[n].val)
             smallest == CHOOSE n \in T : \A m \in T : size(n) <= size(m)
             B == {size(n) : n \in T}
  <2>1. \A n \in T : n \in Names /\ HoldsSet(n)
    BY <1>7, FirstIs DEF ToSet
  <2>2. T # {}
    BY FirstIs DEF ToSet
  <2>3. \E n \in T : \A m \in T : size(n) <= size(m)
    <3>1. B \in SUBSET Nat /\ B # {}
      BY <1>2, <2>1, <2>2
    <3>2. PICK k \in B : \A j \in B : k <= j
      <4> HIDE DEF B
      <4> QED BY <3>1, LeastNat
    <3> QED BY <3>2
  <2>4. smallest \in T
    BY <2>3
  <2>5. Common(names) = {e \in MembersOf(Holding[smallest].val) :
                            \A n \in T \ {smallest} : setTypeIsMember(Holding[n].val, e)}
    BY DEF Common
  <2> HIDE DEF smallest
  <2>6. \A n \in T : n = smallest \/ n \in T \ {smallest}
    OBVIOUS
  <2>7. Common(names) = {e \in SetMembers : \A n \in T : e \in S[n]}
    <3> HIDE DEF T
    <3>1. MembersOf(Holding[smallest].val) = S[smallest] /\ S[smallest] \subseteq SetMembers
      BY <1>2, <2>1, <2>4
    <3>2. \A n \in T, e \in SetMembers : setTypeIsMember(Holding[n].val, e) <=> e \in S[n]
      BY <1>2, <2>1
    <3> QED BY <2>4, <2>5, <2>6, <3>1, <3>2
  <2>8. IsFiniteSet(Common(names))
    <3>1. IsFiniteSet(S[smallest]) /\ Common(names) \subseteq S[smallest]
      BY <1>2, <2>1, <2>4, <2>5
    <3> QED BY <3>1, FS_Subset
  <2>9. \A e : (\A n \in T : e \in S[n]) <=> (\A i \in DOMAIN names : e \in S[names[i]])
    BY DEF ToSet
  <2> QED BY <1>3, <2>7, <2>8, <2>9
<1> QED BY <1>3, <1>4, <1>5, <1>6, <1>7

\* SINTER.
LEMMA SinterStep ==
    ASSUME IInv, NEW names \in Intersections, sinterCommand(names)
    PROVE  IInv' /\ PromisedSets!Next
<1> SUFFICES IInv' /\ PromisedSets!Answering("SINTER") /\ PromisedSets!Asked(names)
             /\ PromisedSets!Intersect(names)
  BY DEF PromisedSets!Next
<1>1. CASE FirstWithout(names) # 0 /\ Refuse("SINTER", names, OutcomeWithout(names))
  BY <1>1, AllIs, RefusedStep DEF PromisedSets!Intersect
<1>2. CASE FirstWithout(names) = 0 /\ Reply("SINTER", names, "OK", Common(names))
  BY <1>2, AllIs, SameStep DEF PromisedSets!Intersect
<1> QED BY <1>1, <1>2 DEF sinterCommand

\* SINTERSTORE: into one of its own sets or not.
LEMMA SinterstoreStep ==
    ASSUME IInv, NEW dst \in Names, NEW names \in Intersections,
           NEW ver \in {r.ver : r \in Requests}, sinterstoreCommand(dst, names, ver)
    PROVE  IInv' /\ PromisedSets!Next
<1> DEFINE arg == <<dst, names>>
           S == StoredMembers
           all == PromisedSets!All(names)
           result == Stored(SetToSeq(Common(names)))
<1> SUFFICES IInv' /\ PromisedSets!Answering("SINTERSTORE") /\ PromisedSets!Asked(arg)
             /\ PromisedSets!Store(dst, names)
  BY DEF PromisedSets!Next, Names
<1>1. /\ \A n \in Names : EntryOK(Holding[n]) /\ S[n] = Members(Holding[n])
      /\ DOMAIN S = Names /\ DOMAIN Holding = Names
  BY SetsAre DEF IInv, Names
<1>2. ASSUME NEW e, EntryOK(e), Members(e) = all, NEW rc, NEW val,
             Become([Holding EXCEPT ![dst] = e]), AnswerForBoth("SINTERSTORE", arg, rc, val),
             rc = IF all = {} THEN "CZERO" ELSE "OK", val = Cardinality(all)
      PROVE  IInv' /\ PromisedSets!Answering("SINTERSTORE") /\ PromisedSets!Asked(arg)
             /\ PromisedSets!Store(dst, names)
  <2> DEFINE f == [Holding EXCEPT ![dst] = e]
  <2>1. DOMAIN f = Names /\ f[dst] = e /\ \A n \in Names \ {dst} : f[n] = Holding[n]
    BY <1>1
  <2> HIDE DEF f, arg, S, all
  <2>2. \A n \in Names : EntryOK(f[n]) /\ Members(f[n]) = IF n = dst THEN all ELSE S[n]
    BY <1>1, <1>2, <2>1
  <2>3. "key" \in Names /\ "other" \in Names
    BY DEF Names
  <2>4. Become(f)
    BY <1>2 DEF f
  <2>5. /\ IInv' /\ PromisedSets!Answering("SINTERSTORE") /\ PromisedSets!Asked(arg)
        /\ PromisedSets!Answers(rc, val)
        /\ StoredMembers' = [n \in Names |-> Members(f[n])]
    BY <1>2, <2>1, <2>2, <2>3, <2>4, BothStep
  <2>6. StoredMembers' = [S EXCEPT ![dst] = all]
    <3>1. StoredMembers' = [n \in Names |-> IF n = dst THEN all ELSE S[n]]
      BY <2>2, <2>5
    <3>2. [S EXCEPT ![dst] = all] = [n \in Names |-> IF n = dst THEN all ELSE S[n]]
      BY <1>1
    <3> QED BY <3>1, <3>2
  <2> QED BY <1>2, <2>5, <2>6, SameCount DEF PromisedSets!Store, S, all
<1>3. CASE FirstWithout(names) # 0 /\ Refuse("SINTERSTORE", arg, "WRONG_TYPE")
  <2> HIDE DEF arg
  <2> QED BY <1>3, AllIs, RefusedStep DEF PromisedSets!Store
<1>4. CASE /\ \/ FirstWithout(names) # 0
              \/ FirstWithout(names) = 0 /\ Common(names) = {}
           /\ Become([Holding EXCEPT ![dst] = Absent])
           /\ AnswerForBoth("SINTERSTORE", arg, "CZERO", 0)
  <2>1. all = {}
    BY <1>4, AllIs
  <2>2. Cardinality(all) = 0
    BY <2>1, FS_EmptySet
  <2>3. EntryOK(Absent) /\ Members(Absent) = {}
    BY DEF EntryOK, Members, IsSet
  <2> HIDE DEF all, arg
  <2> QED BY <1>2, <1>4, <2>1, <2>2, <2>3
<1>5. CASE /\ FirstWithout(names) = 0 /\ Common(names) # {}
           /\ Become([Holding EXCEPT ![dst] = Fresh(result, ver)])
           /\ AnswerForBoth("SINTERSTORE", arg, "OK", setTypeSize(result))
  <2>1. Common(names) = all /\ all # {} /\ all \subseteq SetMembers /\ IsFiniteSet(all)
    BY <1>5, AllIs
  <2> HIDE DEF all
  <2>2. SetOK(result) /\ MembersOf(result) = all
    BY <2>1, StoresAll
  <2>3. setTypeSize(result) = Cardinality(all)
    BY <2>2, SetIs
  <2> HIDE DEF result, arg
  <2>4. ver \in 0 .. VersionMax
    BY VersionIs
  <2>5. EntryOK(Fresh(result, ver)) /\ Members(Fresh(result, ver)) = all
    BY <2>1, <2>2, <2>4, FreshIs
  <2> QED BY <1>2, <1>5, <2>1, <2>3, <2>5
<1> HIDE DEF result, arg
<1> QED BY <1>3, <1>4, <1>5 DEF sinterstoreCommand, result, arg

-----------------------------------------------------------------------------

\* Every command of sets keeps the invariant and answers as the contract says.
LEMMA SetCommandStep ==
    ASSUME IInv, SetCommand
    PROVE  IInv' /\ PromisedSets!Next
<1> USE DEF Names
<1>1. ASSUME NEW r \in Requests, NEW e \in SetMembers, saddCommand(e, r) \/ sremCommand(e, r)
      PROVE  IInv' /\ PromisedSets!Next
  BY <1>1, SaddStep, SremStep
<1>2. ASSUME NEW r \in Requests, spopCommand(r) PROVE IInv' /\ PromisedSets!Next
  BY <1>2, SpopStep
<1>3. ASSUME NEW e \in SetMembers, sismemberCommand(e) PROVE IInv' /\ PromisedSets!Next
  BY <1>3, SismemberStep
<1>4. CASE scardCommand
  BY <1>4, ScardStep
<1>5. ASSUME NEW ver \in {r.ver : r \in Requests}, NEW from \in Names, NEW to \in Names,
             NEW e \in SetMembers, smoveCommand(from, to, e, ver)
      PROVE  IInv' /\ PromisedSets!Next
  BY <1>5, SmoveStep
<1>6. ASSUME NEW ver \in {r.ver : r \in Requests}, NEW dst \in Names,
             NEW names \in Intersections, sinterstoreCommand(dst, names, ver)
      PROVE  IInv' /\ PromisedSets!Next
  BY <1>6, SinterstoreStep
<1>7. ASSUME NEW names \in Intersections, sinterCommand(names)
      PROVE  IInv' /\ PromisedSets!Next
  BY <1>7, SinterStep
<1> QED BY <1>1, <1>2, <1>3, <1>4, <1>5, <1>6, <1>7 DEF SetCommand

\* What the commands of sets do to the first key: SINTERSTORE replaces whatever
\* is there, and the others touch sets only.
SetsTouched ==
    /\ reply'.cmd \in SetCommands
    /\ \/ key' = key
       \/ /\ HasType(REDIS_SET) \/ reply'.cmd = "SINTERSTORE"
          /\ HoldsOnly(key', REDIS_SET)

LEMMA SetTouches == ASSUME IInv, SetCommand PROVE SetsTouched
<1>1. /\ \A cmd, arg, rc, val :
            AnswerForBoth(cmd, arg, rc, val) /\ cmd \in SetCommands => reply'.cmd \in SetCommands
      /\ \A arg, rc, val : AnswerForBoth("SINTERSTORE", arg, rc, val) => reply'.cmd = "SINTERSTORE"
      /\ \A cmd, arg, rc, val : Answer(cmd, arg, rc, val) => AnswerForBoth(cmd, arg, rc, val)
  BY DEF AnswerForBoth, Answer
<1>2. \A cmd, arg, rc, val : Reply(cmd, arg, rc, val) /\ cmd \in SetCommands => SetsTouched
  BY <1>1 DEF Reply, SetsTouched
<1>3. /\ \A cmd, arg, rc : Refuse(cmd, arg, rc) /\ cmd \in SetCommands => SetsTouched
      /\ \A cmd, arg, type : RefuseRead(cmd, arg, type) /\ cmd \in SetCommands => SetsTouched
      /\ \A cmd, arg, type, r : RefuseWrite(cmd, arg, type, r) /\ cmd \in SetCommands => SetsTouched
  BY <1>2 DEF Refuse, RefuseRead, RefuseWrite
<1>4. /\ HoldsOnly(Absent, REDIS_SET)
      /\ \A set, r : HoldsOnly(Written(REDIS_SET, set, r), REDIS_SET)
      /\ \A set, ver : HoldsOnly(Fresh(set, ver), REDIS_SET)
  BY DEF HoldsOnly, Written, Fresh
<1>5. \A e, set : EntryOK(e) /\ e # Absent /\ e.type = REDIS_SET =>
                   HoldsOnly([e EXCEPT !.val = set], REDIS_SET)
  BY OtherReplaced
<1>6. EntryOK(key) /\ EntryOK(other)
  BY DEF IInv
<1>7. \A r : Writable(REDIS_SET, r) => HasType(REDIS_SET) /\ key # Absent /\ key.type = REDIS_SET
  BY DEF Writable, Readable, HasType
<1>8. ASSUME NEW r \in Requests, NEW e \in SetMembers, saddCommand(e, r) PROVE SetsTouched
  <2> DEFINE first == setTypeAdd(setTypeCreate(e), e)
             new == setTypeAdd(IF key = Absent THEN setTypeCreate(e) ELSE key.val, e)
  <2>1. \/ \E rc : Refuse("SADD", e, rc)
        \/ /\ HasType(REDIS_SET)
           /\ \E set : key' = Written(REDIS_SET, set, r)
           /\ \E rc, val : Answer("SADD", e, rc, val)
        \/ /\ HasType(REDIS_SET) /\ setTypeSize(new) > set_max_size
           /\ \E set : key' = [key EXCEPT !.val = set]
           /\ \E rc, val : Answer("SADD", e, rc, val)
    <3> HIDE DEF new
    <3> QED BY <1>8 DEF saddCommand, new
  <2>2. key = Absent => new = first
    OBVIOUS
  <2>3. setTypeSize(first) = 1
    <3>1. SetOK(first) /\ MembersOf(first) = {e}
      BY Created, SetAdd
    <3> HIDE DEF first
    <3> QED BY <3>1, SetIs, FS_Singleton
  <2>4. ~(1 > set_max_size)
    BY SetsAssumption
  <2> HIDE DEF new, first
  <2>5. setTypeSize(new) > set_max_size => key # Absent
    BY <2>2, <2>3, <2>4
  <2>6. "SADD" \in SetCommands
    BY DEF SetCommands
  <2>7. \A set : HasType(REDIS_SET) /\ key # Absent =>
           HoldsOnly([key EXCEPT !.val = set], REDIS_SET)
    BY <1>5, <1>6 DEF HasType
  <2>8. HasType(REDIS_SET) /\ HoldsOnly(key', REDIS_SET) /\ (\E rc, val : Answer("SADD", e, rc, val))
           => SetsTouched
    BY <1>1, <2>6 DEF SetsTouched
  <2> QED BY <1>3, <1>4, <2>1, <2>5, <2>6, <2>7, <2>8
<1>9. ASSUME NEW r \in Requests, NEW e \in SetMembers, sremCommand(e, r) PROVE SetsTouched
  <2>1. \/ RefuseWrite("SREM", e, REDIS_SET, r)
        \/ /\ Writable(REDIS_SET, r)
           /\ \/ key' = [key EXCEPT !.due = ExpireOrNot(r)]
              \/ key' = Absent
              \/ \E set : key' = Written(REDIS_SET, set, r)
           /\ \E rc, val : Answer("SREM", e, rc, val)
    BY <1>9 DEF sremCommand
  <2>2. Writable(REDIS_SET, r) => HoldsOnly([key EXCEPT !.due = ExpireOrNot(r)], REDIS_SET)
    <3>1. Writable(REDIS_SET, r) => IsSet(key)
      BY <1>7 DEF IsSet
    <3>2. IsSet(key) => LET f == [key EXCEPT !.due = ExpireOrNot(r)]
                        IN  EntryOK(f) /\ f # Absent /\ IsSet(f)
      BY <1>6, DueIs
    <3> QED BY <3>1, <3>2 DEF EntryOK, IsSet, HoldsOnly
  <2> QED BY <1>1, <1>3, <1>4, <1>7, <2>1, <2>2 DEF SetsTouched, SetCommands
<1>10. ASSUME NEW r \in Requests, spopCommand(r) PROVE SetsTouched
  <2>1. \/ RefuseWrite("SPOP", 0, REDIS_SET, r)
        \/ /\ Writable(REDIS_SET, r)
           /\ key' = Absent \/ \E set : key' = Written(REDIS_SET, set, r)
           /\ \E rc, val : Answer("SPOP", 0, rc, val)
    BY <1>10 DEF spopCommand
  <2> QED BY <1>1, <1>3, <1>4, <1>7, <2>1 DEF SetsTouched, SetCommands
<1>11. ASSUME NEW e \in SetMembers, sismemberCommand(e) PROVE SetsTouched
  BY <1>3, <1>11 DEF sismemberCommand, SetCommands
<1>12. CASE scardCommand
  BY <1>2, <1>3, <1>12 DEF scardCommand, SetCommands
<1>13. ASSUME NEW ver, NEW from \in Names, NEW to \in Names, NEW e,
              smoveCommand(from, to, e, ver)
       PROVE  SetsTouched
  <2> DEFINE dst == IF Holding[to] = Absent THEN Fresh(setTypeCreate(e), ver) ELSE Holding[to]
             into == [dst EXCEPT !.val = setTypeAdd(@, e)]
             out == MovedOut(from, e)
  <2>1. CASE \E rc : Refuse("SMOVE", <<from, to, e>>, rc)
    BY <1>3, <2>1 DEF SetCommands
  <2>2. CASE /\ HoldsSet(from) /\ (Holding[to] = Absent \/ HoldsSet(to)) /\ from # to
             /\ Become([out EXCEPT ![to] = into])
             /\ AnswerForBoth("SMOVE", <<from, to, e>>, "CONE", 0)
    <3>1. DOMAIN Holding = Names /\ Holding["key"] = key /\ Holding["other"] = other
          /\ "key" \in Names
      BY SetsAre DEF Names
    <3>2. HasType(REDIS_SET)
      BY <2>2, <3>1 DEF Names, HoldsSet, HasType
    <3>3. DOMAIN out = Names /\ (from = "key" => HoldsOnly(out["key"], REDIS_SET))
      BY <1>4, <1>5, <1>6, <2>2, <3>1 DEF MovedOut, HoldsSet
    <3>4. to = "key" => HoldsOnly(into, REDIS_SET)
      <4> DEFINE set == setTypeCreate(e)
      <4>1. [Fresh(set, ver) EXCEPT !.val = setTypeAdd(@, e)] = Fresh(setTypeAdd(set, e), ver)
        BY DEF Fresh
      <4>2. CASE to = "key" /\ Holding[to] = Absent
        BY <1>4, <4>1, <4>2
      <4>3. CASE to = "key" /\ HoldsSet(to)
        BY <1>5, <1>6, <3>1, <4>3 DEF HoldsSet
      <4> QED BY <2>2, <4>2, <4>3
    <3> HIDE DEF into, out
    <3>5. key' = IF to = "key" THEN into ELSE out["key"]
      BY <2>2, <3>1, <3>3 DEF Become
    <3>6. to = "key" \/ from = "key"
      BY <2>2 DEF Names
    <3> QED BY <1>1, <2>2, <3>2, <3>3, <3>4, <3>5, <3>6 DEF SetsTouched, SetCommands
  <2> QED BY <1>13, <2>1, <2>2 DEF smoveCommand
<1>14. ASSUME NEW ver, NEW dst \in Names, NEW names, sinterstoreCommand(dst, names, ver)
       PROVE  SetsTouched
  <2>1. CASE Refuse("SINTERSTORE", <<dst, names>>, "WRONG_TYPE")
    BY <1>3, <2>1 DEF SetCommands
  <2>2. ASSUME NEW e, HoldsOnly(e, REDIS_SET), Become([Holding EXCEPT ![dst] = e]),
               NEW rc, NEW val, AnswerForBoth("SINTERSTORE", <<dst, names>>, rc, val)
        PROVE  SetsTouched
    <3>1. DOMAIN Holding = Names /\ Holding["key"] = key /\ "key" \in Names
      BY SetsAre DEF Names
    <3>2. key' = IF dst = "key" THEN e ELSE key
      BY <2>2, <3>1 DEF Become
    <3> QED BY <1>1, <2>2, <3>2 DEF SetsTouched, SetCommands
  <2> QED BY <1>4, <1>14, <2>1, <2>2 DEF sinterstoreCommand
<1>15. ASSUME NEW names, sinterCommand(names) PROVE SetsTouched
  BY <1>2, <1>3, <1>15 DEF sinterCommand, SetCommands
<1> QED BY <1>8, <1>9, <1>10, <1>11, <1>12, <1>13, <1>14, <1>15 DEF SetCommand, Names

\* The commands of the other types.
LEMMA OthersStep ==
    ASSUME IInv, Keeps(REDIS_LIST, ListCommands) \/ Keeps(REDIS_HASH, HashCommands)
    PROVE  IInv' /\ PromisedSets!Next
<1>1. ASSUME NEW type \in {REDIS_LIST, REDIS_HASH}, HasType(type), HoldsOnly(key', type)
      PROVE  EntryOK(key') /\ Members(key') = {} /\ ~IsSet(key)
  BY <1>1, TypesAssumption DEF HoldsOnly, EntryOK, Members, IsSet, HasType
<1>2. ~IsSet(key) => Members(key) = {}
  BY DEF Members
<1>3. EntryOK(key') /\ Members(key') = Members(key) /\ other' = other
  BY <1>1, <1>2 DEF Keeps, IInv
<1>4. IInv'
  BY <1>3 DEF IInv
<1>5. StoredMembers' = StoredMembers
  BY <1>3, StoredMembersIs, StoredMembersNextIs
<1>6. reply'.cmd \notin SetCommands \cup {"NONE"}
  BY DEF Keeps, ListCommands, HashCommands, SetCommands
<1> QED BY <1>5, <1>4, <1>6 DEF PromisedSets!Next

\* Keys that go, and keys another type's command stores.
LEMMA GoingStep ==
    ASSUME IInv, Goes \/ StoredOtherwise \/ OtherGoes \/ OtherStored
    PROVE  IInv' /\ PromisedSets!Next
<1> DEFINE string == [type |-> REDIS_STRING, val |-> 0, ver |-> 0, due |-> NoTTL]
<1>1. EntryOK(Absent) /\ Members(Absent) = {}
  BY DEF EntryOK, Members, IsSet
<1>2. EntryOK(string) /\ Members(string) = {}
  BY SetMarkAssumption DEF EntryOK, Members, IsSet
<1> HIDE DEF string
<1>3. /\ reply' = NoReply
      /\ \/ key' \in {Absent, string} /\ other' = other
            /\ Members(key') = {}
         \/ other' \in {Absent, string} /\ key' = key
            /\ Members(other') = {}
  BY <1>1, <1>2 DEF Goes, StoredOtherwise, OtherGoes, OtherStored, string
<1>4. IInv'
  BY <1>1, <1>2, <1>3 DEF IInv
<1>5. PromisedSets!Answering("NONE")
  BY <1>3 DEF NoReply, PromisedSets!Answering
<1>6. StoredMembers = Pair(Members(key), Members(other))
      /\ StoredMembers' = Pair(Members(key'), Members(other'))
  BY StoredMembersIs, StoredMembersNextIs
<1>7. PromisedSets!Gone
  <2>1. \/ StoredMembers' = [StoredMembers EXCEPT !["key"] = {}]
        \/ StoredMembers' = [StoredMembers EXCEPT !["other"] = {}]
    BY <1>3, <1>6 DEF Pair
  <2>2. DOMAIN StoredMembers = {"key", "other"}
    BY <1>6 DEF Pair
  <2> HIDE DEF string
  <2> QED BY <2>1, <2>2 DEF PromisedSets!Gone
<1> QED BY <1>4, <1>5, <1>7 DEF PromisedSets!Next

\* The first state.
LEMMA InitHolds == ASSUME Init PROVE IInv /\ PromisedSets!Init
<1>1. key = Absent /\ other = Absent /\ reply.cmd = "NONE"
  BY DEF Init, TypedInit, NoReply
<1>2. IInv /\ Members(key) = {} /\ Members(other) = {}
  BY <1>1 DEF IInv, EntryOK, Members, IsSet
<1> QED BY <1>1, <1>2, StoredMembersIs DEF Pair, PromisedSets!Init

\* Every step keeps the invariant and is a step of the contract, or none.
LEMMA StepHolds ==
    ASSUME IInv, [Next]_typedVars
    PROVE  IInv' /\ [PromisedSets!Next]_(PromisedSets!vars)
<1>1. CASE ListCommand \/ HashCommand
  BY <1>1, ListKeeps, HashKeeps, OthersStep DEF IInv
<1>2. CASE SetCommand
  BY <1>2, SetCommandStep
<1>3. CASE Goes \/ StoredOtherwise \/ OtherGoes \/ OtherStored
  BY <1>3, GoingStep
<1>4. CASE UNCHANGED typedVars
  <2>1. key' = key /\ other' = other /\ reply' = reply
    BY <1>4 DEF typedVars
  <2>2. StoredMembers' = StoredMembers
    BY <2>1, StoredMembersIs, StoredMembersNextIs
  <2> QED BY <2>1, <2>2 DEF IInv, PromisedSets!vars
<1> QED BY <1>1, <1>2, <1>3, <1>4 DEF Next

\* Whatever the commands of the three types do, each key that holds a set holds
\* a well-formed one with members.
THEOREM SetsStayOK == Spec => []IInv
<1>1. Init => IInv
  BY InitHolds
<1>2. IInv /\ [Next]_typedVars => IInv'
  BY StepHolds
<1> QED BY <1>1, <1>2, PTL DEF Spec

\* A stored set is what the invariant says of its entry.
LEMMA StoredSetIs ==
    ASSUME IInv, NEW n \in DOMAIN Holding, HoldsSet(n)
    PROVE  SetOK(Holding[n].val) /\ MembersOf(Holding[n].val) # {}
<1>1. n \in Names /\ (n = "key" => Holding[n] = key) /\ (n = "other" => Holding[n] = other)
  BY SetsAre DEF Names
<1>2. EntryOK(Holding[n])
  BY <1>1 DEF IInv, Names
<1> QED BY <1>2 DEF EntryOK, HoldsSet

\* The intset of every stored set can be read whole and is in order: the
\* upgrade in place (intset.c:107-130), the memmoves and the binary search
\* agree on where the integers are.
THEOREM IntsetsStayWhole == Spec => []IntsetsWhole
<1>1. IInv => IntsetsWhole
  BY StoredSetIs, SetIs DEF IntsetsWhole, StoredIntset
<1> QED BY <1>1, SetsStayOK, PTL

\* No set is stored empty, and none stays an intset beyond its limit, whichever
\* command of t_set.c made it shrink or grow.
THEOREM SetEncodingsFit == Spec => []SetEncodingFits
<1>1. ASSUME IInv, NEW n \in DOMAIN Holding, HoldsSet(n)
      PROVE  /\ setTypeSize(Holding[n].val) > 0
             /\ StoredIntset(n) => setTypeSize(Holding[n].val) <= set_max_intset_entries
  <2> DEFINE set == Holding[n].val
  <2>1. SetOK(set) /\ MembersOf(set) # {}
    BY <1>1, StoredSetIs
  <2> HIDE DEF set
  <2>2. setTypeSize(set) \in Nat /\ setTypeSize(set) # 0
    BY <2>1, SetIs, FS_CardinalityType, FS_EmptySet
  <2>3. IsIntset(set) => setTypeSize(set) <= set_max_intset_entries
    BY <2>1, SetIs DEF setTypeSize
  <2> QED BY <2>2, <2>3 DEF set, StoredIntset
<1>2. IInv => SetEncodingFits
  BY <1>1 DEF SetEncodingFits, StoredIntset
<1> QED BY <1>2, SetsStayOK, PTL

\* Sets behind both of their encodings implement MemberSets: every command of
\* t_set.c answers, adds, removes, moves and intersects as plain sets would.
THEOREM SetsImplementMemberSets == Spec => ImplementsMemberSets
<1>1. Init => PromisedSets!Init
  BY InitHolds
<1>2. IInv /\ [Next]_typedVars => [PromisedSets!Next]_(PromisedSets!vars)
  BY StepHolds
<1> QED BY <1>1, <1>2, SetsStayOK, PTL DEF Spec, ImplementsMemberSets, PromisedSets!Spec

-----------------------------------------------------------------------------
(* Zipmaps.                                                                *)

\* A zipmap as the commands keep it.
ZipmapOK(zm) ==
    /\ zm = [len |-> zm.len, bytes |-> zm.bytes, entries |-> zm.entries]
    /\ zm.len \in Nat /\ zm.entries \in Seq(ZipmapEntries)
    /\ WalkEndsAtEnd(zm) /\ CountsFields(zm)

\* Its fields, and what it says of them.
ZipFields(zm) == {zm.entries[i].field : i \in DOMAIN zm.entries}
ZipMap(zm) == [f \in ZipFields(zm) |-> zipmapGet(zm, f)]

\* The lengths of entries, and their sum.
RawLengths(s) == [i \in DOMAIN s |-> zipmapRawEntryLength(s[i])]
Bytes(s) == SumFunctionOnSet(RawLengths(s), 1 .. Len(s))

\* An entry takes what is required for its strings, and what is left free.
LEMMA RawLengthIs ==
    ASSUME NEW f \in Fields, NEW v \in HashValues, NEW n \in Nat
    PROVE  /\ zipmapRequiredLength(f, v) \in Nat
           /\ zipmapRawEntryLength([field |-> f, val |-> v, free |-> n]) =
                 zipmapRequiredLength(f, v) + n
<1> DEFINE a == StringSize[f]
           b == StringSize[v]
<1>1. a \in Nat /\ b \in Nat
  BY HashesAssumption
<1>2. zipmapRequiredLength(f, v) = a + b + 3 + (IF a >= ZIPMAP_BIGLEN THEN 4 ELSE 0)
                                     + (IF b >= ZIPMAP_BIGLEN THEN 4 ELSE 0)
  BY DEF zipmapRequiredLength
<1>3. zipmapRawEntryLength([field |-> f, val |-> v, free |-> n]) =
         ((IF a < ZIPMAP_BIGLEN THEN 1 ELSE 5) + a) + ((IF b < ZIPMAP_BIGLEN THEN 1 ELSE 5) + b)
         + 1 + n
  BY DEF zipmapRawEntryLength, Encoded
<1>4. ZIPMAP_BIGLEN \in Nat
  BY HashesAssumption
<1> HIDE DEF a, b
<1> QED BY <1>1, <1>2, <1>3, <1>4

\* An entry of a zipmap.
LEMMA EntryLength ==
    ASSUME NEW e \in ZipmapEntries
    PROVE  /\ e = [field |-> e.field, val |-> e.val, free |-> e.free]
           /\ e.field \in Fields /\ e.val \in HashValues /\ e.free \in 0 .. 3
           /\ zipmapRawEntryLength(e) \in Nat
           /\ zipmapRawEntryLength(e) = zipmapRequiredLength(e.field, e.val) + e.free
<1>1. /\ e = [field |-> e.field, val |-> e.val, free |-> e.free]
      /\ e.field \in Fields /\ e.val \in HashValues /\ e.free \in 0 .. 3
  BY DEF ZipmapEntries, ZIPMAP_VALUE_MAX_FREE
<1>2. zipmapRawEntryLength(e) = zipmapRequiredLength(e.field, e.val) + e.free
      /\ zipmapRequiredLength(e.field, e.val) \in Nat
  <2> DEFINE f == e.field
             v == e.val
             n == e.free
  <2>1. e = [field |-> f, val |-> v, free |-> n] /\ f \in Fields /\ v \in HashValues /\ n \in Nat
    BY <1>1
  <2> HIDE DEF f, v, n
  <2>2. zipmapRawEntryLength(e) = zipmapRequiredLength(f, v) + n /\ zipmapRequiredLength(f, v) \in Nat
    BY <2>1, RawLengthIs
  <2> QED BY <2>2 DEF f, v, n
<1> QED BY <1>1, <1>2

\* The lengths are naturals, and so is their sum.
LEMMA BytesIs ==
    ASSUME NEW s \in Seq(ZipmapEntries)
    PROVE  /\ Bytes(s) \in Nat
           /\ \A zm : zm.entries = s => TotalLength(zm) = 2 + Bytes(s)
           /\ \A i \in 1 .. Len(s) :
                 /\ RawLengths(s)[i] = zipmapRawEntryLength(s[i])
                 /\ RawLengths(s)[i] \in Nat
<1>1. DOMAIN s = 1 .. Len(s) /\ Len(s) \in Nat
  OBVIOUS
<1>2. \A i \in 1 .. Len(s) : /\ RawLengths(s)[i] = zipmapRawEntryLength(s[i])
                             /\ RawLengths(s)[i] \in Nat
  BY EntryLength DEF RawLengths
<1>3. Bytes(s) \in Nat
  <2>1. IsFiniteSet(1 .. Len(s))
    BY <1>1, FS_Interval
  <2> QED BY <1>2, <2>1, SumNat DEF Bytes
<1>4. ASSUME NEW zm, zm.entries = s PROVE TotalLength(zm) = 2 + Bytes(s)
  <2>1. TotalLength(zm) = 2 + SumFunctionOnSet(RawLengths(s), DOMAIN RawLengths(s))
    BY <1>4 DEF TotalLength, SumFunction, RawLengths
  <2>2. DOMAIN RawLengths(s) = 1 .. Len(s)
    BY <1>1 DEF RawLengths
  <2> QED BY <2>1, <2>2 DEF Bytes
<1> QED BY <1>2, <1>3, <1>4

\* An entry more at the end.
LEMMA BytesAppended ==
    ASSUME NEW s \in Seq(ZipmapEntries), NEW e \in ZipmapEntries
    PROVE  Bytes(Append(s, e)) = Bytes(s) + zipmapRawEntryLength(e)
<1> DEFINE t == Append(s, e)
           n == Len(s)
           f == RawLengths(t)
           g == RawLengths(s)
<1>1. /\ t \in Seq(ZipmapEntries) /\ Len(t) = n + 1 /\ n \in Nat
      /\ t[n + 1] = e /\ \A i \in 1 .. n : t[i] = s[i]
  OBVIOUS
<1>2. \A i \in 1 .. n + 1 : f[i] = zipmapRawEntryLength(t[i]) /\ f[i] \in Nat
  BY <1>1, BytesIs
<1>3. \A i \in 1 .. n : g[i] = zipmapRawEntryLength(s[i]) /\ g[i] \in Nat
  BY <1>1, BytesIs
<1> HIDE DEF t, f, g, n
<1>4. SumFunctionOnSet(f, 1 .. n + 1) = SumFunctionOnSet(f, 1 .. n) + f[n + 1]
  BY <1>1, <1>2, SumUpTo
<1>5. SumFunctionOnSet(f, 1 .. n) = SumFunctionOnSet(g, 1 .. n)
  <2>1. IsFiniteSet(1 .. n)
    BY <1>1, FS_Interval
  <2>2. \A i \in 1 .. n : f[i] \in Int /\ f[i] = g[i]
    BY <1>1, <1>2, <1>3
  <2> QED BY <2>1, <2>2, SumCongruent
<1>6. f[n + 1] = zipmapRawEntryLength(e)
  BY <1>1, <1>2
<1> QED BY <1>1, <1>4, <1>5, <1>6 DEF Bytes, t, f, g, n

\* An entry replaced.
LEMMA BytesReplaced ==
    ASSUME NEW s \in Seq(ZipmapEntries), NEW p, p \in 1 .. Len(s), NEW e \in ZipmapEntries
    PROVE  Bytes([s EXCEPT ![p] = e]) =
              Bytes(s) - zipmapRawEntryLength(s[p]) + zipmapRawEntryLength(e)
<1> DEFINE t == [s EXCEPT ![p] = e]
           n == Len(s)
           f == RawLengths(t)
           g == RawLengths(s)
<1>1. /\ t \in Seq(ZipmapEntries) /\ Len(t) = n /\ n \in Nat /\ p \in 1 .. n
      /\ t[p] = e /\ \A i \in 1 .. n : i # p => t[i] = s[i]
  OBVIOUS
<1>2. \A i \in 1 .. n : f[i] = zipmapRawEntryLength(t[i]) /\ f[i] \in Nat
  BY <1>1, BytesIs
<1>3. \A i \in 1 .. n : g[i] = zipmapRawEntryLength(s[i]) /\ g[i] \in Nat
  BY <1>1, BytesIs
<1> HIDE DEF t, f, g, n
<1>4. SumFunctionOnSet(f, 1 .. n) = SumFunctionOnSet(g, 1 .. n) + (f[p] - g[p])
  <2>1. IsFiniteSet(1 .. n)
    BY <1>1, FS_Interval
  <2>2. \A i \in 1 .. n : f[i] \in Int /\ g[i] \in Int /\ (i # p => f[i] = g[i])
    BY <1>1, <1>2, <1>3
  <2> DEFINE D == 1 .. n
  <2>3. p \in D /\ IsFiniteSet(D)
    BY <1>1, <2>1
  <2>4. \A i \in D : f[i] \in Int /\ g[i] \in Int /\ (i # p => f[i] = g[i])
    BY <2>2
  <2> HIDE DEF D
  <2>5. SumFunctionOnSet(f, D) =
           SumFunctionOnSet(g, D) + (IF p \in D THEN f[p] - g[p] ELSE 0)
    BY ONLY <2>3, <2>4, SumChange
  <2> QED BY <2>3, <2>5 DEF D
<1>5. f[p] = zipmapRawEntryLength(e) /\ g[p] = zipmapRawEntryLength(s[p])
      /\ f[p] \in Nat /\ g[p] \in Nat
  BY <1>1, <1>2, <1>3
<1>6. Bytes(s) = SumFunctionOnSet(g, 1 .. n) /\ Bytes(t) = SumFunctionOnSet(f, 1 .. n)
      /\ Bytes(s) \in Nat
  BY <1>1, BytesIs DEF Bytes, f, g, n
<1> QED BY <1>4, <1>5, <1>6 DEF t

\* An entry removed, those behind it moved up.
LEMMA BytesRemoved ==
    ASSUME NEW s \in Seq(ZipmapEntries), NEW p, p \in 1 .. Len(s)
    PROVE  /\ RemoveAt(s, p) \in Seq(ZipmapEntries) /\ Len(RemoveAt(s, p)) = Len(s) - 1
           /\ \A i \in 1 .. Len(s) - 1 : RemoveAt(s, p)[i] = IF i < p THEN s[i] ELSE s[i + 1]
           /\ Bytes(RemoveAt(s, p)) = Bytes(s) - zipmapRawEntryLength(s[p])
<1> DEFINE t == RemoveAt(s, p)
           n == Len(s)
           f == RawLengths(s)
           g == RawLengths(t)
           a == SubSeq(s, 1, p - 1)
           b == SubSeq(s, p + 1, Len(s))
<1>1. /\ a \in Seq(ZipmapEntries) /\ Len(a) = p - 1 /\ \A i \in 1 .. p - 1 : a[i] = s[i]
      /\ b \in Seq(ZipmapEntries) /\ Len(b) = n - p /\ \A i \in 1 .. n - p : b[i] = s[i + p]
  OBVIOUS
<1>2. t = a \o b
  BY DEF RemoveAt
<1> HIDE DEF t, a, b
<1>3. /\ t \in Seq(ZipmapEntries) /\ Len(t) = n - 1 /\ n \in Nat /\ p \in 1 .. n
      /\ \A i \in 1 .. n - 1 : t[i] = IF i < p THEN s[i] ELSE s[i + 1]
  <2>1. n \in Nat /\ p \in 1 .. n
    OBVIOUS
  <2> HIDE DEF n
  <2>2. t \in Seq(ZipmapEntries) /\ Len(t) = n - 1
    <3>1. a \in Seq(ZipmapEntries) /\ b \in Seq(ZipmapEntries)
      BY <1>1
    <3>2. t \in Seq(ZipmapEntries) /\ Len(t) = Len(a) + Len(b)
      BY ONLY <1>2, <3>1
    <3> QED BY <1>1, <2>1, <3>2
  <2>3. ASSUME NEW i \in 1 .. n - 1 PROVE t[i] = IF i < p THEN s[i] ELSE s[i + 1]
    <3>1. i < p => t[i] = a[i]
      BY <1>1, <1>2, <2>1
    <3>2. ~(i < p) => t[i] = b[i - (p - 1)] /\ i - (p - 1) \in 1 .. n - p
      BY <1>1, <1>2, <2>1
    <3> QED BY <1>1, <2>1, <3>1, <3>2
  <2> QED BY <2>1, <2>2, <2>3
<1>4. \A i \in 1 .. n - 1 : g[i] = zipmapRawEntryLength(t[i]) /\ g[i] \in Nat
  BY <1>3, BytesIs
<1>5. \A i \in 1 .. n : f[i] = zipmapRawEntryLength(s[i]) /\ f[i] \in Nat
  BY <1>3, BytesIs
<1> HIDE DEF f, g, n
<1>6. SumFunctionOnSet(g, 1 .. n - 1) = SumFunctionOnSet(f, 1 .. n) - f[p]
  <2>1. \A i \in 1 .. n - 1 : g[i] = IF i < p THEN f[i] ELSE f[i + 1]
    <3> TAKE i \in 1 .. n - 1
    <3>1. i < p => i \in 1 .. n
      BY <1>3
    <3>2. ~(i < p) => i + 1 \in 1 .. n
      BY <1>3
    <3>3. g[i] = zipmapRawEntryLength(t[i])
      BY <1>4
    <3> QED BY <1>3, <1>5, <3>1, <3>2, <3>3
  <2>2. \A i \in 1 .. n : f[i] \in Int
    BY <1>5
  <2> QED BY <1>3, <2>1, <2>2, SumWithout
<1> QED BY <1>3, <1>5, <1>6 DEF Bytes, t, f, g, n

-----------------------------------------------------------------------------
(* What the functions of zipmap.c do to a zipmap.                          *)

\* The walk that looks for a field finds its entry.
LEMMA LookupFinds ==
    ASSUME NEW zm, zm.entries \in Seq(ZipmapEntries), CountsFields(zm), NEW f
    PROVE  LET p == zipmapLookupRaw(zm, f)
           IN  /\ p = 0 => f \notin ZipFields(zm)
               /\ p # 0 => p \in 1 .. Len(zm.entries) /\ zm.entries[p].field = f
                           /\ f \in ZipFields(zm)
               /\ \A i \in 1 .. Len(zm.entries) : zm.entries[i].field = f => i = p
               /\ p \in Nat
<1> DEFINE s == zm.entries
           I == {i \in 1 .. Len(s) : s[i].field = f}
           p == zipmapLookupRaw(zm, f)
<1>1. p = IF I # {} THEN Min(I) ELSE 0
  BY DEF zipmapLookupRaw, SelectInSeq
<1>2. I \in SUBSET Nat
  OBVIOUS
<1>3. ASSUME I # {} PROVE p \in I
  <2> HIDE DEF I
  <2>1. \E n \in I : \A m \in I : n <= m
    BY <1>2, <1>3, LeastNat
  <2>2. Min(I) \in I
    BY <2>1 DEF Min
  <2> QED BY <1>1, <1>3, <2>2
<1>4. DOMAIN s = 1 .. Len(s)
  OBVIOUS
<1>5. ZipFields(zm) = {s[i].field : i \in 1 .. Len(s)}
  BY <1>4 DEF ZipFields
<1> HIDE DEF p
<1>6. I = {} => p = 0 /\ f \notin ZipFields(zm)
  BY <1>1, <1>5
<1>7. I # {} => /\ p \in 1 .. Len(s) /\ s[p].field = f /\ f \in ZipFields(zm)
                /\ p # 0 /\ p \in Nat
  BY <1>3, <1>5
<1>8. \A i \in 1 .. Len(s) : s[i].field = f => i = p
  <2> TAKE i \in 1 .. Len(s)
  <2> HAVE s[i].field = f
  <2>1. p \in 1 .. Len(s) /\ s[p].field = f
    BY <1>3
  <2> QED BY <1>4, <2>1 DEF CountsFields
<1> QED BY <1>6, <1>7, <1>8 DEF p

\* The map of a zipmap, entry by entry.
LEMMA ZipMapIs ==
    ASSUME NEW zm, zm.entries \in Seq(ZipmapEntries), CountsFields(zm)
    PROVE  /\ DOMAIN ZipMap(zm) = ZipFields(zm)
           /\ \A i \in 1 .. Len(zm.entries) :
                 /\ zm.entries[i].field \in ZipFields(zm)
                 /\ ZipMap(zm)[zm.entries[i].field] = zm.entries[i].val
           /\ \A f \in ZipFields(zm) : \E i \in 1 .. Len(zm.entries) : zm.entries[i].field = f
           /\ ZipFields(zm) \subseteq Fields
           /\ \A f \in ZipFields(zm) : ZipMap(zm)[f] \in HashValues
<1> DEFINE s == zm.entries
<1>1. DOMAIN s = 1 .. Len(s) /\ \A i \in 1 .. Len(s) : s[i] \in ZipmapEntries
  OBVIOUS
<1>2. ZipFields(zm) = {s[i].field : i \in 1 .. Len(s)}
  BY <1>1 DEF ZipFields
<1>3. \A i \in 1 .. Len(s) : s[i].field \in Fields /\ s[i].val \in HashValues
  BY <1>1 DEF ZipmapEntries
<1>4. ASSUME NEW i \in 1 .. Len(s)
      PROVE  s[i].field \in ZipFields(zm) /\ ZipMap(zm)[s[i].field] = s[i].val
  <2>1. s[i].field \in ZipFields(zm)
    BY <1>2
  <2>2. zipmapLookupRaw(zm, s[i].field) = i
    BY LookupFinds
  <2> QED BY <2>1, <2>2 DEF ZipMap, zipmapGet
<1>5. DOMAIN ZipMap(zm) = ZipFields(zm)
  BY DEF ZipMap
<1> HIDE DEF s
<1>6. \A f \in ZipFields(zm) : \E i \in 1 .. Len(s) : s[i].field = f
  BY <1>2
<1> QED BY <1>2, <1>3, <1>4, <1>5, <1>6 DEF s

\* A zipmap of some entries, with the size the walk finds and a count that is
\* right while it counts.
LEMMA ZipmapMade ==
    ASSUME NEW s \in Seq(ZipmapEntries), NEW len \in Nat, NEW bytes, bytes = 2 + Bytes(s),
           \A i, j \in 1 .. Len(s) : s[i].field = s[j].field => i = j,
           len < ZIPMAP_BIGLEN => len = Len(s)
    PROVE  ZipmapOK([len |-> len, bytes |-> bytes, entries |-> s])
<1> DEFINE zm == [len |-> len, bytes |-> bytes, entries |-> s]
<1>1. zm.entries = s /\ zm.len = len /\ zm.bytes = bytes
  OBVIOUS
<1>2. TotalLength(zm) = 2 + Bytes(s)
  BY <1>1, BytesIs
<1>3. zm = [len |-> zm.len, bytes |-> zm.bytes, entries |-> zm.entries]
  OBVIOUS
<1>4. DOMAIN s = 1 .. Len(s)
  OBVIOUS
<1> HIDE DEF zm
<1> QED BY <1>1, <1>2, <1>3, <1>4 DEF ZipmapOK, WalkEndsAtEnd, CountsFields

\* What a zipmap is, field by field.
LEMMA ZipmapParts ==
    ASSUME NEW zm, ZipmapOK(zm)
    PROVE  /\ zm.entries \in Seq(ZipmapEntries) /\ zm.len \in Nat
           /\ DOMAIN zm.entries = 1 .. Len(zm.entries) /\ Len(zm.entries) \in Nat
           /\ zm.bytes = 2 + Bytes(zm.entries) /\ TotalLength(zm) = 2 + Bytes(zm.entries)
           /\ CountsFields(zm)
           /\ \A i, j \in 1 .. Len(zm.entries) :
                 zm.entries[i].field = zm.entries[j].field => i = j
           /\ zm.len < ZIPMAP_BIGLEN => zm.len = Len(zm.entries)
<1>1. zm.entries \in Seq(ZipmapEntries) /\ zm.len \in Nat /\ CountsFields(zm)
      /\ zm.bytes = TotalLength(zm)
  BY DEF ZipmapOK, WalkEndsAtEnd
<1>2. TotalLength(zm) = 2 + Bytes(zm.entries)
  BY <1>1, BytesIs
<1>3. DOMAIN zm.entries = 1 .. Len(zm.entries) /\ Len(zm.entries) \in Nat
  BY <1>1
<1> QED BY <1>1, <1>2, <1>3 DEF CountsFields

\* A field that is not there comes last.
LEMMA SetNew ==
    ASSUME NEW zm, ZipmapOK(zm), NEW f \in Fields, NEW v \in HashValues, f \notin ZipFields(zm)
    PROVE  LET new == zipmapSet(zm, f, v)
               e == [field |-> f, val |-> v, free |-> 0]
           IN  /\ ZipmapOK(new)
               /\ new.entries = Append(zm.entries, e)
               /\ ZipMap(new) = SetInDict(ZipMap(zm), f, v)
<1> DEFINE e == [field |-> f, val |-> v, free |-> 0]
           s == zm.entries
           t == Append(s, e)
           len == IF zm.len < ZIPMAP_BIGLEN THEN zm.len + 1 ELSE zm.len
           bytes == TotalLength(zm) + zipmapRequiredLength(f, v)
           new == zipmapSet(zm, f, v)
<1>1. zipmapLookupRaw(zm, f) = 0
  BY LookupFinds, ZipmapParts
<1>2. new = [len |-> len, bytes |-> bytes, entries |-> t]
  BY <1>1 DEF zipmapSet
<1>3. e \in ZipmapEntries /\ zipmapRawEntryLength(e) = zipmapRequiredLength(f, v)
      /\ zipmapRequiredLength(f, v) \in Nat /\ e.field = f /\ e.val = v
  BY RawLengthIs DEF ZipmapEntries, ZIPMAP_VALUE_MAX_FREE
<1> HIDE DEF e
<1>4. /\ s \in Seq(ZipmapEntries) /\ zm.len \in Nat /\ Len(s) \in Nat
      /\ \A i, j \in 1 .. Len(s) : s[i].field = s[j].field => i = j
      /\ zm.len < ZIPMAP_BIGLEN => zm.len = Len(s)
      /\ TotalLength(zm) = 2 + Bytes(s) /\ Bytes(s) \in Nat
  BY ZipmapParts, BytesIs
<1> HIDE DEF s
<1>5. /\ t \in Seq(ZipmapEntries) /\ Len(t) = Len(s) + 1
      /\ t[Len(s) + 1] = e /\ \A i \in 1 .. Len(s) : t[i] = s[i]
  BY <1>3, <1>4
<1>6. bytes = 2 + Bytes(t)
  BY <1>3, <1>4, BytesAppended
<1>7. \A i \in 1 .. Len(s) : s[i].field # f
  BY LookupFinds, ZipmapParts, <1>1 DEF s
<1> HIDE DEF t, new
<1>8. \A i, j \in 1 .. Len(t) : t[i].field = t[j].field => i = j
  <2>1. \A i \in 1 .. Len(t) : \/ i \in 1 .. Len(s) /\ t[i] = s[i] /\ t[i].field # f
                               \/ i = Len(s) + 1 /\ t[i].field = f
    BY <1>3, <1>4, <1>5, <1>7
  <2> QED BY <1>4, <2>1
<1>9. len \in Nat /\ (len < ZIPMAP_BIGLEN => len = Len(t))
  BY <1>4, <1>5, HashesAssumption
<1> HIDE DEF len, bytes
<1>10. ZipmapOK(new) /\ new.entries = t
  BY <1>2, <1>5, <1>6, <1>8, <1>9, ZipmapMade
<1>11. ZipFields(new) = ZipFields(zm) \cup {f}
  <2>1. ZipFields(new) = {t[i].field : i \in 1 .. Len(s) + 1}
    BY <1>4, <1>5, <1>10 DEF ZipFields
  <2>2. ZipFields(zm) = {s[i].field : i \in 1 .. Len(s)}
    BY <1>4 DEF ZipFields, s
  <2>3. \A i \in 1 .. Len(s) : t[i].field = s[i].field
    BY <1>3, <1>4, <1>5, <1>7
  <2>4. t[Len(s) + 1].field = f /\ Len(s) \in Nat
    BY <1>3, <1>4, <1>5
  <2>5. 1 .. Len(s) + 1 = 1 .. Len(s) \cup {Len(s) + 1}
    BY ONLY <2>4
  <2> QED BY ONLY <2>1, <2>2, <2>3, <2>4, <2>5
<1>12. /\ CountsFields(new) /\ t \in Seq(ZipmapEntries)
       /\ CountsFields(zm) /\ s \in Seq(ZipmapEntries)
  BY <1>4, <1>5, <1>10, ZipmapParts
<1>13. \A g \in ZipFields(zm) : ZipMap(new)[g] = ZipMap(zm)[g]
  <2> TAKE g \in ZipFields(zm)
  <2>1. PICK i \in 1 .. Len(s) : s[i].field = g /\ ZipMap(zm)[g] = s[i].val
    BY <1>12, ZipMapIs DEF s
  <2>2. i \in 1 .. Len(t) /\ t[i] = s[i]
    BY <1>4, <1>5
  <2>3. ZipMap(new)[t[i].field] = t[i].val
    BY <1>10, <1>12, <2>2, ZipMapIs
  <2> QED BY <2>1, <2>2, <2>3
<1>14. ZipMap(new)[f] = v
  <2>1. Len(s) + 1 \in 1 .. Len(t)
    BY <1>4, <1>5
  <2>2. ZipMap(new)[t[Len(s) + 1].field] = t[Len(s) + 1].val
    BY <1>10, <1>12, <2>1, ZipMapIs
  <2> QED BY <1>3, <1>5, <2>2
<1>15. ZipMap(new) = SetInDict(ZipMap(zm), f, v)
  <2>1. DOMAIN ZipMap(zm) = ZipFields(zm)
    BY DEF ZipMap
  <2>2. SetInDict(ZipMap(zm), f, v) =
           [g \in ZipFields(zm) \cup {f} |-> IF g = f THEN v ELSE ZipMap(zm)[g]]
    BY <2>1 DEF SetInDict
  <2>3. ZipMap(new) = [g \in ZipFields(new) |-> ZipMap(new)[g]]
    BY DEF ZipMap
  <2> QED BY <1>11, <1>13, <1>14, <2>2, <2>3
<1> QED BY <1>10, <1>15 DEF new, t, s, e

\* A field that is there gets its value in place, and free bytes behind it as
\* long as they are few enough.
LEMMA SetOld ==
    ASSUME NEW zm, ZipmapOK(zm), NEW f \in Fields, NEW v \in HashValues, f \in ZipFields(zm)
    PROVE  LET new == zipmapSet(zm, f, v)
           IN  /\ ZipmapOK(new) /\ Len(new.entries) = Len(zm.entries)
               /\ ZipMap(new) = SetInDict(ZipMap(zm), f, v)
<1> DEFINE s == zm.entries
           p == zipmapLookupRaw(zm, f)
           reqlen == zipmapRequiredLength(f, v)
           freelen == zipmapRawEntryLength(s[p])
           empty == freelen - reqlen
           keeps == empty >= 0 /\ empty < ZIPMAP_VALUE_MAX_FREE
           free == IF keeps THEN empty ELSE 0
           e == [field |-> f, val |-> v, free |-> free]
           t == [s EXCEPT ![p] = e]
           bytes == IF keeps THEN zm.bytes ELSE TotalLength(zm) - freelen + reqlen
           new == zipmapSet(zm, f, v)
<1>1. /\ s \in Seq(ZipmapEntries) /\ zm.len \in Nat /\ Len(s) \in Nat
      /\ \A i, j \in 1 .. Len(s) : s[i].field = s[j].field => i = j
      /\ zm.len < ZIPMAP_BIGLEN => zm.len = Len(s)
      /\ TotalLength(zm) = 2 + Bytes(s) /\ Bytes(s) \in Nat /\ zm.bytes = 2 + Bytes(s)
      /\ CountsFields(zm)
      /\ zm = [len |-> zm.len, bytes |-> zm.bytes, entries |-> s]
  <2>1. zm = [len |-> zm.len, bytes |-> zm.bytes, entries |-> s]
    BY DEF ZipmapOK
  <2> QED BY <2>1, ZipmapParts, BytesIs
<1>2. p \in 1 .. Len(s) /\ s[p].field = f /\ p # 0
  BY <1>1, LookupFinds
<1>4. new = [len |-> zm.len, bytes |-> bytes, entries |-> t]
  BY <1>2 DEF zipmapSet
<1>5. reqlen \in Nat /\ freelen \in Nat
  <2>1. s[p] \in ZipmapEntries
    BY <1>1, <1>2
  <2>2. freelen \in Nat
    <3> HIDE DEF s, p
    <3> QED BY <2>1, EntryLength
  <2> QED BY <2>2, RawLengthIs
<1> HIDE DEF reqlen, freelen
<1>6. free \in 0 .. 3 /\ (keeps => free = freelen - reqlen) /\ (~keeps => free = 0)
  BY <1>5 DEF ZIPMAP_VALUE_MAX_FREE
<1> HIDE DEF keeps, free
<1>7. /\ e \in ZipmapEntries /\ e.field = f /\ e.val = v
      /\ zipmapRawEntryLength(e) = reqlen + free
  <2>1. free \in 0 .. ZIPMAP_VALUE_MAX_FREE - 1 /\ free \in Nat
    BY <1>6 DEF ZIPMAP_VALUE_MAX_FREE
  <2> QED BY <2>1, RawLengthIs DEF ZipmapEntries, reqlen
<1> HIDE DEF e
<1>8. Bytes(t) = Bytes(s) - freelen + (reqlen + free)
  BY <1>1, <1>2, <1>7, BytesReplaced DEF freelen
<1>9. bytes = 2 + Bytes(t)
  <2>1. bytes = IF keeps THEN 2 + Bytes(s) ELSE (2 + Bytes(s)) - freelen + reqlen
    <3>1. zm.bytes = 2 + Bytes(s) /\ TotalLength(zm) = 2 + Bytes(s)
      BY <1>1
    <3> HIDE DEF s
    <3> QED BY ONLY <3>1 DEF bytes
  <2>2. reqlen \in Nat /\ freelen \in Nat /\ free \in Nat /\ Bytes(s) \in Nat
    BY <1>1, <1>5, <1>6
  <2> QED BY ONLY <1>6, <1>8, <2>1, <2>2
<1> HIDE DEF s, p
<1>10. /\ t \in Seq(ZipmapEntries) /\ Len(t) = Len(s) /\ t[p] = e
       /\ \A i \in 1 .. Len(s) : i # p => t[i] = s[i]
  BY <1>1, <1>2, <1>7
<1> HIDE DEF t, new, bytes
<1>11. \A i \in 1 .. Len(s) : t[i].field = s[i].field
  BY <1>2, <1>7, <1>10
<1>12. \A i, j \in 1 .. Len(t) : t[i].field = t[j].field => i = j
  BY <1>1, <1>10, <1>11
<1>13. ZipmapOK(new) /\ new.entries = t
  <2> DEFINE len == zm.len
  <2>1. len \in Nat /\ (len < ZIPMAP_BIGLEN => len = Len(t))
    BY <1>1, <1>10
  <2> HIDE DEF len
  <2>2. ZipmapOK([len |-> len, bytes |-> bytes, entries |-> t])
    BY <1>9, <1>10, <1>12, <2>1, ZipmapMade
  <2> QED BY <1>4, <2>2 DEF len
<1>14. ZipFields(new) = ZipFields(zm)
  <2>1. DOMAIN t = 1 .. Len(s) /\ DOMAIN s = 1 .. Len(s)
    BY <1>1, <1>10
  <2>2. ZipFields(new) = {t[i].field : i \in 1 .. Len(s)}
    BY <1>13, <2>1 DEF ZipFields
  <2>3. ZipFields(zm) = {s[i].field : i \in 1 .. Len(s)}
    BY <2>1 DEF ZipFields, s
  <2> QED BY <1>11, <2>2, <2>3
<1>15. CountsFields(new)
  BY <1>13, ZipmapParts
<1>16. \A g \in ZipFields(zm) : ZipMap(new)[g] = IF g = f THEN v ELSE ZipMap(zm)[g]
  <2> TAKE g \in ZipFields(zm)
  <2>1. PICK i \in 1 .. Len(s) : s[i].field = g /\ ZipMap(zm)[g] = s[i].val
    BY <1>1, ZipMapIs DEF s
  <2>2. ZipMap(new)[t[i].field] = t[i].val
    BY <1>10, <1>13, <1>15, ZipMapIs
  <2>3. i = p <=> g = f
    BY <1>1, <1>2, <2>1
  <2> QED BY <1>2, <1>7, <1>10, <1>11, <2>1, <2>2, <2>3
<1>17. ZipMap(new) = SetInDict(ZipMap(zm), f, v)
  <2>1. DOMAIN ZipMap(zm) = ZipFields(zm)
    BY DEF ZipMap
  <2>2. SetInDict(ZipMap(zm), f, v) =
           [g \in ZipFields(zm) |-> IF g = f THEN v ELSE ZipMap(zm)[g]]
    BY <2>1 DEF SetInDict
  <2>3. ZipMap(new) = [g \in ZipFields(new) |-> ZipMap(new)[g]]
    BY DEF ZipMap
  <2> QED BY <1>14, <1>16, <2>2, <2>3
<1> QED BY <1>10, <1>13, <1>17 DEF new, s

\* Either way: the map has one more value.
LEMMA ZipmapSet ==
    ASSUME NEW zm, ZipmapOK(zm), NEW f \in Fields, NEW v \in HashValues
    PROVE  /\ ZipmapOK(zipmapSet(zm, f, v))
           /\ ZipMap(zipmapSet(zm, f, v)) = SetInDict(ZipMap(zm), f, v)
BY SetNew, SetOld

\* A field that is taken out.
LEMMA ZipmapDel ==
    ASSUME NEW zm, ZipmapOK(zm), NEW f
    PROVE  /\ ZipmapOK(zipmapDel(zm, f))
           /\ ZipMap(zipmapDel(zm, f)) = [g \in ZipFields(zm) \ {f} |-> ZipMap(zm)[g]]
<1> DEFINE s == zm.entries
           p == zipmapLookupRaw(zm, f)
           t == RemoveAt(s, p)
           len == IF zm.len < ZIPMAP_BIGLEN THEN zm.len - 1 ELSE zm.len
           bytes == TotalLength(zm) - zipmapRawEntryLength(s[p])
           new == zipmapDel(zm, f)
<1>1. /\ s \in Seq(ZipmapEntries) /\ zm.len \in Nat /\ Len(s) \in Nat
      /\ \A i, j \in 1 .. Len(s) : s[i].field = s[j].field => i = j
      /\ zm.len < ZIPMAP_BIGLEN => zm.len = Len(s)
      /\ TotalLength(zm) = 2 + Bytes(s) /\ Bytes(s) \in Nat
      /\ CountsFields(zm)
  BY ZipmapParts, BytesIs
<1>2. CASE p = 0
  <2>1. f \notin ZipFields(zm)
    BY <1>1, <1>2, LookupFinds
  <2>2. new = zm
    BY <1>2 DEF zipmapDel
  <2>3. ZipFields(zm) \ {f} = ZipFields(zm)
    BY <2>1
  <2>4. ZipMap(zm) = [g \in ZipFields(zm) |-> ZipMap(zm)[g]]
    BY DEF ZipMap
  <2> HIDE DEF new
  <2> QED BY <2>2, <2>3, <2>4 DEF new
<1>3. CASE p # 0
  <2>1. p \in 1 .. Len(s) /\ s[p].field = f /\ p \in Nat
    BY <1>1, <1>3, LookupFinds
  <2>2. new = [len |-> len, bytes |-> bytes, entries |-> t]
    BY <1>3 DEF zipmapDel
  <2> HIDE DEF p, s
  <2>3. /\ t \in Seq(ZipmapEntries) /\ Len(t) = Len(s) - 1
        /\ \A i \in 1 .. Len(s) - 1 : t[i] = IF i < p THEN s[i] ELSE s[i + 1]
        /\ Bytes(t) = Bytes(s) - zipmapRawEntryLength(s[p])
    BY <1>1, <2>1, BytesRemoved
  <2>4. bytes = 2 + Bytes(t)
    <3>1. zipmapRawEntryLength(s[p]) \in Nat
      BY <1>1, <2>1, EntryLength
    <3> QED BY <1>1, <2>3, <3>1
  <2> HIDE DEF t, new, bytes
  <2> DEFINE at(i) == IF i < p THEN i ELSE i + 1
  <2>5. \A i \in 1 .. Len(t) : /\ at(i) \in 1 .. Len(s) /\ at(i) # p /\ t[i] = s[at(i)]
                               /\ t[i].field # f
    <3> TAKE i \in 1 .. Len(t)
    <3>1. i \in 1 .. Len(s) - 1
      BY <2>3
    <3>2. at(i) \in 1 .. Len(s) /\ at(i) # p
      BY <1>1, <2>1, <3>1
    <3>3. t[i] = s[at(i)]
      BY <2>3, <3>1
    <3> HIDE DEF at
    <3> QED BY <1>1, <2>1, <3>2, <3>3
  <2>6. \A i \in 1 .. Len(s) : i # p => \E j \in 1 .. Len(t) : t[j] = s[i]
    <3> TAKE i \in 1 .. Len(s)
    <3> HAVE i # p
    <3> DEFINE j == IF i < p THEN i ELSE i - 1
    <3>1. j \in 1 .. Len(t) /\ at(j) = i
      BY <1>1, <2>1, <2>3
    <3> HIDE DEF j, at
    <3> QED BY <2>5, <3>1
  <2>7. \A i, j \in 1 .. Len(t) : t[i].field = t[j].field => i = j
    <3> TAKE i, j \in 1 .. Len(t)
    <3> HAVE t[i].field = t[j].field
    <3>1. at(i) = at(j)
      <4> HIDE DEF at
      <4> QED BY <1>1, <2>5
    <3> QED BY <1>1, <2>1, <2>3, <3>1
  <2> HIDE DEF at
  <2>8. len \in Nat /\ (len < ZIPMAP_BIGLEN => len = Len(t))
    <3>1. Len(s) >= 1
      BY <1>1, <2>1
    <3> QED BY <1>1, <2>3, <3>1, HashesAssumption
  <2> HIDE DEF len
  <2>9. ZipmapOK(new) /\ new.entries = t
    BY <2>2, <2>3, <2>4, <2>7, <2>8, ZipmapMade
  <2>10. ZipFields(new) = ZipFields(zm) \ {f}
    <3>1. DOMAIN t = 1 .. Len(t) /\ DOMAIN s = 1 .. Len(s)
      BY <1>1, <2>3
    <3>2. ZipFields(new) = {t[i].field : i \in 1 .. Len(t)}
      BY <2>9, <3>1 DEF ZipFields
    <3>3. ZipFields(zm) = {s[i].field : i \in 1 .. Len(s)}
      BY <3>1 DEF ZipFields, s
    <3>4. \A i \in 1 .. Len(s) : i # p => s[i].field # f
      BY <1>1, <2>1
    <3>5. ZipFields(new) \subseteq ZipFields(zm) \ {f}
      BY <2>5, <3>2, <3>3
    <3>6. ZipFields(zm) \ {f} \subseteq ZipFields(new)
      BY <2>1, <2>6, <3>2, <3>3
    <3> QED BY <3>5, <3>6
  <2>11. CountsFields(new)
    BY <2>9, ZipmapParts
  <2>12. \A g \in ZipFields(new) : ZipMap(new)[g] = ZipMap(zm)[g]
    <3> TAKE g \in ZipFields(new)
    <3>1. PICK i \in 1 .. Len(t) : t[i].field = g
      BY <2>3, <2>9, <2>11, ZipMapIs
    <3>2. ZipMap(new)[t[i].field] = t[i].val
      BY <2>3, <2>9, <2>11, ZipMapIs
    <3>3. ZipMap(zm)[s[at(i)].field] = s[at(i)].val
      BY <1>1, <2>5, ZipMapIs DEF s
    <3> QED BY <2>5, <3>1, <3>2, <3>3
  <2>13. ZipMap(new) = [g \in ZipFields(new) |-> ZipMap(new)[g]]
    BY DEF ZipMap
  <2> QED BY <2>9, <2>10, <2>12, <2>13 DEF new
<1> QED BY <1>2, <1>3

\* Asking for the length changes the first byte at most, and the answer is the
\* number of fields.
LEMMA ZipmapLen ==
    ASSUME NEW zm, ZipmapOK(zm)
    PROVE  /\ zipmapLen(zm) = Len(zm.entries)
           /\ ZipmapOK(Counted(zm)) /\ Counted(zm).entries = zm.entries
           /\ ZipMap(Counted(zm)) = ZipMap(zm)
<1> DEFINE s == zm.entries
           b == zm.bytes
           n == Len(s)
<1>1. zipmapLen(zm) = Len(s)
  BY ZipmapParts DEF zipmapLen
<1>2. zm = [len |-> zm.len, bytes |-> b, entries |-> s]
  BY DEF ZipmapOK
<1>3. Counted(zm) = zm \/ Counted(zm) = [len |-> n, bytes |-> b, entries |-> s]
  <2>1. [zm EXCEPT !.len = n] = [len |-> n, bytes |-> b, entries |-> s]
    <3> DEFINE len == zm.len
    <3>1. zm = [len |-> len, bytes |-> b, entries |-> s]
      BY <1>2
    <3> HIDE DEF b, s, n, len
    <3> QED BY <3>1
  <2> QED BY <2>1 DEF Counted
<1>4. ZipmapOK([len |-> n, bytes |-> b, entries |-> s])
  <2>1. /\ s \in Seq(ZipmapEntries) /\ n \in Nat /\ b = 2 + Bytes(s) /\ n = Len(s)
        /\ \A i, j \in 1 .. Len(s) : s[i].field = s[j].field => i = j
    BY ZipmapParts
  <2> HIDE DEF s, n, b
  <2> QED BY <2>1, ZipmapMade
<1>5. ZipmapOK(Counted(zm)) /\ Counted(zm).entries = s
  BY <1>3, <1>4
<1>6. ZipMap(Counted(zm)) = ZipMap(zm)
  BY <1>5 DEF ZipMap, ZipFields, zipmapGet, zipmapLookupRaw
<1> QED BY <1>1, <1>5, <1>6

-----------------------------------------------------------------------------
(* Hashes.                                                                 *)

\* Values short enough for a zipmap.
Short(v) == StringSize[v] <= hash_max_zipmap_value

HashOK(hash) ==
    \/ /\ hash = [enc |-> ZIPMAP, ptr |-> hash.ptr]
       /\ ZipmapOK(hash.ptr) /\ Len(hash.ptr.entries) <= hash_max_zipmap_entries
       /\ \A f \in ZipFields(hash.ptr) : Short(ZipMap(hash.ptr)[f])
    \/ /\ hash = [enc |-> HT, ptr |-> hash.ptr]
       /\ IsFiniteSet(DOMAIN hash.ptr) /\ DOMAIN hash.ptr \subseteq Fields
       /\ hash.ptr \in [DOMAIN hash.ptr -> HashValues]

\* The fields of a zipmap are as many as its entries.
LEMMA FieldsCount ==
    ASSUME NEW zm, ZipmapOK(zm)
    PROVE  IsFiniteSet(ZipFields(zm)) /\ Cardinality(ZipFields(zm)) = Len(zm.entries)
<1> DEFINE s == zm.entries
           n == Len(s)
           f == [i \in 1 .. n |-> s[i].field]
           S == ZipFields(zm)
<1>1. /\ n \in Nat /\ DOMAIN s = 1 .. n
      /\ \A i, j \in 1 .. n : s[i].field = s[j].field => i = j
  BY ZipmapParts
<1>2. S = {s[i].field : i \in 1 .. n}
  BY <1>1 DEF ZipFields
<1> HIDE DEF s, n, S
<1>3. f \in [1 .. n -> S] /\ (\A i, j \in 1 .. n : f[i] = f[j] => i = j)
      /\ (\A x \in S : \E i \in 1 .. n : f[i] = x)
  BY <1>1, <1>2
<1> HIDE DEF f
<1>4. f \in Bijection(1 .. n, S)
  <2>1. f \in Injection(1 .. n, S)
    BY <1>3 DEF Injection, IsInjective
  <2>2. f \in Surjection(1 .. n, S)
    BY <1>3 DEF Surjection
  <2> QED BY <2>1, <2>2 DEF Bijection
<1>5. ExistsBijection(1 .. n, S)
  BY <1>4 DEF ExistsBijection
<1> QED BY <1>1, <1>5, FS_NatBijection, FS_CountingElements DEF n, s, S

\* Both encodings as maps.
LEMMA HashIs ==
    ASSUME NEW hash, HashOK(hash)
    PROVE  /\ FieldsOf(hash) \subseteq Fields /\ IsFiniteSet(FieldsOf(hash))
           /\ DOMAIN Map(hash) = FieldsOf(hash)
           /\ Map(hash) \in [FieldsOf(hash) -> HashValues]
           /\ hashTypeLength(hash) = Cardinality(FieldsOf(hash))
           /\ \A f : hashTypeExists(hash, f) <=> f \in FieldsOf(hash)
           /\ \A f \in FieldsOf(hash) : hashTypeGet(hash, f) = Map(hash)[f]
           /\ IsZipmap(hash) =>
                 /\ hash = [enc |-> ZIPMAP, ptr |-> hash.ptr] /\ ZipmapOK(hash.ptr)
                 /\ Len(hash.ptr.entries) <= hash_max_zipmap_entries
                 /\ \A f \in ZipFields(hash.ptr) : Short(ZipMap(hash.ptr)[f])
                 /\ FieldsOf(hash) = ZipFields(hash.ptr) /\ Map(hash) = ZipMap(hash.ptr)
           /\ ~IsZipmap(hash) =>
                 /\ hash = [enc |-> HT, ptr |-> hash.ptr] /\ Map(hash) = hash.ptr
                 /\ FieldsOf(hash) = DOMAIN hash.ptr
           /\ hash \in HashObjects
<1>1. DOMAIN Map(hash) = FieldsOf(hash)
      /\ \A f \in FieldsOf(hash) : hashTypeGet(hash, f) = Map(hash)[f]
  BY DEF Map
<1>2. CASE /\ hash = [enc |-> ZIPMAP, ptr |-> hash.ptr]
           /\ ZipmapOK(hash.ptr) /\ Len(hash.ptr.entries) <= hash_max_zipmap_entries
           /\ \A f \in ZipFields(hash.ptr) : Short(ZipMap(hash.ptr)[f])
  <2> DEFINE zm == hash.ptr
  <2>1. IsZipmap(hash)
    BY <1>2 DEF IsZipmap
  <2>2. FieldsOf(hash) = ZipFields(zm)
    BY <2>1 DEF FieldsOf, ZipFields, ToSet
  <2>3. Map(hash) = ZipMap(zm)
    BY <2>1, <2>2 DEF Map, ZipMap, hashTypeGet
  <2>4. /\ ZipFields(zm) \subseteq Fields /\ \A f \in ZipFields(zm) : ZipMap(zm)[f] \in HashValues
        /\ zm.entries \in Seq(ZipmapEntries) /\ CountsFields(zm)
    BY <1>2, ZipMapIs, ZipmapParts
  <2>5. hashTypeLength(hash) = Cardinality(FieldsOf(hash)) /\ IsFiniteSet(FieldsOf(hash))
    BY <1>2, <2>1, <2>2, FieldsCount, ZipmapLen DEF hashTypeLength
  <2>6. \A f : hashTypeExists(hash, f) <=> f \in FieldsOf(hash)
    BY <2>1, <2>2, <2>4, LookupFinds DEF hashTypeExists, zipmapExists
  <2>7. Map(hash) \in [FieldsOf(hash) -> HashValues]
    BY <2>2, <2>3, <2>4 DEF ZipMap
  <2>8. hash \in HashObjects
    <3> DEFINE len == zm.len
               b == zm.bytes
               s == zm.entries
    <3>1. zm = [len |-> len, bytes |-> b, entries |-> s]
      BY <1>2 DEF ZipmapOK
    <3>2. len \in Nat /\ b \in Nat /\ s \in Seq(ZipmapEntries)
      <4>1. b = 2 + Bytes(s) /\ len \in Nat /\ s \in Seq(ZipmapEntries)
        BY <1>2, ZipmapParts
      <4> HIDE DEF s, b, len
      <4>2. Bytes(s) \in Nat
        BY <4>1, BytesIs
      <4> QED BY <4>1, <4>2
    <3> HIDE DEF len, b, s, zm
    <3>3. zm \in Zipmaps
      BY <3>1, <3>2 DEF Zipmaps
    <3>4. hash = [enc |-> ZIPMAP, ptr |-> zm]
      BY <1>2 DEF zm
    <3> QED BY <3>3, <3>4 DEF HashObjects
  <2> QED BY <1>1, <1>2, <2>1, <2>2, <2>3, <2>4, <2>5, <2>6, <2>7, <2>8
<1>3. CASE /\ hash = [enc |-> HT, ptr |-> hash.ptr]
           /\ IsFiniteSet(DOMAIN hash.ptr) /\ DOMAIN hash.ptr \subseteq Fields
           /\ hash.ptr \in [DOMAIN hash.ptr -> HashValues]
  <2> DEFINE dict == hash.ptr
  <2>1. ~IsZipmap(hash)
    BY <1>3 DEF IsZipmap, HT, ZIPMAP
  <2>2. FieldsOf(hash) = DOMAIN dict
    BY <2>1 DEF FieldsOf
  <2>3. Map(hash) = dict
    <3>1. Map(hash) = [f \in DOMAIN dict |-> dict[f]]
      BY <2>1, <2>2 DEF Map, hashTypeGet
    <3> HIDE DEF dict
    <3> QED BY <1>3, <3>1 DEF dict
  <2>4. hash \in HashObjects
    <3>1. dict \in UNION {[S -> HashValues] : S \in SUBSET Fields}
      BY <1>3
    <3>2. hash = [enc |-> HT, ptr |-> dict]
      BY <1>3
    <3> HIDE DEF dict
    <3> QED BY <3>1, <3>2 DEF HashObjects
  <2> QED BY <1>1, <1>3, <2>1, <2>2, <2>3, <2>4 DEF hashTypeLength, hashTypeExists
<1> QED BY <1>2, <1>3 DEF HashOK

\* A hash kept as a dict.
LEMMA DictHashOK ==
    ASSUME NEW S, S \subseteq Fields, IsFiniteSet(S), NEW m \in [S -> HashValues]
    PROVE  LET hash == [enc |-> HT, ptr |-> m]
           IN  HashOK(hash) /\ Map(hash) = m /\ ~IsZipmap(hash) /\ FieldsOf(hash) = S
<1> DEFINE hash == [enc |-> HT, ptr |-> m]
<1>1. hash.ptr = m /\ DOMAIN m = S /\ hash.enc = HT
  OBVIOUS
<1>2. HashOK(hash)
  BY <1>1 DEF HashOK
<1>3. ~IsZipmap(hash)
  BY <1>1 DEF IsZipmap, HT, ZIPMAP
<1> HIDE DEF hash
<1> QED BY <1>1, <1>2, <1>3, HashIs DEF hash

\* A hash kept as a zipmap.
LEMMA ZipmapHashOK ==
    ASSUME NEW zm, ZipmapOK(zm), Len(zm.entries) <= hash_max_zipmap_entries,
           \A f \in ZipFields(zm) : Short(ZipMap(zm)[f])
    PROVE  LET hash == [enc |-> ZIPMAP, ptr |-> zm]
           IN  HashOK(hash) /\ Map(hash) = ZipMap(zm) /\ IsZipmap(hash)
                            /\ FieldsOf(hash) = ZipFields(zm)
<1> DEFINE hash == [enc |-> ZIPMAP, ptr |-> zm]
<1>1. hash.ptr = zm /\ hash.enc = ZIPMAP
  OBVIOUS
<1>2. HashOK(hash) /\ IsZipmap(hash)
  BY <1>1 DEF HashOK, IsZipmap
<1> HIDE DEF hash
<1> QED BY <1>1, <1>2, HashIs DEF hash

\* The map of a zipmap as a dict, however many entries it has.
LEMMA Converted ==
    ASSUME NEW zm, ZipmapOK(zm)
    PROVE  LET hash == convertToRealHash([enc |-> ZIPMAP, ptr |-> zm])
           IN  HashOK(hash) /\ Map(hash) = ZipMap(zm) /\ ~IsZipmap(hash)
                            /\ FieldsOf(hash) = ZipFields(zm)
<1> DEFINE old == [enc |-> ZIPMAP, ptr |-> zm]
<1>1. IsZipmap(old) /\ old.ptr = zm
  BY DEF IsZipmap
<1> HIDE DEF old
<1>2. FieldsOf(old) = ZipFields(zm)
  BY <1>1 DEF FieldsOf, ZipFields, ToSet
<1>3. Map(old) = ZipMap(zm)
  BY <1>1, <1>2 DEF Map, ZipMap, hashTypeGet
<1>4. /\ ZipFields(zm) \subseteq Fields /\ \A f \in ZipFields(zm) : ZipMap(zm)[f] \in HashValues
      /\ IsFiniteSet(ZipFields(zm))
  BY ZipMapIs, ZipmapParts, FieldsCount
<1>5. ZipMap(zm) \in [ZipFields(zm) -> HashValues]
  BY <1>4 DEF ZipMap
<1>6. convertToRealHash(old) = [enc |-> HT, ptr |-> ZipMap(zm)]
  BY <1>3 DEF convertToRealHash
<1> QED BY <1>4, <1>5, <1>6, DictHashOK DEF old

\* A new hash has no fields.
LEMMA HashCreated ==
    HashOK(createHashObject) /\ FieldsOf(createHashObject) = {} /\ IsZipmap(createHashObject)
<1> DEFINE s == <<>>
           zm == [len |-> 0, bytes |-> 2, entries |-> s]
<1>1. s \in Seq(ZipmapEntries) /\ Len(s) = 0 /\ DOMAIN s = {}
  OBVIOUS
<1>2. Bytes(s) = 0
  <2>1. 1 .. Len(s) = {}
    BY <1>1
  <2> QED BY <2>1, SumEmpty DEF Bytes
<1>3. zm.entries = s
  OBVIOUS
<1>4. ZipmapOK(zm)
  <2> HIDE DEF s
  <2>1. 2 = 2 + Bytes(s) /\ 0 = Len(s)
    BY <1>1, <1>2
  <2>2. \A i, j \in 1 .. Len(s) : s[i].field = s[j].field => i = j
    BY <1>1
  <2> QED BY <1>1, <2>1, <2>2, ZipmapMade
<1>5. ZipFields(zm) = {}
  BY <1>1, <1>3 DEF ZipFields
<1>6. Len(zm.entries) <= hash_max_zipmap_entries
  BY <1>1, <1>3, HashesAssumption
<1>7. createHashObject = [enc |-> ZIPMAP, ptr |-> zm]
  BY DEF createHashObject, zipmapNew
<1> HIDE DEF zm
<1> QED BY <1>4, <1>5, <1>6, <1>7, ZipmapHashOK

-----------------------------------------------------------------------------
(* What the functions of t_hash.c do to a hash.                            *)

\* A field set: a zipmap that grows too long for it becomes a dict with it.
LEMMA HashSet ==
    ASSUME NEW hash, HashOK(hash), NEW f \in Fields, NEW v \in HashValues,
           IsZipmap(hash) => Short(v)
    PROVE  LET new == hashTypeSet(hash, f, v)
           IN  /\ HashOK(new) /\ Map(new) = SetInDict(Map(hash), f, v)
               /\ FieldsOf(new) = FieldsOf(hash) \cup {f}
               /\ IsZipmap(new) => IsZipmap(hash)
<1> DEFINE new == hashTypeSet(hash, f, v)
           m == SetInDict(Map(hash), f, v)
           S == FieldsOf(hash)
<1>1. /\ S \subseteq Fields /\ IsFiniteSet(S) /\ Map(hash) \in [S -> HashValues]
      /\ DOMAIN Map(hash) = S
  BY HashIs
<1>2. /\ S \cup {f} \subseteq Fields /\ IsFiniteSet(S \cup {f}) /\ m \in [S \cup {f} -> HashValues]
      /\ \A g \in S \cup {f} : m[g] = IF g = f THEN v ELSE Map(hash)[g]
      /\ DOMAIN m = S \cup {f}
  <2> DEFINE old == Map(hash)
             new0 == SetInDict(old, f, v)
  <2> HIDE DEF S, old
  <2>1. /\ S \subseteq Fields /\ IsFiniteSet(S) /\ old \in [S -> HashValues] /\ DOMAIN old = S
    BY <1>1 DEF old
  <2>2. /\ S \cup {f} \subseteq Fields /\ IsFiniteSet(S \cup {f})
        /\ new0 \in [S \cup {f} -> HashValues]
        /\ \A g \in S \cup {f} : new0[g] = IF g = f THEN v ELSE old[g]
    <3>1. f \in Fields /\ v \in HashValues
      OBVIOUS
    <3>2. S \cup {f} \subseteq Fields /\ IsFiniteSet(S \cup {f})
      BY <2>1, <3>1, FS_AddElement
    <3>3. new0 = [g \in S \cup {f} |-> IF g = f THEN v ELSE old[g]]
      BY <2>1 DEF SetInDict
    <3> HIDE DEF new0
    <3> QED BY <2>1, <3>1, <3>2, <3>3
  <2>3. DOMAIN new0 = S \cup {f}
    BY <2>1 DEF SetInDict
  <2> HIDE DEF new0
  <2> QED BY <2>2, <2>3 DEF new0, old
<1>3. CASE ~IsZipmap(hash)
  <2>1. hash = [enc |-> HT, ptr |-> hash.ptr] /\ Map(hash) = hash.ptr
    BY <1>3, HashIs
  <2>2. new = [hash EXCEPT !.ptr = m]
    BY <1>3, <2>1 DEF hashTypeSet
  <2>3. new = [enc |-> HT, ptr |-> m]
    <3> DEFINE p == hash.ptr
    <3>1. hash = [enc |-> HT, ptr |-> p]
      BY <2>1
    <3> HIDE DEF m, p, new
    <3> QED BY <2>2, <3>1
  <2> HIDE DEF new, m, S
  <2>4. HashOK(new) /\ Map(new) = m /\ ~IsZipmap(new) /\ FieldsOf(new) = S \cup {f}
    BY <1>2, <2>3, DictHashOK
  <2> QED BY <2>4 DEF new, m, S
<1>4. CASE IsZipmap(hash)
  <2> DEFINE old == hash.ptr
             zm == zipmapSet(old, f, v)
  <2>1. /\ hash = [enc |-> ZIPMAP, ptr |-> old] /\ ZipmapOK(old)
        /\ \A g \in ZipFields(old) : Short(ZipMap(old)[g])
        /\ S = ZipFields(old) /\ Map(hash) = ZipMap(old)
    BY <1>4, HashIs
  <2>2. ZipmapOK(zm) /\ ZipMap(zm) = m
    BY <2>1, ZipmapSet
  <2>3. new = IF zipmapLen(zm) > hash_max_zipmap_entries
              THEN convertToRealHash([hash EXCEPT !.ptr = zm])
              ELSE [hash EXCEPT !.ptr = Counted(zm)]
    BY <1>4 DEF hashTypeSet
  <2> HIDE DEF new, zm, m, S
  <2>4. \A p : [hash EXCEPT !.ptr = p] = [enc |-> ZIPMAP, ptr |-> p]
    <3> HIDE DEF old
    <3> QED BY <2>1
  <2>5. ZipFields(zm) = S \cup {f}
    BY <1>2, <2>2 DEF ZipMap
  <2>6. CASE zipmapLen(zm) > hash_max_zipmap_entries
    <3>1. new = convertToRealHash([enc |-> ZIPMAP, ptr |-> zm])
      BY <2>3, <2>4, <2>6
    <3>2. HashOK(new) /\ Map(new) = ZipMap(zm) /\ ~IsZipmap(new) /\ FieldsOf(new) = ZipFields(zm)
      BY <2>2, <3>1, Converted
    <3> QED BY <2>2, <2>5, <3>2 DEF new, m, S
  <2>7. CASE ~(zipmapLen(zm) > hash_max_zipmap_entries)
    <3> DEFINE zc == Counted(zm)
    <3>1. new = [enc |-> ZIPMAP, ptr |-> zc]
      BY <2>3, <2>4, <2>7
    <3>2. /\ ZipmapOK(zc) /\ ZipMap(zc) = ZipMap(zm) /\ zc.entries = zm.entries
          /\ zipmapLen(zm) = Len(zm.entries) /\ Len(zm.entries) \in Nat
      BY <2>2, ZipmapLen, ZipmapParts
    <3>3. ZipFields(zc) = ZipFields(zm)
      BY <3>2 DEF ZipMap
    <3> HIDE DEF zc
    <3>4. Len(zc.entries) <= hash_max_zipmap_entries
      <4> DEFINE n == Len(zm.entries)
      <4>1. n \in Nat /\ ~(n > hash_max_zipmap_entries) /\ hash_max_zipmap_entries \in Nat
        BY <2>7, <3>2, HashesAssumption
      <4> HIDE DEF n
      <4>2. n <= hash_max_zipmap_entries
        BY <4>1
      <4> QED BY <3>2, <4>2 DEF n
    <3>5. \A g \in ZipFields(zc) : Short(ZipMap(zc)[g])
      <4> TAKE g \in ZipFields(zc)
      <4>1. ZipMap(zc)[g] = IF g = f THEN v ELSE Map(hash)[g]
        BY <1>2, <2>2, <2>5, <3>2, <3>3
      <4>2. g # f => Short(Map(hash)[g])
        BY <2>1, <2>5, <3>3
      <4> QED BY <1>4, <4>1, <4>2
    <3>6. HashOK(new) /\ Map(new) = ZipMap(zc) /\ FieldsOf(new) = ZipFields(zc)
      BY <3>1, <3>2, <3>4, <3>5, ZipmapHashOK
    <3> QED BY <1>4, <2>2, <2>5, <3>2, <3>3, <3>6 DEF new, m, S
  <2> QED BY <2>6, <2>7
<1> QED BY <1>3, <1>4

\* A field taken out.
LEMMA HashDelete ==
    ASSUME NEW hash, HashOK(hash), NEW f
    PROVE  LET new == hashTypeDelete(hash, f)
           IN  /\ HashOK(new) /\ FieldsOf(new) = FieldsOf(hash) \ {f}
               /\ Map(new) = [g \in FieldsOf(hash) \ {f} |-> Map(hash)[g]]
<1> DEFINE new == hashTypeDelete(hash, f)
           S == FieldsOf(hash)
           m == [g \in S \ {f} |-> Map(hash)[g]]
<1>1. S \subseteq Fields /\ IsFiniteSet(S) /\ Map(hash) \in [S -> HashValues]
  BY HashIs
<1>2. /\ S \ {f} \subseteq Fields /\ IsFiniteSet(S \ {f}) /\ m \in [S \ {f} -> HashValues]
      /\ DOMAIN m = S \ {f} /\ \A g \in S \ {f} : m[g] = Map(hash)[g]
  BY <1>1, FS_Subset
<1>3. CASE ~IsZipmap(hash)
  <2> DEFINE p == hash.ptr
  <2>1. hash = [enc |-> HT, ptr |-> p] /\ Map(hash) = p /\ S = DOMAIN p
    BY <1>3, HashIs
  <2>2. new = [hash EXCEPT !.ptr = Restrict(p, DOMAIN p \ {f})]
    BY <1>3 DEF hashTypeDelete
  <2>3. Restrict(p, DOMAIN p \ {f}) = m
    BY <2>1 DEF Restrict
  <2>4. new = [enc |-> HT, ptr |-> m]
    <3> HIDE DEF m, p, new
    <3> QED BY <2>1, <2>2, <2>3
  <2> HIDE DEF new, m, S
  <2>5. HashOK(new) /\ Map(new) = m /\ FieldsOf(new) = S \ {f}
    BY <1>2, <2>4, DictHashOK
  <2> QED BY <2>5 DEF new, m, S
<1>4. CASE IsZipmap(hash)
  <2> DEFINE old == hash.ptr
             zm == zipmapDel(old, f)
  <2>1. /\ hash = [enc |-> ZIPMAP, ptr |-> old] /\ ZipmapOK(old)
        /\ Len(old.entries) <= hash_max_zipmap_entries
        /\ \A g \in ZipFields(old) : Short(ZipMap(old)[g])
        /\ S = ZipFields(old) /\ Map(hash) = ZipMap(old)
    BY <1>4, HashIs
  <2>2. ZipmapOK(zm) /\ ZipMap(zm) = m
    <3> DEFINE T == ZipFields(old)
               o == ZipMap(old)
    <3>1. ZipmapOK(zm) /\ ZipMap(zm) = [g \in T \ {f} |-> o[g]]
      BY <2>1, ZipmapDel
    <3>2. S = T /\ Map(hash) = o
      BY <2>1
    <3> HIDE DEF S, T, o, zm
    <3>3. m = [g \in T \ {f} |-> o[g]]
      BY <3>2
    <3> QED BY <3>1, <3>3
  <2>3. new = [hash EXCEPT !.ptr = zm]
    BY <1>4 DEF hashTypeDelete
  <2>4. new = [enc |-> ZIPMAP, ptr |-> zm]
    <3> HIDE DEF old, zm, new
    <3> QED BY <2>1, <2>3
  <2> HIDE DEF new, zm, m
  <2>5. ZipFields(zm) = S \ {f}
    BY <1>2, <2>2 DEF ZipMap
  <2>6. Len(zm.entries) <= hash_max_zipmap_entries
    <3>1. /\ Cardinality(ZipFields(zm)) = Len(zm.entries)
          /\ Cardinality(ZipFields(old)) = Len(old.entries) /\ IsFiniteSet(ZipFields(old))
          /\ Len(zm.entries) \in Nat /\ Len(old.entries) \in Nat
      BY <2>1, <2>2, FieldsCount, ZipmapParts
    <3>2. ZipFields(zm) \subseteq ZipFields(old)
      BY <2>1, <2>5
    <3>3. Cardinality(ZipFields(zm)) <= Cardinality(ZipFields(old))
      BY <3>1, <3>2, FS_Subset
    <3> DEFINE a == Len(zm.entries)
               b == Len(old.entries)
    <3>4. a <= b /\ b <= hash_max_zipmap_entries /\ a \in Nat /\ b \in Nat
          /\ hash_max_zipmap_entries \in Nat
      BY <2>1, <3>1, <3>3, HashesAssumption
    <3> HIDE DEF a, b
    <3>5. a <= hash_max_zipmap_entries
      BY <3>4
    <3> QED BY <3>5 DEF a
  <2>7. \A g \in ZipFields(zm) : Short(ZipMap(zm)[g])
    BY <1>2, <2>1, <2>2, <2>5
  <2>8. HashOK(new) /\ Map(new) = ZipMap(zm) /\ FieldsOf(new) = ZipFields(zm)
    BY <2>2, <2>4, <2>6, <2>7, ZipmapHashOK
  <2> QED BY <2>2, <2>5, <2>8 DEF new, m, S
<1> QED BY <1>3, <1>4

\* Asking for the length changes no field.
LEMMA HashMeasured ==
    ASSUME NEW hash, HashOK(hash)
    PROVE  /\ HashOK(Measured(hash)) /\ Map(Measured(hash)) = Map(hash)
           /\ FieldsOf(Measured(hash)) = FieldsOf(hash)
           /\ IsZipmap(Measured(hash)) <=> IsZipmap(hash)
<1>1. CASE ~IsZipmap(hash)
  BY <1>1 DEF Measured
<1>2. CASE IsZipmap(hash)
  <2> DEFINE old == hash.ptr
             zc == Counted(old)
             new == Measured(hash)
  <2>1. /\ hash = [enc |-> ZIPMAP, ptr |-> old] /\ ZipmapOK(old)
        /\ Len(old.entries) <= hash_max_zipmap_entries
        /\ \A g \in ZipFields(old) : Short(ZipMap(old)[g])
        /\ FieldsOf(hash) = ZipFields(old) /\ Map(hash) = ZipMap(old)
    BY <1>2, HashIs
  <2>2. ZipmapOK(zc) /\ ZipMap(zc) = ZipMap(old) /\ zc.entries = old.entries
    BY <2>1, ZipmapLen
  <2>3. new = [hash EXCEPT !.ptr = zc]
    BY <1>2 DEF Measured
  <2>4. ZipFields(zc) = ZipFields(old)
    BY <2>2 DEF ZipFields
  <2> HIDE DEF zc, new, old
  <2>5. new = [enc |-> ZIPMAP, ptr |-> zc]
    BY <2>1, <2>3
  <2>6. HashOK(new) /\ Map(new) = ZipMap(zc) /\ FieldsOf(new) = ZipFields(zc) /\ IsZipmap(new)
    BY <2>1, <2>2, <2>4, <2>5, ZipmapHashOK
  <2> QED BY <1>2, <2>1, <2>2, <2>4, <2>6 DEF new
<1> QED BY <1>1, <1>2

\* A string too long for a zipmap makes it a dict first.
LEMMA HashTried ==
    ASSUME NEW hash, HashOK(hash), NEW strings, strings \subseteq Fields \cup HashValues
    PROVE  LET new == hashTypeTryConversion(hash, strings)
           IN  /\ HashOK(new) /\ Map(new) = Map(hash) /\ FieldsOf(new) = FieldsOf(hash)
               /\ IsZipmap(new) => \A s \in strings : Short(s)
<1> DEFINE new == hashTypeTryConversion(hash, strings)
           long == \E s \in strings : StringSize[s] > hash_max_zipmap_value
<1>1. ~long => \A s \in strings : Short(s)
  BY HashesAssumption DEF Short
<1>2. CASE IsZipmap(hash) /\ long
  <2> DEFINE zm == hash.ptr
  <2>1. hash = [enc |-> ZIPMAP, ptr |-> zm] /\ ZipmapOK(zm)
        /\ FieldsOf(hash) = ZipFields(zm) /\ Map(hash) = ZipMap(zm)
    BY <1>2, HashIs
  <2>2. new = convertToRealHash(hash)
    BY <1>2 DEF hashTypeTryConversion
  <2> HIDE DEF zm, new
  <2>3. new = convertToRealHash([enc |-> ZIPMAP, ptr |-> zm])
    BY <2>1, <2>2
  <2> QED BY <2>1, <2>3, Converted DEF new
<1>3. CASE ~(IsZipmap(hash) /\ long)
  <2>1. new = hash
    BY <1>3 DEF hashTypeTryConversion
  <2> HIDE DEF new, long
  <2> QED BY <1>1, <1>3, <2>1 DEF new
<1> QED BY <1>2, <1>3

-----------------------------------------------------------------------------
(* HMSET sets the pairs one after another.                                 *)

\* The hash after each pair, as the command makes it.
SetUpTo(hash, pairs, h, n) ==
    IF n = 0 THEN hash ELSE hashTypeSet(h[n - 1], pairs[n][1], pairs[n][2])
IsSetting(hash, pairs, h) == h = [n \in 0 .. Len(pairs) |-> SetUpTo(hash, pairs, h, n)]
Setting(hash, pairs) == CHOOSE h : IsSetting(hash, pairs, h)

LEMMA SetAllIs ==
    ASSUME NEW hash, NEW pairs
    PROVE  SetAll(hash, pairs) = Setting(hash, pairs)[Len(pairs)]
BY DEF SetAll, Setting, IsSetting, SetUpTo

\* The map after each pair, as the contract says.
WithUpTo(m, pairs, h, n) ==
    IF n = 0 THEN m ELSE SetInDict(h[n - 1], pairs[n][1], pairs[n][2])
IsWith(m, pairs, h) == h = [n \in 0 .. Len(pairs) |-> WithUpTo(m, pairs, h, n)]
WithSteps(m, pairs) == CHOOSE h : IsWith(m, pairs, h)

LEMMA WithAllIs ==
    ASSUME NEW m, NEW pairs
    PROVE  PromisedHash!WithAll(m, pairs) = WithSteps(m, pairs)[Len(pairs)]
BY DEF PromisedHash!WithAll, PromisedHash!With, WithSteps, IsWith, WithUpTo, SetInDict

\* Arguments of HMSET.
LEMMA PairIs ==
    ASSUME NEW pairs \in Seq(Fields \X HashValues), NEW i \in 1 .. Len(pairs)
    PROVE  pairs[i][1] \in Fields /\ pairs[i][2] \in HashValues
<1>1. pairs[i] \in Fields \X HashValues
  OBVIOUS
<1> QED BY <1>1

\* There is a function the first recursion describes.
LEMMA SettingHolds ==
    ASSUME NEW hash, HashOK(hash), NEW pairs \in Seq(Fields \X HashValues),
           IsZipmap(hash) => \A i \in 1 .. Len(pairs) : Short(pairs[i][2])
    PROVE  /\ IsSetting(hash, pairs, Setting(hash, pairs))
<1> DEFINE N == Len(pairs)
           fits == \A i \in 1 .. N : Short(pairs[i][2])
           A == {h \in HashObjects : HashOK(h) /\ (IsZipmap(h) => fits)}
           F == [n \in 1 .. N |-> [h \in A |-> hashTypeSet(h, pairs[n][1], pairs[n][2])]]
<1>1. N \in Nat
  OBVIOUS
<1>2. hash \in A
  BY HashIs
<1>3. F \in [1 .. N -> [A -> A]]
  <2> SUFFICES ASSUME NEW n \in 1 .. N, NEW h \in A
               PROVE  hashTypeSet(h, pairs[n][1], pairs[n][2]) \in A
    OBVIOUS
  <2> DEFINE f == pairs[n][1]
             v == pairs[n][2]
             new == hashTypeSet(h, f, v)
  <2>1. f \in Fields /\ v \in HashValues
    BY PairIs
  <2>2. HashOK(h) /\ (IsZipmap(h) => Short(v) /\ fits)
    OBVIOUS
  <2> HIDE DEF fits, f, v
  <2>3. HashOK(new) /\ (IsZipmap(new) => IsZipmap(h))
    BY <2>1, <2>2, HashSet
  <2>4. new \in HashObjects
    BY <2>3, HashIs
  <2> HIDE DEF new
  <2> QED BY <2>2, <2>3, <2>4 DEF new, f, v
<1>4. PICK h \in [0 .. N -> A] : StepBy(F, hash, N, h)
  <2> HIDE DEF A, F, N
  <2> QED BY <1>1, <1>2, <1>3, StepsSolved
<1>5. \A n \in 0 .. N : h[n] = SetUpTo(hash, pairs, h, n)
  <2> SUFFICES ASSUME NEW n \in 0 .. N, n # 0
               PROVE  h[n] = hashTypeSet(h[n - 1], pairs[n][1], pairs[n][2])
    BY <1>4 DEF SetUpTo, StepBy
  <2>1. n \in 1 .. N /\ n - 1 \in 0 .. N
    BY <1>1
  <2> HIDE DEF A, N
  <2>2. h[n - 1] \in A
    BY <2>1
  <2>3. h[n] = F[n][h[n - 1]]
    BY <1>4, <2>1 DEF StepBy
  <2> QED BY <2>1, <2>2, <2>3
<1>6. IsSetting(hash, pairs, h)
  <2> HIDE DEF F
  <2> QED BY <1>5 DEF IsSetting
<1> QED BY <1>6 DEF Setting

\* And one the second describes.
LEMMA WithHolds ==
    ASSUME NEW S, S \subseteq Fields, NEW m, m \in [S -> HashValues],
           NEW pairs \in Seq(Fields \X HashValues)
    PROVE  IsWith(m, pairs, WithSteps(m, pairs))
<1> DEFINE N == Len(pairs)
           A == UNION {[T -> HashValues] : T \in SUBSET Fields}
           F == [n \in 1 .. N |-> [d \in A |-> SetInDict(d, pairs[n][1], pairs[n][2])]]
<1>1. N \in Nat
  OBVIOUS
<1>2. m \in A
  OBVIOUS
<1>3. F \in [1 .. N -> [A -> A]]
  <2> SUFFICES ASSUME NEW n \in 1 .. N, NEW d \in A
               PROVE  SetInDict(d, pairs[n][1], pairs[n][2]) \in A
    OBVIOUS
  <2> DEFINE f == pairs[n][1]
             v == pairs[n][2]
  <2>1. f \in Fields /\ v \in HashValues
    BY PairIs
  <2>2. PICK T \in SUBSET Fields : d \in [T -> HashValues]
    OBVIOUS
  <2> HIDE DEF f, v
  <2>3. SetInDict(d, f, v) = [g \in T \cup {f} |-> IF g = f THEN v ELSE d[g]]
    BY <2>2 DEF SetInDict
  <2>4. SetInDict(d, f, v) \in [T \cup {f} -> HashValues] /\ T \cup {f} \in SUBSET Fields
    BY <2>1, <2>2, <2>3
  <2> QED BY <2>4 DEF f, v
<1>4. PICK h \in [0 .. N -> A] : StepBy(F, m, N, h)
  <2> HIDE DEF A, F, N
  <2> QED BY <1>1, <1>2, <1>3, StepsSolved
<1>5. \A n \in 0 .. N : h[n] = WithUpTo(m, pairs, h, n)
  <2> SUFFICES ASSUME NEW n \in 0 .. N, n # 0
               PROVE  h[n] = SetInDict(h[n - 1], pairs[n][1], pairs[n][2])
    BY <1>4 DEF WithUpTo, StepBy
  <2>1. n \in 1 .. N /\ n - 1 \in 0 .. N
    BY <1>1
  <2> HIDE DEF A, N
  <2>2. h[n - 1] \in A
    BY <2>1
  <2>3. h[n] = F[n][h[n - 1]]
    BY <1>4, <2>1 DEF StepBy
  <2> QED BY <2>1, <2>2, <2>3
<1>6. IsWith(m, pairs, h)
  <2> HIDE DEF F
  <2> QED BY <1>5 DEF IsWith
<1> QED BY <1>6 DEF WithSteps

\* Both agree after all of the pairs.
LEMMA HashSetAll ==
    ASSUME NEW hash, HashOK(hash), NEW pairs \in Seq(Fields \X HashValues),
           IsZipmap(hash) => \A i \in 1 .. Len(pairs) : Short(pairs[i][2])
    PROVE  LET new == SetAll(hash, pairs)
           IN  /\ HashOK(new) /\ Map(new) = PromisedHash!WithAll(Map(hash), pairs)
               /\ FieldsOf(hash) \subseteq FieldsOf(new)
               /\ pairs # <<>> => FieldsOf(new) # {}
<1> DEFINE h == Setting(hash, pairs)
           w == WithSteps(Map(hash), pairs)
           N == Len(pairs)
           fits == \A i \in 1 .. N : Short(pairs[i][2])
           Done(n) == /\ HashOK(h[n]) /\ (IsZipmap(h[n]) => fits) /\ Map(h[n]) = w[n]
                      /\ FieldsOf(hash) \subseteq FieldsOf(h[n])
                      /\ n # 0 => FieldsOf(h[n]) # {}
           B == {n \in 0 .. N : ~Done(n)}
<1>1. N \in Nat /\ \A n \in 1 .. N : n \in 0 .. N /\ n - 1 \in 0 .. N /\ n # 0
  OBVIOUS
<1>2. /\ h[0] = hash
      /\ \A n \in 1 .. N : h[n] = hashTypeSet(h[n - 1], pairs[n][1], pairs[n][2])
  <2>1. h = [n \in 0 .. N |-> SetUpTo(hash, pairs, h, n)]
    BY SettingHolds DEF IsSetting
  <2> HIDE DEF h
  <2>2. \A n \in 0 .. N : h[n] = SetUpTo(hash, pairs, h, n)
    BY <2>1
  <2> QED BY <1>1, <2>2 DEF SetUpTo
<1>3. /\ w[0] = Map(hash)
      /\ \A n \in 1 .. N : w[n] = SetInDict(w[n - 1], pairs[n][1], pairs[n][2])
  <2>1. FieldsOf(hash) \subseteq Fields /\ Map(hash) \in [FieldsOf(hash) -> HashValues]
    BY HashIs
  <2>2. w = [n \in 0 .. N |-> WithUpTo(Map(hash), pairs, w, n)]
    BY <2>1, WithHolds DEF IsWith
  <2> HIDE DEF w
  <2>3. \A n \in 0 .. N : w[n] = WithUpTo(Map(hash), pairs, w, n)
    BY <2>2
  <2> QED BY <1>1, <2>3 DEF WithUpTo
<1>4. SetAll(hash, pairs) = h[N] /\ PromisedHash!WithAll(Map(hash), pairs) = w[N]
  BY SetAllIs, WithAllIs
<1> HIDE DEF h, w
<1>5. Done(0)
  BY <1>2, <1>3
<1>6. ASSUME NEW n \in 1 .. N, Done(n - 1) PROVE Done(n)
  <2> DEFINE f == pairs[n][1]
             v == pairs[n][2]
             old == h[n - 1]
             new == hashTypeSet(old, f, v)
  <2>1. f \in Fields /\ v \in HashValues
    BY PairIs
  <2>2. HashOK(old) /\ (IsZipmap(old) => Short(v)) /\ (IsZipmap(old) => fits)
        /\ Map(old) = w[n - 1] /\ FieldsOf(hash) \subseteq FieldsOf(old)
    BY <1>6
  <2>3. h[n] = new /\ w[n] = SetInDict(w[n - 1], f, v)
    BY <1>2, <1>3
  <2> HIDE DEF f, v, old, fits
  <2>4. /\ HashOK(new) /\ Map(new) = SetInDict(Map(old), f, v)
        /\ FieldsOf(new) = FieldsOf(old) \cup {f} /\ (IsZipmap(new) => IsZipmap(old))
    BY <2>1, <2>2, HashSet
  <2> HIDE DEF new
  <2> QED BY <2>2, <2>3, <2>4 DEF fits
<1>7. B = {}
  <2> SUFFICES ASSUME B # {} PROVE FALSE
    OBVIOUS
  <2>1. B \in SUBSET Nat
    OBVIOUS
  <2>2. PICK n \in B : \A k \in B : n <= k
    <3> HIDE DEF B
    <3> QED BY <2>1, LeastNat
  <2> HIDE DEF Done
  <2>3. n # 0 /\ n \in 0 .. N
    BY <1>5
  <2>4. n \in 1 .. N /\ n - 1 \in 0 .. N /\ ~(n <= n - 1)
    BY <1>1, <2>3
  <2>5. Done(n - 1)
    BY <2>2, <2>4
  <2> QED BY <1>6, <2>4, <2>5
<1>8. Done(N)
  <2> HIDE DEF Done
  <2> QED BY <1>1, <1>7
<1>9. pairs # <<>> => N # 0
  OBVIOUS
<1> HIDE DEF N
<1> QED BY <1>4, <1>8, <1>9

-----------------------------------------------------------------------------
(* The key.                                                                *)

HoldsHash(e) == e # Absent /\ e.type = REDIS_HASH
HashOf(e) == IF HoldsHash(e) THEN Map(e.val) ELSE <<>>

\* What the key may hold.
HashEntryOK(e) == e # Absent =>
    /\ e = [type |-> e.type, val |-> e.val, ver |-> e.ver, due |-> e.due]
    /\ e.type = REDIS_HASH =>
          /\ e.ver \in 0 .. VersionMax /\ e.due \in Nat \cup {NoTTL}
          /\ HashOK(e.val) /\ FieldsOf(e.val) # {}

HInv == HashEntryOK(key)

\* What the contract calls the map.
LEMMA StoredMapIs == StoredMap = HashOf(key) /\ StoredMap' = HashOf(key')
BY DEF StoredMap, HashOf, IsHash, HoldsHash

\* The contract counts with the same operator.
LEMMA HashCount == \A S : PromisedHash!Cardinality(S) = Cardinality(S)
BY DEF PromisedHash!Cardinality, Cardinality

\* An entry as the contract sees it.
LEMMA HashEntryIs ==
    ASSUME NEW e, HashEntryOK(e)
    PROVE  /\ DOMAIN HashOf(e) \subseteq Fields /\ IsFiniteSet(DOMAIN HashOf(e))
           /\ HashOf(e) \in [DOMAIN HashOf(e) -> HashValues]
           /\ HoldsHash(e) <=> DOMAIN HashOf(e) # {}
           /\ HoldsHash(e) => /\ HashOK(e.val) /\ Map(e.val) = HashOf(e)
                              /\ FieldsOf(e.val) = DOMAIN HashOf(e)
<1>1. CASE HoldsHash(e)
  <2>1. HashOK(e.val) /\ FieldsOf(e.val) # {} /\ HashOf(e) = Map(e.val)
    BY <1>1 DEF HashEntryOK, HoldsHash, HashOf
  <2> DEFINE m == Map(e.val)
             S == FieldsOf(e.val)
  <2>2. S \subseteq Fields /\ IsFiniteSet(S) /\ DOMAIN m = S /\ m \in [S -> HashValues]
    BY <2>1, HashIs
  <2> HIDE DEF m, S
  <2>3. m \in [DOMAIN m -> HashValues]
    BY <2>2
  <2> QED BY <1>1, <2>1, <2>2, <2>3 DEF m, S
<1>2. CASE ~HoldsHash(e)
  <2>1. HashOf(e) = <<>>
    BY <1>2 DEF HashOf
  <2>2. DOMAIN HashOf(e) = {} /\ HashOf(e) \in [{} -> HashValues]
    BY <2>1
  <2> QED BY <1>2, <2>2, FS_EmptySet
<1> QED BY <1>1, <1>2

\* An entry that holds a hash is not the mark of an absent one.
LEMMA HashEntryMade ==
    ASSUME NEW hash, HashOK(hash), FieldsOf(hash) # {},
           NEW ver \in 0 .. VersionMax, NEW due \in Nat \cup {NoTTL}
    PROVE  LET e == [type |-> REDIS_HASH, val |-> hash, ver |-> ver, due |-> due]
           IN  HashEntryOK(e) /\ e # Absent /\ HoldsHash(e) /\ HashOf(e) = Map(hash)
<1> DEFINE e == [type |-> REDIS_HASH, val |-> hash, ver |-> ver, due |-> due]
<1>1. hash \in HashObjects
  BY HashIs
<1>2. e \in TypedEntry({REDIS_HASH}, HashObjects)
  BY <1>1 DEF TypedEntry
<1>3. e # Absent
  BY <1>2, HashMarkAssumption
<1>4. e.type = REDIS_HASH /\ e.val = hash /\ e.ver = ver /\ e.due = due
  OBVIOUS
<1>5. e = [type |-> e.type, val |-> e.val, ver |-> e.ver, due |-> e.due]
  OBVIOUS
<1> HIDE DEF e
<1> QED BY <1>3, <1>4, <1>5 DEF HashEntryOK, HoldsHash, HashOf

\* What the write commands store.
LEMMA HashWritten ==
    ASSUME HInv, HasType(REDIS_HASH), NEW r \in Requests,
           NEW hash, HashOK(hash), FieldsOf(hash) # {}
    PROVE  LET e == Written(REDIS_HASH, hash, r)
           IN  HashEntryOK(e) /\ e # Absent /\ HoldsHash(e) /\ HashOf(e) = Map(hash)
<1>1. r \in [ver : 0 .. VersionMax, care : BOOLEAN, et : Int] /\ VersionMax \in Nat
  BY RequestAssumption
<1>2. key # Absent => key.ver \in 0 .. VersionMax /\ key.due \in Nat \cup {NoTTL}
  BY DEF HInv, HashEntryOK, HasType
<1>3. WriteVersion(r) \in 0 .. VersionMax
  BY <1>1, <1>2 DEF WriteVersion
<1>4. ExpireOrNot(r) \in Nat \cup {NoTTL}
  BY <1>1, <1>2 DEF ExpireOrNot
<1> QED BY <1>3, <1>4, HashEntryMade DEF Written

\* A stored value replaced.
LEMMA HashKept ==
    ASSUME HInv, HoldsHash(key), NEW hash, HashOK(hash), FieldsOf(hash) # {}
    PROVE  LET e == Kept(hash)
           IN  HashEntryOK(e) /\ e # Absent /\ HoldsHash(e) /\ HashOf(e) = Map(hash)
<1> DEFINE ver == key.ver
           due == key.due
           v == key.val
<1>1. key = [type |-> REDIS_HASH, val |-> v, ver |-> ver, due |-> due]
      /\ ver \in 0 .. VersionMax /\ due \in Nat \cup {NoTTL}
  BY DEF HInv, HashEntryOK, HoldsHash
<1> HIDE DEF ver, due, v
<1>2. Kept(hash) = [type |-> REDIS_HASH, val |-> hash, ver |-> ver, due |-> due]
  BY <1>1 DEF Kept
<1> QED BY <1>1, <1>2, HashEntryMade

\* What a command works on.
LEMMA WorkingIs ==
    ASSUME HInv, HasType(REDIS_HASH)
    PROVE  /\ HashOK(Working) /\ Map(Working) = HashOf(key)
           /\ FieldsOf(Working) = DOMAIN HashOf(key)
           /\ key # Absent <=> HoldsHash(key)
<1>1. key # Absent <=> HoldsHash(key)
  BY DEF HasType, HoldsHash
<1>2. CASE key # Absent
  BY <1>1, <1>2, HashEntryIs DEF HInv, Working
<1>3. CASE key = Absent
  <2>1. Working = createHashObject /\ HashOf(key) = <<>>
    BY <1>1, <1>3 DEF Working, HashOf
  <2>2. HashOK(Working) /\ FieldsOf(Working) = {}
    BY <2>1, HashCreated
  <2>3. Map(Working) = <<>>
    <3>1. Map(Working) = [f \in {} |-> hashTypeGet(Working, f)]
      BY <2>2 DEF Map
    <3> QED BY <3>1
  <2> QED BY <1>1, <1>3, <2>1, <2>2, <2>3
<1> QED BY <1>2, <1>3

\* A step that changes the key or its reply.
LEMMA HashStep ==
    ASSUME NEW cmd, NEW arg, NEW rc, NEW val, Answer(cmd, arg, rc, val), HashEntryOK(key')
    PROVE  /\ HInv'
           /\ PromisedHash!Answering(cmd) /\ PromisedHash!Asked(arg)
           /\ PromisedHash!Answers(rc, val)
           /\ HashOf(key') = HashOf(key) => PromisedHash!Says(rc, val)
<1>1. reply' = [cmd |-> cmd, arg |-> arg, rc |-> rc, val |-> val]
  BY DEF Answer, AnswerForBoth
<1> QED BY <1>1, StoredMapIs DEF HInv, PromisedHash!Answering, PromisedHash!Asked,
           PromisedHash!Answers, PromisedHash!Says

\* A command that only answers.
LEMMA HashSame ==
    ASSUME HInv, NEW cmd, NEW arg, NEW rc, NEW val, Reply(cmd, arg, rc, val)
    PROVE  /\ HInv'
           /\ PromisedHash!Answering(cmd) /\ PromisedHash!Asked(arg)
           /\ PromisedHash!Says(rc, val)
BY HashStep DEF Reply, HInv

\* A command that is refused.
LEMMA HashRefused ==
    ASSUME HInv, NEW cmd, NEW arg, NEW rc, Refuse(cmd, arg, rc)
    PROVE  /\ HInv'
           /\ PromisedHash!Answering(cmd) /\ PromisedHash!Asked(arg)
           /\ PromisedHash!Refuses(rc)
BY HashSame DEF Refuse, PromisedHash!Refuses

\* A key that holds no hash, and one that does.
LEMMA NoneIs == HInv => (PromisedHash!None <=> ~HoldsHash(key))
BY StoredMapIs, HashEntryIs DEF HInv, PromisedHash!None

\* A command that finds no hash to read.
LEMMA HashRefusedRead ==
    ASSUME HInv, NEW cmd, NEW arg, RefuseRead(cmd, arg, REDIS_HASH)
    PROVE  /\ HInv'
           /\ PromisedHash!Answering(cmd) /\ PromisedHash!Asked(arg)
           /\ PromisedHash!Nothing
<1>1. PICK rc \in {"NOT_EXIST", "WRONG_TYPE"} : Refuse(cmd, arg, rc)
  BY DEF RefuseRead
<1>2. ~HoldsHash(key)
  BY DEF RefuseRead, HasType, HoldsHash
<1> QED BY <1>1, <1>2, HashRefused, NoneIs DEF PromisedHash!Nothing

\* A command that finds no hash to write, or another version of it.
LEMMA HashRefusedWrite ==
    ASSUME HInv, NEW cmd, NEW arg, NEW r, RefuseWrite(cmd, arg, REDIS_HASH, r)
    PROVE  /\ HInv'
           /\ PromisedHash!Answering(cmd) /\ PromisedHash!Asked(arg)
           /\ PromisedHash!Nothing \/ PromisedHash!Conflict
<1>1. CASE RefuseRead(cmd, arg, REDIS_HASH)
  BY <1>1, HashRefusedRead
<1>2. CASE HasType(REDIS_HASH) /\ ~VersionOK(r) /\ Refuse(cmd, arg, "VERSION_ERROR")
  <2>1. HoldsHash(key)
    BY <1>2 DEF VersionOK, HasType, HoldsHash
  <2> QED BY <1>2, <2>1, HashRefused, NoneIs DEF PromisedHash!Conflict
<1> QED BY <1>1, <1>2 DEF RefuseWrite

\* The same for a command that would make the hash.
LEMMA HashNotMade ==
    ASSUME HInv, NEW cmd, NEW arg, NEW r, RefuseHash(cmd, arg, r)
    PROVE  /\ HInv'
           /\ PromisedHash!Answering(cmd) /\ PromisedHash!Asked(arg)
           /\ PromisedHash!Taken \/ PromisedHash!Conflict
<1>1. CASE ~HasType(REDIS_HASH) /\ Refuse(cmd, arg, "WRONG_TYPE")
  <2>1. ~HoldsHash(key)
    BY <1>1 DEF HasType, HoldsHash
  <2> QED BY <1>1, <2>1, HashRefused, NoneIs DEF PromisedHash!Taken
<1>2. CASE HasType(REDIS_HASH) /\ ~VersionOK(r) /\ Refuse(cmd, arg, "VERSION_ERROR")
  <2>1. HoldsHash(key)
    BY <1>2 DEF VersionOK, HasType, HoldsHash
  <2> QED BY <1>2, <2>1, HashRefused, NoneIs DEF PromisedHash!Conflict
<1> QED BY <1>1, <1>2 DEF RefuseHash

-----------------------------------------------------------------------------
(* The commands of hashes.                                                 *)

\* A key that can be read as a hash.
LEMMA HashReadable ==
    ASSUME HInv, Readable(REDIS_HASH)
    PROVE  /\ HoldsHash(key) /\ HashOK(key.val) /\ Map(key.val) = StoredMap
           /\ FieldsOf(key.val) = DOMAIN StoredMap /\ DOMAIN StoredMap # {}
           /\ StoredMap \in [DOMAIN StoredMap -> HashValues]
           /\ DOMAIN StoredMap \subseteq Fields /\ IsFiniteSet(DOMAIN StoredMap)
           /\ HasType(REDIS_HASH) /\ ~PromisedHash!None
<1>1. HoldsHash(key) /\ HasType(REDIS_HASH)
  BY DEF Readable, HasType, HoldsHash
<1> QED BY <1>1, StoredMapIs, HashEntryIs, NoneIs DEF HInv

\* What a command that sets one field finds and makes.
LEMMA OneFieldSet ==
    ASSUME HInv, HasType(REDIS_HASH), NEW hash, HashOK(hash), Map(hash) = StoredMap,
           FieldsOf(hash) = DOMAIN StoredMap,
           NEW f \in Fields, NEW v \in HashValues, IsZipmap(hash) => Short(v)
    PROVE  LET new == hashTypeSet(hash, f, v)
               m == SetInDict(StoredMap, f, v)
           IN  /\ HashOK(new) /\ Map(new) = m /\ FieldsOf(new) # {}
               /\ HashOK(Measured(new)) /\ Map(Measured(new)) = m /\ FieldsOf(Measured(new)) # {}
               /\ hashTypeExists(hash, f) <=> f \in DOMAIN StoredMap
               /\ hashTypeLength(hash) = Cardinality(DOMAIN StoredMap)
               /\ Cardinality(DOMAIN StoredMap) \in Nat
               /\ f \notin DOMAIN StoredMap =>
                     hashTypeLength(new) = Cardinality(DOMAIN StoredMap) + 1
               /\ HashOK(hashTypeDelete(Measured(new), f))
               /\ f \notin DOMAIN StoredMap =>
                     /\ Map(hashTypeDelete(Measured(new), f)) = StoredMap
                     /\ FieldsOf(hashTypeDelete(Measured(new), f)) = DOMAIN StoredMap
<1> DEFINE S == DOMAIN StoredMap
           m == SetInDict(StoredMap, f, v)
           new == hashTypeSet(hash, f, v)
           meas == Measured(new)
           back == hashTypeDelete(meas, f)
<1>1. /\ IsFiniteSet(S) /\ hashTypeLength(hash) = Cardinality(S)
      /\ hashTypeExists(hash, f) <=> f \in S
  BY HashIs
<1>2. HashOK(new) /\ Map(new) = m /\ FieldsOf(new) = S \cup {f}
  BY HashSet
<1> HIDE DEF new
<1>3. HashOK(meas) /\ Map(meas) = m /\ FieldsOf(meas) = S \cup {f}
  BY <1>2, HashMeasured
<1> HIDE DEF meas
<1>4. HashOK(back) /\ FieldsOf(back) = (S \cup {f}) \ {f}
      /\ Map(back) = [g \in (S \cup {f}) \ {f} |-> m[g]]
  <2> DEFINE T == S \cup {f}
             fields == FieldsOf(meas)
             o == Map(meas)
  <2>1. /\ HashOK(back) /\ FieldsOf(back) = fields \ {f}
        /\ Map(back) = [g \in fields \ {f} |-> o[g]]
    BY <1>3, HashDelete
  <2>2. fields = T /\ o = m
    BY <1>3
  <2> HIDE DEF S, T, fields, o, m, back
  <2>3. [g \in fields \ {f} |-> o[g]] = [g \in T \ {f} |-> m[g]]
    BY <2>2
  <2> QED BY <2>1, <2>2, <2>3 DEF T
<1> HIDE DEF back
<1>5. Cardinality(S) \in Nat /\ hashTypeLength(new) = Cardinality(S \cup {f})
  BY <1>1, <1>2, HashIs, FS_CardinalityType
<1>6. f \notin S => hashTypeLength(new) = Cardinality(S) + 1
  BY <1>1, <1>5, FS_AddElement
<1>7. ASSUME f \notin S
      PROVE  Map(back) = StoredMap /\ FieldsOf(back) = S
  <2> DEFINE o == StoredMap
  <2>1. (S \cup {f}) \ {f} = S
    BY <1>7
  <2>2. o \in [S -> HashValues]
    BY HashIs
  <2>3. \A g \in S : m[g] = o[g]
    BY <1>7 DEF SetInDict
  <2> HIDE DEF m, o, S
  <2>4. [g \in S |-> m[g]] = o
    BY <2>2, <2>3
  <2> QED BY <1>4, <2>1, <2>4 DEF o
<1> QED BY <1>1, <1>2, <1>3, <1>4, <1>5, <1>6, <1>7 DEF new, meas, back

\* A conversion tried first changes nothing the contract sees.
LEMMA TriedFirst ==
    ASSUME HInv, HasType(REDIS_HASH), NEW strings, strings \subseteq Fields \cup HashValues
    PROVE  LET old == hashTypeTryConversion(Working, strings)
           IN  /\ HashOK(old) /\ Map(old) = StoredMap /\ FieldsOf(old) = DOMAIN StoredMap
               /\ IsZipmap(old) => \A s \in strings : Short(s)
BY WorkingIs, StoredMapIs, HashTried

\* HSET: a field too many is taken out again, and the hash it leaves had fields
\* before, since a first field is never too many.
LEMMA HsetStep ==
    ASSUME HInv, NEW f \in Fields, NEW v \in HashValues, NEW r \in Requests, Hset(f, v, r)
    PROVE  HInv' /\ PromisedHash!Next
<1> DEFINE arg == <<f, v>>
           old == hashTypeTryConversion(Working, {f, v})
           new == hashTypeSet(old, f, v)
           meas == Measured(new)
           back == hashTypeDelete(meas, f)
           S == DOMAIN StoredMap
           m == SetInDict(StoredMap, f, v)
<1> SUFFICES HInv' /\ PromisedHash!Answering("HSET") /\ PromisedHash!Asked(arg)
             /\ PromisedHash!Set(f, v)
  BY DEF PromisedHash!Next
<1>1. CASE RefuseHash("HSET", arg, r)
  <2> HIDE DEF arg
  <2> QED BY <1>1, HashNotMade DEF PromisedHash!Set
<1>2. ASSUME Ready(r)
      PROVE  /\ HasType(REDIS_HASH)
             /\ HashOK(new) /\ Map(new) = m /\ FieldsOf(new) # {}
             /\ HashOK(meas) /\ Map(meas) = m /\ FieldsOf(meas) # {}
             /\ hashTypeExists(old, f) <=> f \in S
             /\ Cardinality(S) \in Nat
             /\ f \notin S =>
                   /\ hashTypeLength(new) = Cardinality(S) + 1
                   /\ HashOK(back) /\ Map(back) = StoredMap /\ FieldsOf(back) = S
  <2>1. HasType(REDIS_HASH)
    BY <1>2 DEF Ready
  <2>2. HashOK(old) /\ Map(old) = StoredMap /\ FieldsOf(old) = S /\ (IsZipmap(old) => Short(v))
    BY <2>1, TriedFirst
  <2> HIDE DEF old
  <2> QED BY <2>1, <2>2, OneFieldSet
<1> HIDE DEF old, new, meas, back, m, arg
<1>3. PromisedHash!With(StoredMap, f, v) = m
      /\ (PromisedHash!There(f) <=> f \in S) /\ PromisedHash!Size = Cardinality(S)
  BY HashCount DEF PromisedHash!With, SetInDict, m, PromisedHash!There, PromisedHash!Size
<1>4. CASE /\ Ready(r) /\ hashTypeExists(old, f)
           /\ key' = Written(REDIS_HASH, new, r) /\ Answer("HSET", arg, "ALREADY_EXIST", 0)
  <2>1. HashEntryOK(key') /\ HashOf(key') = m /\ f \in S
    BY <1>2, <1>4, HashWritten
  <2> QED BY <1>3, <1>4, <2>1, HashStep, StoredMapIs DEF PromisedHash!Set
<1>5. CASE /\ Ready(r) /\ ~hashTypeExists(old, f) /\ hashTypeLength(new) > hash_max_size
           /\ key' = Kept(back) /\ Answer("HSET", arg, "LEN_LIMITED", 0)
  <2>1. f \notin S /\ Cardinality(S) >= hash_max_size /\ Cardinality(S) # 0
    BY <1>2, <1>5, HashesAssumption
  <2>2. S # {} /\ HoldsHash(key)
    BY <2>1, FS_EmptySet, HashEntryIs, StoredMapIs DEF HInv
  <2>3. HashEntryOK(key') /\ HashOf(key') = HashOf(key)
    BY <1>2, <1>5, <2>1, <2>2, HashKept, StoredMapIs
  <2> QED BY <1>3, <1>5, <2>1, <2>3, HashStep DEF PromisedHash!Set, PromisedHash!Refuses
<1>6. CASE /\ Ready(r) /\ ~hashTypeExists(old, f) /\ hashTypeLength(new) <= hash_max_size
           /\ key' = Written(REDIS_HASH, meas, r) /\ Answer("HSET", arg, "OK", 0)
  <2>1. f \notin S /\ Cardinality(S) < hash_max_size
    BY <1>2, <1>6, HashesAssumption
  <2>2. HashEntryOK(key') /\ HashOf(key') = m
    BY <1>2, <1>6, HashWritten
  <2> QED BY <1>3, <1>6, <2>1, <2>2, HashStep, StoredMapIs DEF PromisedHash!Set
<1> QED BY <1>1, <1>4, <1>5, <1>6 DEF Hset, old, new, meas, back, arg

\* HSETNX: a field that is there stays as it is.
LEMMA HsetnxStep ==
    ASSUME HInv, NEW f \in Fields, NEW v \in HashValues, NEW r \in Requests, Hsetnx(f, v, r)
    PROVE  HInv' /\ PromisedHash!Next
<1> DEFINE arg == <<f, v>>
           old == hashTypeTryConversion(Working, {f, v})
           new == hashTypeSet(old, f, v)
           S == DOMAIN StoredMap
           m == SetInDict(StoredMap, f, v)
<1> SUFFICES HInv' /\ PromisedHash!Answering("HSETNX") /\ PromisedHash!Asked(arg)
             /\ PromisedHash!SetNew(f, v)
  BY DEF PromisedHash!Next
<1>1. CASE RefuseHash("HSETNX", arg, r)
  <2> HIDE DEF arg
  <2> QED BY <1>1, HashNotMade DEF PromisedHash!SetNew
<1>2. ASSUME Ready(r)
      PROVE  /\ HasType(REDIS_HASH)
             /\ HashOK(old) /\ Map(old) = StoredMap /\ FieldsOf(old) = S
             /\ HashOK(new) /\ Map(new) = m /\ FieldsOf(new) # {}
             /\ hashTypeExists(old, f) <=> f \in S
  <2>1. HasType(REDIS_HASH)
    BY <1>2 DEF Ready
  <2>2. HashOK(old) /\ Map(old) = StoredMap /\ FieldsOf(old) = S /\ (IsZipmap(old) => Short(v))
    BY <2>1, TriedFirst
  <2> HIDE DEF old
  <2> QED BY <2>1, <2>2, OneFieldSet
<1> HIDE DEF old, new, m, arg
<1>3. PromisedHash!With(StoredMap, f, v) = m /\ (PromisedHash!There(f) <=> f \in S)
  BY DEF PromisedHash!With, SetInDict, m, PromisedHash!There
<1>4. CASE /\ Ready(r) /\ hashTypeExists(old, f)
           /\ key' = Kept(old) /\ Answer("HSETNX", arg, "ALREADY_EXIST", 0)
  <2>1. f \in S /\ HoldsHash(key)
    BY <1>2, <1>4, HashEntryIs, StoredMapIs DEF HInv
  <2>2. HashEntryOK(key') /\ HashOf(key') = HashOf(key)
    BY <1>2, <1>4, <2>1, HashKept, StoredMapIs
  <2> QED BY <1>3, <1>4, <2>1, <2>2, HashStep DEF PromisedHash!SetNew, PromisedHash!Refuses
<1>5. CASE /\ Ready(r) /\ ~hashTypeExists(old, f)
           /\ key' = Written(REDIS_HASH, new, r) /\ Answer("HSETNX", arg, "OK", 0)
  <2>1. HashEntryOK(key') /\ HashOf(key') = m
    BY <1>2, <1>5, HashWritten
  <2> QED BY <1>2, <1>3, <1>5, <2>1, HashStep, StoredMapIs DEF PromisedHash!SetNew
<1> QED BY <1>1, <1>4, <1>5 DEF Hsetnx, old, new, arg

\* No pairs, no change.
LEMMA WithNone ==
    ASSUME NEW S, S \subseteq Fields, NEW m, m \in [S -> HashValues],
           NEW pairs \in Seq(Fields \X HashValues), Len(pairs) = 0
    PROVE  PromisedHash!WithAll(m, pairs) = m
<1> DEFINE w == WithSteps(m, pairs)
<1>0. IsWith(m, pairs, w)
  BY WithHolds
<1>1. w = [n \in 0 .. Len(pairs) |-> WithUpTo(m, pairs, w, n)]
  BY <1>0 DEF IsWith
<1> HIDE DEF w
<1>2. w[0] = WithUpTo(m, pairs, w, 0)
  BY <1>1
<1> QED BY <1>2, WithAllIs DEF WithUpTo, w

\* The pairs a full hash takes.
LEMMA PairsTaken ==
    ASSUME NEW hash, NEW pairs \in Seq(Fields \X HashValues),
           \A f : hashTypeExists(hash, f) <=> f \in DOMAIN StoredMap
    PROVE  LET new == {i \in DOMAIN pairs : ~PromisedHash!There(pairs[i][1])}
               n == IF new = {} THEN Len(pairs)
                    ELSE (CHOOSE i \in new : \A j \in new : i <= j) - 1
               done == Changing(hash, pairs)
           IN  /\ n \in 0 .. Len(pairs) /\ done = SubSeq(pairs, 1, n) /\ Len(done) = n
               /\ done \in Seq(Fields \X HashValues)
               /\ done = pairs <=> n = Len(pairs)
               /\ done = <<>> <=> n = 0
<1> DEFINE new == {i \in DOMAIN pairs : ~PromisedHash!There(pairs[i][1])}
           least == CHOOSE i \in new : \A j \in new : i <= j
           n == IF new = {} THEN Len(pairs) ELSE least - 1
           done == Changing(hash, pairs)
<1>1. new = {i \in DOMAIN pairs : ~hashTypeExists(hash, pairs[i][1])}
  BY DEF PromisedHash!There
<1>2. Len(pairs) \in Nat /\ new \subseteq 1 .. Len(pairs)
  OBVIOUS
<1>3. done = SubSeq(pairs, 1, IF new = {} THEN Len(pairs) ELSE Min(new) - 1)
  <2> HIDE DEF new
  <2> QED BY <1>1 DEF Changing
<1> HIDE DEF new
<1>4. Min(new) = least
  BY DEF Min
<1>5. new # {} => least \in new
  <2>1. new \in SUBSET Nat
    BY <1>2
  <2> QED BY <2>1, LeastNat
<1>6. n \in 0 .. Len(pairs) /\ done = SubSeq(pairs, 1, n)
  <2>1. new # {} => least \in 1 .. Len(pairs)
    BY <1>2, <1>5
  <2> HIDE DEF least, done
  <2>2. n \in 0 .. Len(pairs)
    BY <1>2, <2>1
  <2>3. n = IF new = {} THEN Len(pairs) ELSE Min(new) - 1
    BY <1>4
  <2> HIDE DEF n
  <2> QED BY <1>3, <2>2, <2>3
<1> HIDE DEF n, done
<1>7. /\ Len(done) = n /\ done \in Seq(Fields \X HashValues)
      /\ n = Len(pairs) => done = pairs
  BY <1>2, <1>6
<1>8. done = <<>> <=> n = 0
  <2>1. \A s \in Seq(Fields \X HashValues) : s = <<>> <=> Len(s) = 0
    OBVIOUS
  <2> QED BY <1>7, <2>1
<1> QED BY <1>6, <1>7, <1>8 DEF n, done, least, new

\* HMSET: all pairs into a hash that is not full, and the first ones that only
\* change a field into one that is.
LEMMA HmsetStep ==
    ASSUME HInv, NEW pairs \in SetArgs, NEW r \in Requests, Hmset(pairs, r)
    PROVE  HInv' /\ PromisedHash!Next
<1> DEFINE strings == UNION {{pairs[i][1], pairs[i][2]} : i \in DOMAIN pairs}
           tried == hashTypeTryConversion(Working, strings)
           old == Measured(tried)
           done == Changing(old, pairs)
           S == DOMAIN StoredMap
           Size == Cardinality(S)
           first == {i \in DOMAIN pairs : ~PromisedHash!There(pairs[i][1])}
           n == IF first = {} THEN Len(pairs)
                ELSE (CHOOSE i \in first : \A j \in first : i <= j) - 1
<1> SUFFICES HInv' /\ PromisedHash!Answering("HMSET") /\ PromisedHash!Asked(pairs)
             /\ PromisedHash!SetMany(pairs)
  BY DEF PromisedHash!Next
<1>1. CASE RefuseHash("HMSET", pairs, r)
  BY <1>1, HashNotMade DEF PromisedHash!SetMany
<1>2. pairs \in Seq(Fields \X HashValues) /\ pairs # <<>> /\ Len(pairs) \in Nat
      /\ DOMAIN pairs = 1 .. Len(pairs)
  BY HashesAssumption
<1>3. /\ strings \subseteq Fields \cup HashValues
      /\ \A i \in 1 .. Len(pairs) : pairs[i][2] \in strings
  <2>1. \A i \in 1 .. Len(pairs) : pairs[i][1] \in Fields /\ pairs[i][2] \in HashValues
    BY <1>2, PairIs
  <2> QED BY <1>2, <2>1
<1> HIDE DEF strings
<1>4. ASSUME Ready(r)
      PROVE  /\ HasType(REDIS_HASH)
             /\ HashOK(old) /\ Map(old) = StoredMap /\ FieldsOf(old) = S
             /\ IsZipmap(old) => \A i \in 1 .. Len(pairs) : Short(pairs[i][2])
             /\ hashTypeLength(old) = Size /\ Size \in Nat
             /\ \A f : hashTypeExists(old, f) <=> f \in S
  <2>1. HasType(REDIS_HASH)
    BY <1>4 DEF Ready
  <2>2. /\ HashOK(tried) /\ Map(tried) = StoredMap /\ FieldsOf(tried) = S
        /\ IsZipmap(tried) => \A s \in strings : Short(s)
    BY <1>3, <2>1, TriedFirst
  <2> HIDE DEF tried
  <2>3. /\ HashOK(old) /\ Map(old) = StoredMap /\ FieldsOf(old) = S
        /\ IsZipmap(old) => \A s \in strings : Short(s)
    BY <2>2, HashMeasured
  <2> HIDE DEF old
  <2> QED BY <1>3, <2>1, <2>3, HashIs, FS_CardinalityType
<1> HIDE DEF old, tried
<1>5. PromisedHash!Size = Size
  BY HashCount DEF PromisedHash!Size
<1>6. CASE /\ Ready(r) /\ ~(hashTypeLength(old) >= hash_max_size)
           /\ key' = Written(REDIS_HASH, SetAll(old, pairs), r)
           /\ Answer("HMSET", pairs, "OK", Len(pairs))
  <2> DEFINE new == SetAll(old, pairs)
             size == Cardinality(S)
  <2>1. HashOK(new) /\ Map(new) = PromisedHash!WithAll(StoredMap, pairs) /\ FieldsOf(new) # {}
    BY <1>2, <1>4, <1>6, HashSetAll
  <2> HIDE DEF new
  <2>2. HashEntryOK(key') /\ HashOf(key') = PromisedHash!WithAll(StoredMap, pairs)
    BY <1>4, <1>6, <2>1, HashWritten DEF new
  <2>3. PromisedHash!Size < hash_max_size
    BY <1>4, <1>5, <1>6, HashesAssumption
  <2>4. SubSeq(pairs, 1, Len(pairs)) = pairs
    BY <1>2
  <2>5. StoredMap' = PromisedHash!WithAll(StoredMap, SubSeq(pairs, 1, Len(pairs)))
    BY <2>2, <2>4, StoredMapIs
  <2> QED BY <1>6, <2>2, <2>3, <2>5, HashStep DEF PromisedHash!SetMany
<1>7. CASE /\ Ready(r) /\ hashTypeLength(old) >= hash_max_size /\ ~IsZipmap(old)
           /\ key' = IF done = <<>> THEN Kept(old) ELSE Written(REDIS_HASH, SetAll(old, done), r)
           /\ Answer("HMSET", pairs, IF done = pairs THEN "OK" ELSE "LEN_LIMITED", Len(done))
  <2> DEFINE new == SetAll(old, done)
             all == PromisedHash!WithAll(StoredMap, done)
  <2>1. /\ n \in 0 .. Len(pairs) /\ done = SubSeq(pairs, 1, n) /\ Len(done) = n
        /\ done \in Seq(Fields \X HashValues)
        /\ done = pairs <=> n = Len(pairs)
        /\ done = <<>> <=> n = 0
    BY <1>2, <1>4, <1>7, PairsTaken
  <2>2. Size >= hash_max_size /\ Size # 0 /\ ~(PromisedHash!Size < hash_max_size)
    BY <1>4, <1>5, <1>7, HashesAssumption
  <2> HIDE DEF done
  <2>3. S # {} /\ HoldsHash(key) /\ StoredMap \in [S -> HashValues] /\ S \subseteq Fields
    BY <2>2, FS_EmptySet, HashEntryIs, StoredMapIs DEF HInv
  <2>4. HashOK(new) /\ Map(new) = all /\ S \subseteq FieldsOf(new)
    BY <1>4, <1>7, <2>1, HashSetAll
  <2> HIDE DEF new
  <2>5. HashEntryOK(key') /\ HashOf(key') = all
    <3>1. CASE done = <<>>
      <4>1. all = StoredMap
        BY <2>1, <2>3, <3>1, WithNone
      <4> QED BY <1>4, <1>7, <2>3, <3>1, <4>1, HashKept
    <3>2. CASE done # <<>>
      BY <1>4, <1>7, <2>3, <2>4, <3>2, HashWritten DEF new
    <3> QED BY <3>1, <3>2
  <2> HIDE DEF n, first
  <2>6. /\ HInv' /\ PromisedHash!Answering("HMSET") /\ PromisedHash!Asked(pairs)
        /\ PromisedHash!Answers(IF n = Len(pairs) THEN "OK" ELSE "LEN_LIMITED", n)
    BY <1>7, <2>1, <2>5, HashStep
  <2>7. StoredMap' = PromisedHash!WithAll(StoredMap, SubSeq(pairs, 1, n))
    BY <2>1, <2>5, StoredMapIs
  <2> QED BY <2>2, <2>6, <2>7 DEF PromisedHash!SetMany, n, first
<1> QED BY <1>1, <1>6, <1>7 DEF Hmset, old, tried, strings

\* A number cut to an int32_t is one.
LEMMA CutIs == ASSUME NEW n, n \in Int PROVE HashInt32(n) \in HashIntegers
<1> DEFINE w == Int32Max - Int32Min + 1
           rest == (n - Int32Min) % w
<1>1. Int32Min \in Int /\ Int32Max \in Int /\ Int32Min <= 0 /\ 0 <= Int32Max
      /\ Int32Min .. Int32Max \subseteq HashIntegers
  BY HashesAssumption
<1>2. w \in Int /\ w > 0 /\ n - Int32Min \in Int
  BY <1>1
<1>3. rest \in 0 .. w - 1
  <2> HIDE DEF w
  <2> QED BY <1>2
<1>4. HashInt32(n) = rest + Int32Min
  BY DEF HashInt32
<1> HIDE DEF rest
<1> QED BY <1>1, <1>3, <1>4

\* HINCRBY: a field that is not there counts from zero, one that holds no
\* integer stays, and a full hash gets no new one.
LEMMA HincrbyStep ==
    ASSUME HInv, NEW f \in Fields, NEW incr \in Increments, NEW r \in Requests,
           Hincrby(f, incr, r)
    PROVE  HInv' /\ PromisedHash!Next
<1> DEFINE arg == <<f, incr>>
           there == hashTypeExists(Working, f)
           value == HashInt32((IF there THEN hashTypeGet(Working, f) ELSE 0) + incr)
           new == hashTypeSet(Working, f, value)
           S == DOMAIN StoredMap
           m == SetInDict(StoredMap, f, value)
<1> SUFFICES HInv' /\ PromisedHash!Answering("HINCRBY") /\ PromisedHash!Asked(arg)
             /\ PromisedHash!Increment(f, incr)
  BY DEF PromisedHash!Next
<1>1. CASE RefuseHash("HINCRBY", arg, r)
  <2> HIDE DEF arg
  <2> QED BY <1>1, HashNotMade DEF PromisedHash!Increment
<1>2. ASSUME Ready(r)
      PROVE  /\ HasType(REDIS_HASH)
             /\ HashOK(Working) /\ Map(Working) = StoredMap /\ FieldsOf(Working) = S
             /\ there <=> f \in S
             /\ there => hashTypeGet(Working, f) = StoredMap[f] /\ HoldsHash(key)
             /\ hashTypeLength(Working) = Cardinality(S) /\ Cardinality(S) \in Nat
             /\ (Cardinality(S) # 0 => HoldsHash(key))
  <2>1. HasType(REDIS_HASH)
    BY <1>2 DEF Ready
  <2>2. /\ HashOK(Working) /\ Map(Working) = StoredMap /\ FieldsOf(Working) = S
        /\ HoldsHash(key) <=> S # {}
    BY <2>1, WorkingIs, StoredMapIs, HashEntryIs DEF HInv
  <2>3. /\ there <=> f \in S
        /\ there => hashTypeGet(Working, f) = StoredMap[f]
        /\ hashTypeLength(Working) = Cardinality(S) /\ IsFiniteSet(S)
    BY <2>2, HashIs
  <2> QED BY <2>1, <2>2, <2>3, FS_CardinalityType, FS_EmptySet
<1>3. /\ PromisedHash!There(f) <=> f \in S
      /\ PromisedHash!Size = Cardinality(S)
      /\ PromisedHash!With(StoredMap, f, value) = m
  BY HashCount DEF PromisedHash!There, PromisedHash!Size, PromisedHash!With, SetInDict
<1>4. Ready(r) => value = HashInt32((IF PromisedHash!There(f) THEN StoredMap[f] ELSE 0) + incr)
  BY <1>2, <1>3
<1>5. CASE /\ Ready(r) /\ there /\ hashTypeGet(Working, f) \notin HashIntegers
           /\ Refuse("HINCRBY", arg, "IS_NOT_INTEGER")
  <2> HIDE DEF arg, there, value
  <2> QED BY <1>2, <1>3, <1>5, HashRefused DEF PromisedHash!Increment
<1>6. CASE /\ Ready(r) /\ ~there /\ hashTypeLength(Working) + 1 > hash_max_size
           /\ key' = Kept(Measured(key.val)) /\ Answer("HINCRBY", arg, "LEN_LIMITED", 0)
  <2> HIDE DEF arg, there, value
  <2>1. Cardinality(S) >= hash_max_size /\ Cardinality(S) # 0 /\ HoldsHash(key) /\ f \notin S
    BY <1>2, <1>6, HashesAssumption
  <2> DEFINE hash == key.val
             meas == Measured(hash)
  <2>2. HashOK(hash) /\ Map(hash) = HashOf(key) /\ FieldsOf(hash) = S /\ S # {}
    BY <2>1, HashEntryIs, StoredMapIs DEF HInv
  <2> HIDE DEF hash
  <2>3. HashOK(meas) /\ Map(meas) = HashOf(key) /\ FieldsOf(meas) # {}
    BY <2>2, HashMeasured
  <2> HIDE DEF meas
  <2>4. HashEntryOK(key') /\ HashOf(key') = HashOf(key)
    BY <1>6, <2>1, <2>3, HashKept DEF meas, hash
  <2> QED BY <1>3, <1>6, <2>1, <2>4, HashStep DEF PromisedHash!Increment, PromisedHash!Refuses
<1>7. CASE /\ Ready(r)
           /\ there => hashTypeGet(Working, f) \in HashIntegers
           /\ there \/ hashTypeLength(Working) + 1 <= hash_max_size
           /\ key' = Written(REDIS_HASH, new, r) /\ Answer("HINCRBY", arg, "OK", value)
  <2>1. value \in HashIntegers
    <3>1. incr \in Int /\ HashIntegers \subseteq Int
      BY HashesAssumption
    <3>2. (IF there THEN hashTypeGet(Working, f) ELSE 0) + incr \in Int
      <4> DEFINE x == hashTypeGet(Working, f)
      <4>1. there => x \in Int
        BY <1>7, <3>1
      <4> HIDE DEF there, x
      <4>2. (IF there THEN x ELSE 0) \in Int
        BY <4>1
      <4> QED BY <3>1, <4>2 DEF x
    <3> HIDE DEF there
    <3> QED BY <3>2, CutIs
  <2>2. value \in HashValues /\ Short(value)
    BY <2>1, HashesAssumption DEF Short
  <2> HIDE DEF value, there, arg
  <2>3. HashOK(new) /\ Map(new) = m /\ FieldsOf(new) # {}
    BY <1>2, <1>7, <2>2, OneFieldSet
  <2> HIDE DEF new
  <2>4. HashEntryOK(key') /\ HashOf(key') = m
    BY <1>2, <1>7, <2>3, HashWritten
  <2>5. IF PromisedHash!There(f) THEN StoredMap[f] \in HashIntegers
        ELSE PromisedHash!Size < hash_max_size
    BY <1>2, <1>3, <1>7, HashesAssumption
  <2>6. StoredMap' = PromisedHash!With(StoredMap, f, value)
    BY <1>3, <2>4, StoredMapIs
  <2>7. HInv' /\ PromisedHash!Answering("HINCRBY") /\ PromisedHash!Asked(arg)
        /\ PromisedHash!Answers("OK", value)
    BY <1>7, <2>4, HashStep
  <2> QED BY <1>4, <1>7, <2>5, <2>6, <2>7 DEF PromisedHash!Increment
<1> QED BY <1>1, <1>5, <1>6, <1>7 DEF Hincrby

\* HDEL: the key goes with its last field.
LEMMA HdelStep ==
    ASSUME HInv, NEW f \in Fields, NEW r \in Requests, Hdel(f, r)
    PROVE  HInv' /\ PromisedHash!Next
<1> DEFINE less == Measured(hashTypeDelete(key.val, f))
           S == DOMAIN StoredMap
           m == [g \in S \ {f} |-> StoredMap[g]]
<1> SUFFICES HInv' /\ PromisedHash!Answering("HDEL") /\ PromisedHash!Asked(f)
             /\ PromisedHash!Delete(f)
  BY DEF PromisedHash!Next
<1>1. CASE RefuseWrite("HDEL", f, REDIS_HASH, r)
  BY <1>1, HashRefusedWrite DEF PromisedHash!Delete
<1>2. ASSUME Readable(REDIS_HASH)
      PROVE  /\ HasType(REDIS_HASH) /\ HashOK(less) /\ Map(less) = m /\ FieldsOf(less) = S \ {f}
             /\ hashTypeExists(key.val, f) <=> f \in S
             /\ hashTypeLength(less) = 0 <=> S \ {f} = {}
             /\ ~PromisedHash!None
  <2> DEFINE hash == key.val
             gone == hashTypeDelete(hash, f)
             meas == Measured(gone)
             fields == FieldsOf(hash)
             o == Map(hash)
             s == StoredMap
  <2>1. /\ HasType(REDIS_HASH) /\ HashOK(hash) /\ o = s /\ fields = S
        /\ ~PromisedHash!None
    BY <1>2, HashReadable
  <2> HIDE DEF hash
  <2>2. hashTypeExists(hash, f) <=> f \in S
    BY <2>1, HashIs
  <2>3. HashOK(gone) /\ FieldsOf(gone) = fields \ {f} /\ Map(gone) = [g \in fields \ {f} |-> o[g]]
    BY <2>1, HashDelete
  <2>4. [g \in fields \ {f} |-> o[g]] = m
    <3>1. m = [g \in S \ {f} |-> s[g]]
      OBVIOUS
    <3> HIDE DEF S, s, fields, o, m
    <3> QED BY <2>1, <3>1
  <2> HIDE DEF gone, m
  <2>5. HashOK(meas) /\ FieldsOf(meas) = S \ {f} /\ Map(meas) = m
    BY <2>1, <2>3, <2>4, HashMeasured
  <2> HIDE DEF meas
  <2>6. hashTypeLength(meas) = 0 <=> S \ {f} = {}
    BY <2>5, HashIs, FS_EmptySet
  <2> QED BY <2>1, <2>2, <2>5, <2>6 DEF meas, gone, hash
<1> HIDE DEF less
<1>3. PromisedHash!There(f) <=> f \in S
  BY DEF PromisedHash!There
<1>4. Writable(REDIS_HASH, r) => Readable(REDIS_HASH)
  BY DEF Writable
<1>5. CASE /\ Writable(REDIS_HASH, r) /\ ~hashTypeExists(key.val, f)
           /\ Refuse("HDEL", f, "NOT_EXIST")
  BY <1>2, <1>3, <1>4, <1>5, HashRefused DEF PromisedHash!Delete
<1>6. CASE /\ Writable(REDIS_HASH, r) /\ hashTypeExists(key.val, f)
           /\ key' = IF hashTypeLength(less) = 0 THEN Absent ELSE Written(REDIS_HASH, less, r)
           /\ Answer("HDEL", f, "OK", 0)
  <2>1. HashEntryOK(key') /\ HashOf(key') = m
    <3>1. CASE hashTypeLength(less) = 0
      <4>1. key' = Absent /\ S \ {f} = {}
        BY <1>2, <1>4, <1>6, <3>1
      <4>2. HashOf(key') = <<>> /\ HashEntryOK(key')
        BY <4>1 DEF HashOf, HoldsHash, HashEntryOK
      <4>3. m = <<>>
        <5> DEFINE D == S \ {f}
        <5>1. D = {} /\ m = [g \in D |-> StoredMap[g]]
          BY <4>1
        <5> HIDE DEF D
        <5> QED BY <5>1
      <4> QED BY <4>2, <4>3
    <3>2. CASE hashTypeLength(less) # 0
      <4> HIDE DEF m
      <4> QED BY <1>2, <1>4, <1>6, <3>2, HashWritten
    <3> QED BY <3>1, <3>2
  <2>2. f \in S
    BY <1>2, <1>4, <1>6
  <2>3. StoredMap' = m
    BY <2>1, StoredMapIs
  <2>4. HInv' /\ PromisedHash!Answering("HDEL") /\ PromisedHash!Asked(f)
        /\ PromisedHash!Answers("OK", 0)
    BY <1>6, <2>1, HashStep
  <2> QED BY <1>3, <2>2, <2>3, <2>4 DEF PromisedHash!Delete
<1> QED BY <1>1, <1>5, <1>6 DEF Hdel, less

\* HGET.
LEMMA HgetStep ==
    ASSUME HInv, NEW f \in Fields, Hget(f)
    PROVE  HInv' /\ PromisedHash!Next
<1> SUFFICES HInv' /\ PromisedHash!Answering("HGET") /\ PromisedHash!Asked(f)
             /\ PromisedHash!Get(f)
  BY DEF PromisedHash!Next
<1>1. CASE RefuseRead("HGET", f, REDIS_HASH)
  BY <1>1, HashRefusedRead DEF PromisedHash!Get
<1>2. ASSUME Readable(REDIS_HASH)
      PROVE  /\ ~PromisedHash!None
             /\ hashTypeExists(key.val, f) <=> PromisedHash!There(f)
             /\ PromisedHash!There(f) => hashTypeGet(key.val, f) = StoredMap[f]
  BY <1>2, HashReadable, HashIs DEF PromisedHash!There
<1>3. CASE /\ Readable(REDIS_HASH) /\ ~hashTypeExists(key.val, f)
           /\ Refuse("HGET", f, "NOT_EXIST")
  BY <1>2, <1>3, HashRefused DEF PromisedHash!Get
<1>4. CASE /\ Readable(REDIS_HASH) /\ hashTypeExists(key.val, f)
           /\ Reply("HGET", f, "OK", hashTypeGet(key.val, f))
  BY <1>2, <1>4, HashSame DEF PromisedHash!Get
<1> QED BY <1>1, <1>3, <1>4 DEF Hget

\* HMGET: an empty place for each missing field.
LEMMA HmgetStep ==
    ASSUME HInv, NEW f \in Fields, NEW g \in Fields, Hmget(<<f, g>>)
    PROVE  HInv' /\ PromisedHash!Next
<1> DEFINE fs == <<f, g>>
           have(i) == IF hashTypeExists(key.val, fs[i])
                      THEN <<hashTypeGet(key.val, fs[i])>> ELSE <<>>
           want(i) == IF PromisedHash!There(fs[i]) THEN <<StoredMap[fs[i]]>> ELSE <<>>
<1> SUFFICES HInv' /\ PromisedHash!Answering("HMGET") /\ PromisedHash!Asked(fs)
             /\ PromisedHash!GetMany(fs)
  BY DEF PromisedHash!Next
<1> HIDE DEF fs
<1>1. CASE RefuseRead("HMGET", fs, REDIS_HASH)
  BY <1>1, HashRefusedRead DEF PromisedHash!GetMany
<1>2. CASE Readable(REDIS_HASH) /\ Reply("HMGET", fs, "OK", [i \in DOMAIN fs |-> have(i)])
  <2>1. /\ ~PromisedHash!None
        /\ \A h : hashTypeExists(key.val, h) <=> PromisedHash!There(h)
        /\ \A h : PromisedHash!There(h) => hashTypeGet(key.val, h) = StoredMap[h]
    BY <1>2, HashReadable, HashIs DEF PromisedHash!There
  <2>2. \A i \in DOMAIN fs : have(i) = want(i)
    BY <2>1
  <2>3. [i \in DOMAIN fs |-> have(i)] = [i \in DOMAIN fs |-> want(i)]
    <3> HIDE DEF have, want
    <3> QED BY <2>2
  <2> DEFINE val == [i \in DOMAIN fs |-> have(i)]
  <2>4. Reply("HMGET", fs, "OK", val)
    BY <1>2
  <2> HIDE DEF val
  <2>5. HInv' /\ PromisedHash!Answering("HMGET") /\ PromisedHash!Asked(fs)
        /\ PromisedHash!Says("OK", val)
    BY <2>4, HashSame
  <2>6. PromisedHash!Says("OK", [i \in DOMAIN fs |-> want(i)])
    <3> HIDE DEF want, have
    <3> QED BY <2>3, <2>5 DEF val
  <2> QED BY <2>1, <2>5, <2>6 DEF PromisedHash!GetMany
<1> QED BY <1>1, <1>2 DEF Hmget, fs

\* HEXISTS.
LEMMA HexistsStep ==
    ASSUME HInv, NEW f \in Fields, Hexists(f)
    PROVE  HInv' /\ PromisedHash!Next
<1> SUFFICES HInv' /\ PromisedHash!Answering("HEXISTS") /\ PromisedHash!Asked(f)
             /\ PromisedHash!Exists(f)
  BY DEF PromisedHash!Next
<1>1. CASE RefuseRead("HEXISTS", f, REDIS_HASH)
  BY <1>1, HashRefusedRead DEF PromisedHash!Exists
<1>2. CASE /\ Readable(REDIS_HASH)
           /\ Reply("HEXISTS", f, IF hashTypeExists(key.val, f) THEN "OK" ELSE "NOT_EXIST", 0)
  <2>1. /\ ~PromisedHash!None
        /\ hashTypeExists(key.val, f) <=> PromisedHash!There(f)
    BY <1>2, HashReadable, HashIs DEF PromisedHash!There
  <2> DEFINE rc == IF hashTypeExists(key.val, f) THEN "OK" ELSE "NOT_EXIST"
  <2>2. Refuse("HEXISTS", f, rc)
    BY <1>2 DEF Refuse
  <2>3. rc = IF PromisedHash!There(f) THEN "OK" ELSE "NOT_EXIST"
    BY <2>1
  <2> HIDE DEF rc
  <2>4. HInv' /\ PromisedHash!Answering("HEXISTS") /\ PromisedHash!Asked(f)
        /\ PromisedHash!Refuses(rc)
    BY <2>2, HashRefused
  <2> QED BY <2>1, <2>3, <2>4 DEF PromisedHash!Exists
<1> QED BY <1>1, <1>2 DEF Hexists

\* HLEN: the count of a zipmap that has started again is put right.
LEMMA HlenStep ==
    ASSUME HInv, Hlen
    PROVE  HInv' /\ PromisedHash!Next
<1> SUFFICES HInv' /\ PromisedHash!Answering("HLEN") /\ PromisedHash!Length
  BY DEF PromisedHash!Next
<1>1. CASE RefuseRead("HLEN", <<>>, REDIS_HASH)
  BY <1>1, HashRefusedRead DEF PromisedHash!Length
<1>2. CASE /\ Readable(REDIS_HASH) /\ key' = Kept(Measured(key.val))
           /\ Answer("HLEN", <<>>, "OK", hashTypeLength(key.val))
  <2> DEFINE hash == key.val
             meas == Measured(hash)
  <2>1. /\ HoldsHash(key) /\ HashOK(hash) /\ Map(hash) = StoredMap /\ ~PromisedHash!None
        /\ FieldsOf(hash) = DOMAIN StoredMap /\ DOMAIN StoredMap # {}
    BY <1>2, HashReadable
  <2>2. key' = Kept(meas) /\ Answer("HLEN", <<>>, "OK", hashTypeLength(hash))
    BY <1>2
  <2> HIDE DEF hash
  <2>3. hashTypeLength(hash) = PromisedHash!Size
    BY <2>1, HashIs, HashCount DEF PromisedHash!Size
  <2>4. HashOK(meas) /\ Map(meas) = StoredMap /\ FieldsOf(meas) # {}
    BY <2>1, HashMeasured
  <2> HIDE DEF meas
  <2>5. HashEntryOK(key') /\ HashOf(key') = HashOf(key)
    BY <2>1, <2>2, <2>4, HashKept, StoredMapIs
  <2> QED BY <2>1, <2>2, <2>3, <2>5, HashStep DEF PromisedHash!Length
<1> QED BY <1>1, <1>2 DEF Hlen

\* The fields in the order HGETALL walks them: each once.
LEMMA FieldOrder ==
    ASSUME NEW hash, HashOK(hash)
    PROVE  LET order == IF IsZipmap(hash)
                        THEN [i \in DOMAIN hash.ptr.entries |-> hash.ptr.entries[i].field]
                        ELSE SetToSeq(DOMAIN hash.ptr)
           IN  /\ order \in Seq(FieldsOf(hash)) /\ ToSet(order) = FieldsOf(hash)
               /\ Len(order) = Cardinality(FieldsOf(hash))
<1>1. CASE ~IsZipmap(hash)
  BY <1>1, HashIs, SomeOrder
<1>2. CASE IsZipmap(hash)
  <2> DEFINE zm == hash.ptr
             s == zm.entries
             n == Len(s)
             order == [i \in DOMAIN s |-> s[i].field]
             S == ZipFields(zm)
  <2>1. ZipmapOK(zm) /\ FieldsOf(hash) = S
    BY <1>2, HashIs
  <2>2. n \in Nat /\ DOMAIN s = 1 .. n /\ Cardinality(S) = n
    BY <2>1, ZipmapParts, FieldsCount
  <2>3. S = {s[i].field : i \in DOMAIN s}
    BY DEF ZipFields
  <2> HIDE DEF s, n, S, zm
  <2>4. order \in [1 .. n -> S] /\ S = {order[i] : i \in 1 .. n}
    BY <2>2, <2>3
  <2>5. DOMAIN order = 1 .. n
    BY <2>2
  <2>6. order = IF IsZipmap(hash)
                THEN [i \in DOMAIN hash.ptr.entries |-> hash.ptr.entries[i].field]
                ELSE SetToSeq(DOMAIN hash.ptr)
    BY <1>2 DEF s, zm
  <2> HIDE DEF order
  <2>7. order \in Seq(S) /\ Len(order) = n
    BY <2>2, <2>4
  <2>8. ToSet(order) = S
    BY <2>4, <2>5 DEF ToSet
  <2> QED BY <2>1, <2>2, <2>6, <2>7, <2>8
<1> QED BY <1>1, <1>2

\* HGETALL.
LEMMA HgetallStep ==
    ASSUME HInv, genericHgetallCommand
    PROVE  HInv' /\ PromisedHash!Next
<1> DEFINE hash == key.val
           order == IF IsZipmap(hash)
                    THEN [i \in DOMAIN hash.ptr.entries |-> hash.ptr.entries[i].field]
                    ELSE SetToSeq(DOMAIN hash.ptr)
           val == [i \in DOMAIN order |-> <<order[i], hashTypeGet(hash, order[i])>>]
<1> SUFFICES HInv' /\ PromisedHash!Answering("HGETALL") /\ PromisedHash!GetAll
  BY DEF PromisedHash!Next
<1>1. CASE RefuseRead("HGETALL", <<>>, REDIS_HASH)
  BY <1>1, HashRefusedRead DEF PromisedHash!GetAll
<1>2. CASE Readable(REDIS_HASH) /\ Reply("HGETALL", <<>>, "OK", val)
  <2> DEFINE o == StoredMap
             S == DOMAIN o
             n == Cardinality(S)
             P == {<<f, o[f]>> : f \in S}
  <2>1. HashOK(hash) /\ Map(hash) = o /\ FieldsOf(hash) = S /\ ~PromisedHash!None
    BY <1>2, HashReadable
  <2>2. order \in Seq(S) /\ ToSet(order) = S /\ Len(order) = n
    BY <2>1, FieldOrder
  <2>3. Reply("HGETALL", <<>>, "OK", val)
    BY <1>2
  <2>4. n \in Nat /\ \A f \in S : hashTypeGet(hash, f) = o[f]
    BY <2>1, HashIs, FS_CardinalityType
  <2> HIDE DEF order, hash, o, S, n
  <2>5. DOMAIN order = 1 .. n /\ (\A i \in 1 .. n : order[i] \in S)
        /\ S = {order[i] : i \in 1 .. n}
    BY <2>2, <2>4 DEF ToSet
  <2>6. val = [i \in 1 .. n |-> <<order[i], o[order[i]]>>]
    BY <2>4, <2>5
  <2> HIDE DEF val
  <2>7. val \in [1 .. n -> P] /\ DOMAIN val = 1 .. n /\ P = {val[i] : i \in 1 .. n}
    BY <2>5, <2>6
  <2> HIDE DEF P
  <2>8. Len(val) = n
    BY <2>4, <2>7
  <2>9. PromisedHash!ToSet(val) = P
    BY <2>7 DEF PromisedHash!ToSet
  <2>10. HInv' /\ PromisedHash!Answering("HGETALL") /\ PromisedHash!Says("OK", val)
    BY <2>3, HashSame
  <2>11. reply'.val = val /\ reply'.rc = "OK" /\ StoredMap' = StoredMap
    BY <2>10 DEF PromisedHash!Says, PromisedHash!Answers
  <2>12. PromisedHash!Size = n
    BY HashCount DEF PromisedHash!Size, n, S, o
  <2>13. PromisedHash!ToSet(reply'.val) = {<<f, StoredMap[f]>> : f \in DOMAIN StoredMap}
    BY <2>9, <2>11 DEF P, S, o
  <2> QED BY <2>1, <2>8, <2>10, <2>11, <2>12, <2>13 DEF PromisedHash!GetAll
<1> QED BY <1>1, <1>2 DEF genericHgetallCommand

\* Every command of hashes keeps the invariant and answers as the contract says.
LEMMA HashCommandStep ==
    ASSUME HInv, HashCommand
    PROVE  HInv' /\ PromisedHash!Next
<1>1. ASSUME NEW r \in Requests, NEW f \in Fields, NEW v \in HashValues,
             Hset(f, v, r) \/ Hsetnx(f, v, r)
      PROVE  HInv' /\ PromisedHash!Next
  BY <1>1, HsetStep, HsetnxStep
<1>2. ASSUME NEW r \in Requests, NEW pairs \in SetArgs, Hmset(pairs, r)
      PROVE  HInv' /\ PromisedHash!Next
  BY <1>2, HmsetStep
<1>3. ASSUME NEW r \in Requests, NEW f \in Fields, NEW incr \in Increments, Hincrby(f, incr, r)
      PROVE  HInv' /\ PromisedHash!Next
  BY <1>3, HincrbyStep
<1>4. ASSUME NEW r \in Requests, NEW f \in Fields, Hdel(f, r)
      PROVE  HInv' /\ PromisedHash!Next
  BY <1>4, HdelStep
<1>5. CASE HmsetMalformed
  <2>1. HInv' /\ PromisedHash!Answering("HMSET") /\ PromisedHash!Asked(<<>>)
        /\ PromisedHash!Refuses("WRONG_NUMBER_ARGUMENTS")
    BY <1>5, HashRefused DEF HmsetMalformed
  <2> QED BY <2>1 DEF PromisedHash!Next
<1>6. CASE HincrbyMalformed
  <2>1. HInv' /\ PromisedHash!Answering("HINCRBY") /\ PromisedHash!Asked(<<>>)
        /\ PromisedHash!Refuses("IS_NOT_INTEGER")
    BY <1>6, HashRefused DEF HincrbyMalformed
  <2> QED BY <2>1 DEF PromisedHash!Next
<1>7. ASSUME NEW f \in Fields, Hget(f) \/ Hexists(f) PROVE HInv' /\ PromisedHash!Next
  BY <1>7, HgetStep, HexistsStep
<1>8. ASSUME NEW f \in Fields, NEW g \in Fields, Hmget(<<f, g>>)
      PROVE  HInv' /\ PromisedHash!Next
  BY <1>8, HmgetStep
<1>9. CASE Hlen
  BY <1>9, HlenStep
<1>10. CASE genericHgetallCommand
  BY <1>10, HgetallStep
<1> QED BY <1>1, <1>2, <1>3, <1>4, <1>5, <1>6, <1>7, <1>8, <1>9, <1>10 DEF HashCommand

-----------------------------------------------------------------------------
(* The other steps.                                                        *)

\* A key that holds something else, if anything.
LEMMA NoHash ==
    ASSUME NEW e, NEW type, type # REDIS_HASH, HoldsOnly(e, type)
    PROVE  HashEntryOK(e) /\ ~HoldsHash(e) /\ HashOf(e) = <<>>
BY DEF HoldsOnly, HashEntryOK, HoldsHash, HashOf

\* The commands of lists and of sets.
LEMMA HashOthersStep ==
    ASSUME HInv, Keeps(REDIS_LIST, ListCommands) \/ SetsTouched
    PROVE  HInv' /\ PromisedHash!Next
<1>1. REDIS_LIST # REDIS_HASH /\ REDIS_SET # REDIS_HASH
  BY TypesAssumption
<1>2. ASSUME NEW type \in {REDIS_LIST, REDIS_SET}, HasType(type)
      PROVE  HashOf(key) = <<>>
  BY <1>1, <1>2 DEF HasType, HashOf, HoldsHash
<1>3. /\ reply'.cmd \notin HashCommands \cup {"NONE"}
      /\ HInv'
      /\ \/ HashOf(key') = HashOf(key)
         \/ reply'.cmd = "SINTERSTORE" /\ HashOf(key') = <<>>
  <2>1. CASE Keeps(REDIS_LIST, ListCommands)
    <3>1. reply'.cmd \notin HashCommands \cup {"NONE"}
      BY <2>1 DEF Keeps, ListCommands, HashCommands
    <3>2. key' = key \/ (HasType(REDIS_LIST) /\ HoldsOnly(key', REDIS_LIST))
      BY <2>1 DEF Keeps
    <3> QED BY <1>1, <1>2, <3>1, <3>2, NoHash DEF HInv
  <2>2. CASE SetsTouched
    <3>1. reply'.cmd \notin HashCommands \cup {"NONE"}
      BY <2>2 DEF SetsTouched, SetCommands, HashCommands
    <3>2. \/ key' = key
          \/ /\ HasType(REDIS_SET) \/ reply'.cmd = "SINTERSTORE"
             /\ HoldsOnly(key', REDIS_SET)
      BY <2>2 DEF SetsTouched
    <3> QED BY <1>1, <1>2, <3>1, <3>2, NoHash DEF HInv
  <2> QED BY <2>1, <2>2
<1>4. \/ StoredMap' = StoredMap
      \/ reply'.cmd = "SINTERSTORE" /\ DOMAIN StoredMap' = {}
  BY <1>3, StoredMapIs
<1> QED BY <1>3, <1>4 DEF PromisedHash!Next

\* Keys that go, and keys another type's command stores.
LEMMA HashGoingStep ==
    ASSUME HInv, Goes \/ StoredOtherwise \/ OtherGoes \/ OtherStored
    PROVE  HInv' /\ PromisedHash!Next
<1> DEFINE string == [type |-> REDIS_STRING, val |-> 0, ver |-> 0, due |-> NoTTL]
<1>1. HoldsOnly(Absent, REDIS_STRING) /\ HoldsOnly(string, REDIS_STRING)
  BY DEF HoldsOnly
<1>2. REDIS_STRING # REDIS_HASH
  BY TypesAssumption
<1> HIDE DEF string
<1>3. reply' = NoReply /\ key' \in {key, Absent, string}
  BY DEF Goes, StoredOtherwise, OtherGoes, OtherStored, string
<1>4. HInv' /\ (HashOf(key') = HashOf(key) \/ HashOf(key') = <<>>)
  BY <1>1, <1>2, <1>3, NoHash DEF HInv
<1>5. PromisedHash!Answering("NONE")
  BY <1>3 DEF NoReply, PromisedHash!Answering
<1>6. PromisedHash!Elsewhere
  BY <1>4, StoredMapIs DEF PromisedHash!Elsewhere
<1> QED BY <1>4, <1>5, <1>6 DEF PromisedHash!Next

\* The first state.
LEMMA HashInit == ASSUME Init PROVE HInv /\ PromisedHash!Init
<1>1. key = Absent /\ reply.cmd = "NONE"
  BY DEF Init, TypedInit, NoReply
<1>2. HInv /\ ~HoldsHash(key)
  BY <1>1 DEF HInv, HashEntryOK, HoldsHash
<1> QED BY <1>1, <1>2, NoneIs DEF PromisedHash!Init

\* Every step keeps the invariant and is a step of the contract, or none.
LEMMA HashStepHolds ==
    ASSUME IInv, HInv, [Next]_typedVars
    PROVE  HInv' /\ [PromisedHash!Next]_(PromisedHash!vars)
<1>1. CASE ListCommand
  BY <1>1, ListKeeps, HashOthersStep DEF IInv
<1>2. CASE HashCommand
  BY <1>2, HashCommandStep
<1>3. CASE SetCommand
  BY <1>3, SetTouches, HashOthersStep
<1>4. CASE Goes \/ StoredOtherwise \/ OtherGoes \/ OtherStored
  BY <1>4, HashGoingStep
<1>5. CASE UNCHANGED typedVars
  <2>1. key' = key /\ reply' = reply
    BY <1>5 DEF typedVars
  <2> QED BY <2>1, StoredMapIs DEF HInv, PromisedHash!vars
<1> QED BY <1>1, <1>2, <1>3, <1>4, <1>5 DEF Next

\* Whatever the commands of the three types do, a key that holds a hash holds
\* a well-formed one with fields.
THEOREM HashesStayOK == Spec => []HInv
<1>1. Init => HInv
  BY HashInit
<1>2. IInv /\ HInv /\ [Next]_typedVars => HInv'
  BY HashStepHolds
<1> QED BY <1>1, <1>2, SetsStayOK, PTL DEF Spec

\* A stored hash is what the invariant says of its entry.
LEMMA StoredHashIs ==
    ASSUME HInv, IsHash
    PROVE  HashOK(key.val) /\ FieldsOf(key.val) # {}
BY DEF HInv, HashEntryOK, IsHash

\* The walk over the entries of a stored zipmap ends at the end of its block,
\* however zipmapSet (zipmap.c:207-273) and zipmapDelete grew, shrank and moved
\* them.
THEOREM ZipmapWalksEnd == Spec => []WalksEnd
<1>1. HInv => WalksEnd
  BY StoredHashIs, HashIs DEF WalksEnd, IsStoredZipmap, ZipmapOK
<1> QED BY <1>1, HashesStayOK, PTL

\* The byte that counts the entries of a stored zipmap is right while it
\* counts, through its limit and back.
THEOREM ZipmapFieldsCounted == Spec => []FieldsCounted
<1>1. HInv => FieldsCounted
  BY StoredHashIs, HashIs DEF FieldsCounted, IsStoredZipmap, ZipmapOK
<1> QED BY <1>1, HashesStayOK, PTL

\* A zipmap has few fields and short values, and no hash is stored empty,
\* whichever command of t_hash.c made it grow or shrink.
THEOREM HashEncodingsFit == Spec => []HashEncodingFits
<1>1. ASSUME HInv, IsStoredZipmap
      PROVE  /\ Cardinality(FieldsOf(key.val)) <= hash_max_zipmap_entries
             /\ \A f \in FieldsOf(key.val) : StringSize[Map(key.val)[f]] <= hash_max_zipmap_value
  <2> DEFINE hash == key.val
  <2>1. HashOK(hash) /\ IsZipmap(hash)
    BY <1>1, StoredHashIs DEF IsStoredZipmap
  <2> HIDE DEF hash
  <2>2. /\ ZipmapOK(hash.ptr) /\ Len(hash.ptr.entries) <= hash_max_zipmap_entries
        /\ \A f \in ZipFields(hash.ptr) : Short(ZipMap(hash.ptr)[f])
        /\ FieldsOf(hash) = ZipFields(hash.ptr) /\ Map(hash) = ZipMap(hash.ptr)
    BY <2>1, HashIs
  <2>3. Cardinality(FieldsOf(hash)) = Len(hash.ptr.entries)
    BY <2>2, FieldsCount
  <2>4. \A f \in FieldsOf(hash) : StringSize[Map(hash)[f]] <= hash_max_zipmap_value
    BY <2>2 DEF Short
  <2> QED BY <2>2, <2>3, <2>4 DEF hash
<1>2. HInv => HashEncodingFits
  BY <1>1, StoredHashIs DEF HashEncodingFits
<1> QED BY <1>2, HashesStayOK, PTL

\* Hashes behind both of their encodings implement FieldMap: every command of
\* t_hash.c answers and changes its fields as a plain map would, also the one
\* in whose middle a zipmap becomes a dict.
THEOREM HashesImplementFieldMap == Spec => ImplementsFieldMap
<1>1. Init => PromisedHash!Init
  BY HashInit
<1>2. IInv /\ HInv /\ [Next]_typedVars => [PromisedHash!Next]_(PromisedHash!vars)
  BY HashStepHolds
<1> QED BY <1>1, <1>2, SetsStayOK, HashesStayOK, PTL
        DEF Spec, ImplementsFieldMap, PromisedHash!Spec

=============================================================================
