-------------------------- MODULE Ziplists_proofs ---------------------------
(***************************************************************************)
(* What ziplists, and lists of either encoding, are after the functions of *)
(* t_list.c, for every set of values, all sizes of strings, every limit and*)
(* every argument of the commands.                                         *)
(*                                                                         *)
(* The first part is about ziplists: every entry has the length of the one *)
(* before it in a field that is large enough, and the header has the tail, *)
(* the size and the length that these add up to (ZiplistOK).  While an     *)
(* insert or a delete is under way one entry may be wrong about the one    *)
(* before it (WellButAt); the cascade moves that place towards the tail    *)
(* until no field has to grow, and corrects the header on its way.         *)
(*                                                                         *)
(* The second part says the same of lists of either encoding (ListOK) and  *)
(* of the loops of pushes, pops and LREM, each of whose turns keeps what   *)
(* it is about: a list, and a position in it or none.  It also says which  *)
(* values each of them leaves and answers, as sequences: what the loop of  *)
(* LREM has taken away is told by the ranks of the positions that stay.    *)
(***************************************************************************)
EXTENDS Lists, Recursion_proofs, SequenceTheorems

-----------------------------------------------------------------------------
(* Ziplists: sizes and offsets.                                            *)

\* Bytes before the entry at position p.
Off(s, p) == ZIPLIST_HEADER_SIZE + SumFunctionOnSet(EntryLengths(s), 1 .. p - 1)

LEMMA OffsetIs ==
    ASSUME NEW zl, NEW p
    PROVE  OffsetOf(zl, p) = Off(zl.entries, p)
BY DEF OffsetOf, Off

\* What is assumed of the limits and the values of lists.
LEMMA ListConstants ==
    /\ list_max_size \in Nat \ {0} /\ list_max_ziplist_entries \in Nat
    /\ list_max_ziplist_value \in Nat
    /\ \A v \in ListValues : PayloadSize[v] \in Nat
<1>1. list_max_size \in Nat \ {0} /\ list_max_ziplist_entries \in Nat
  BY ListsAssumption
<1>2. list_max_ziplist_value \in Nat
  BY ListsAssumption
<1>3. \A v \in ListValues : PayloadSize[v] \in Nat
  BY ListsAssumption
<1> QED BY <1>1, <1>2, <1>3

\* An entry takes at least two bytes.
LEMMA EntrySize ==
    ASSUME NEW e \in ListEntries
    PROVE  /\ zipRawEntryLength(e) \in Nat /\ zipRawEntryLength(e) >= 2
           /\ e = [prevsize |-> e.prevsize, prevlen |-> e.prevlen, val |-> e.val]
           /\ e.prevsize \in {1, 5} /\ e.prevlen \in Nat /\ e.val \in ListValues
<1>1. /\ e = [prevsize |-> e.prevsize, prevlen |-> e.prevlen, val |-> e.val]
      /\ e.prevsize \in {1, 5} /\ e.prevlen \in Nat /\ e.val \in ListValues
  BY DEF ListEntries
<1>2. PayloadSize[e.val] \in Nat
  BY <1>1, ListConstants
<1>3. zipEncodeLength(e.val) \in {1, 2, 5}
  BY DEF zipEncodeLength
<1> QED BY <1>1, <1>2, <1>3 DEF zipRawEntryLength

\* The length of an entry without its prevlen field.
LEMMA EntrySizes ==
    ASSUME NEW v \in ListValues, NEW a \in {1, 5}, NEW b \in {1, 5},
           NEW m \in Nat, NEW n \in Nat
    PROVE  LET d == [prevsize |-> a, prevlen |-> m, val |-> v]
               e == [prevsize |-> b, prevlen |-> n, val |-> v]
           IN  zipRawEntryLength(e) = zipRawEntryLength(d) + (b - a)
<1>1. PayloadSize[v] \in Nat
  BY ListConstants
<1>2. zipEncodeLength(v) \in {1, 2, 5}
  BY DEF zipEncodeLength
<1> QED BY <1>1, <1>2 DEF zipRawEntryLength

\* The first entry is behind the header, each other one behind the one before.
LEMMA OffStep ==
    ASSUME NEW s \in Seq(ListEntries)
    PROVE  /\ Off(s, 1) = ZIPLIST_HEADER_SIZE
           /\ \A p \in 1 .. Len(s) : Off(s, p + 1) = Off(s, p) + zipRawEntryLength(s[p])
           /\ \A p \in 1 .. Len(s) + 1 : Off(s, p) \in Nat
<1> DEFINE f == EntryLengths(s)
           n == Len(s)
<1>1. n \in Nat /\ \A p \in 1 .. n : f[p] = zipRawEntryLength(s[p]) /\ f[p] \in Nat
  <2>1. \A p \in 1 .. n : s[p] \in ListEntries
    OBVIOUS
  <2>2. \A p \in 1 .. n : f[p] = zipRawEntryLength(s[p])
    BY DEF EntryLengths
  <2> QED BY <2>1, <2>2, EntrySize
<1> HIDE DEF f, n
<1>2. Off(s, 1) = ZIPLIST_HEADER_SIZE
  <2>1. 1 .. 1 - 1 = {}
    OBVIOUS
  <2> QED BY <2>1, SumEmpty DEF Off, ZIPLIST_HEADER_SIZE
<1>3. ASSUME NEW p \in 1 .. n + 1
      PROVE  SumFunctionOnSet(f, 1 .. p - 1) \in Nat
  <2>1. IsFiniteSet(1 .. p - 1) /\ \A i \in 1 .. p - 1 : f[i] \in Nat
    BY <1>1, FS_Interval
  <2> QED BY <2>1, SumNat
<1>4. \A p \in 1 .. n + 1 : Off(s, p) \in Nat
  BY <1>3 DEF Off, ZIPLIST_HEADER_SIZE, f
<1>5. ASSUME NEW p \in 1 .. n
      PROVE  Off(s, p + 1) = Off(s, p) + zipRawEntryLength(s[p])
  <2>1. p - 1 \in Nat /\ p - 1 + 1 = p /\ p + 1 - 1 = p /\ p \in 1 .. n + 1
    BY <1>1
  <2>2. \A i \in 1 .. p - 1 + 1 : f[i] \in Int
    BY <1>1, <2>1
  <2>3. SumFunctionOnSet(f, 1 .. p) = SumFunctionOnSet(f, 1 .. p - 1) + f[p]
    BY <2>1, <2>2, SumUpTo
  <2>4. /\ Off(s, p + 1) = ZIPLIST_HEADER_SIZE + SumFunctionOnSet(f, 1 .. p)
        /\ Off(s, p) = ZIPLIST_HEADER_SIZE + SumFunctionOnSet(f, 1 .. p - 1)
    BY <2>1 DEF Off, f
  <2>5. f[p] = zipRawEntryLength(s[p]) /\ f[p] \in Nat
    BY <1>1
  <2>6. SumFunctionOnSet(f, 1 .. p - 1) \in Nat
    BY <1>3, <2>1
  <2> QED BY ONLY <2>3, <2>4, <2>5, <2>6 DEF ZIPLIST_HEADER_SIZE
<1> QED BY <1>2, <1>4, <1>5 DEF n

\* Offsets ascend.
LEMMA OffAscends ==
    ASSUME NEW s \in Seq(ListEntries), NEW p \in 1 .. Len(s) + 1, NEW q \in 1 .. Len(s) + 1
    PROVE  /\ p < q => Off(s, p) + 2 <= Off(s, q)
           /\ Off(s, p) = Off(s, q) => p = q
<1> DEFINE n == Len(s)
           D == 0 .. n
           B == {k \in D : \A i \in 1 .. k : Off(s, i) + 2 <= Off(s, k + 1)}
<1>1. n \in Nat
  OBVIOUS
<1>2. /\ \A i \in 1 .. n : Off(s, i + 1) = Off(s, i) + zipRawEntryLength(s[i])
      /\ \A i \in 1 .. n + 1 : Off(s, i) \in Nat
      /\ \A i \in 1 .. n : zipRawEntryLength(s[i]) \in Nat /\ zipRawEntryLength(s[i]) >= 2
  <2>1. \A i \in 1 .. n : s[i] \in ListEntries
    OBVIOUS
  <2> QED BY <2>1, OffStep, EntrySize
<1> HIDE DEF n
<1>3. \A k \in D : k \in B
  <2>1. D \in SUBSET Nat /\ \A k \in D \ {0} : k - 1 \in D
    BY <1>1
  <2>2. 0 \in B
    BY <1>1
  <2>3. ASSUME NEW k \in D \ {0}, k - 1 \in B PROVE k \in B
    <3>1. k \in 1 .. n /\ k - 1 + 1 = k
      BY <1>1
    <3>2. \A i \in 1 .. k - 1 : Off(s, i) + 2 <= Off(s, k)
      BY <2>3, <3>1
    <3>3. Off(s, k + 1) = Off(s, k) + zipRawEntryLength(s[k]) /\ Off(s, k) \in Nat
          /\ zipRawEntryLength(s[k]) \in Nat /\ zipRawEntryLength(s[k]) >= 2
      BY <1>1, <1>2, <3>1
    <3>4. ASSUME NEW i \in 1 .. k PROVE Off(s, i) + 2 <= Off(s, k + 1)
      <4>1. Off(s, i) \in Nat
        BY <1>1, <1>2, <3>1
      <4>2. i = k \/ i \in 1 .. k - 1
        BY <3>1
      <4> QED BY <3>2, <3>3, <4>1, <4>2
    <3> QED BY <3>4
  <2> HIDE DEF B, D
  <2> QED BY <2>1, <2>2, <2>3, Upwards
<1>4. \A i, j \in 1 .. n + 1 : i < j => Off(s, i) + 2 <= Off(s, j)
  <2> TAKE i \in 1 .. n + 1, j \in 1 .. n + 1
  <2> HAVE i < j
  <2>1. j - 1 \in D /\ i \in 1 .. j - 1 /\ j - 1 + 1 = j
    BY <1>1
  <2>2. j - 1 \in B
    <3> HIDE DEF B
    <3> QED BY <1>3, <2>1
  <2> QED BY <2>1, <2>2
<1>5. p \in 1 .. n + 1 /\ q \in 1 .. n + 1 /\ Off(s, p) \in Nat /\ Off(s, q) \in Nat
  BY <1>2 DEF n
<1>6. (p < q => Off(s, p) + 2 <= Off(s, q)) /\ (q < p => Off(s, q) + 2 <= Off(s, p))
  BY <1>4, <1>5
<1> HIDE DEF B, D
<1> QED BY <1>1, <1>5, <1>6

\* Offsets depend on the sizes before them.
LEMMA OffAgrees ==
    ASSUME NEW s \in Seq(ListEntries), NEW t \in Seq(ListEntries), NEW n \in Nat,
           n <= Len(s), n <= Len(t),
           \A i \in 1 .. n : zipRawEntryLength(s[i]) = zipRawEntryLength(t[i])
    PROVE  \A p \in 1 .. n + 1 : Off(s, p) = Off(t, p)
<1> DEFINE D == 0 .. n
           B == {k \in D : Off(s, k + 1) = Off(t, k + 1)}
<1>1. \A k \in D : k \in B
  <2>1. D \in SUBSET Nat /\ \A k \in D \ {0} : k - 1 \in D
    OBVIOUS
  <2>2. 0 \in B
    BY OffStep
  <2>3. ASSUME NEW k \in D \ {0}, k - 1 \in B PROVE k \in B
    <3>1. k \in 1 .. n /\ k \in 1 .. Len(s) /\ k \in 1 .. Len(t) /\ k - 1 + 1 = k
      OBVIOUS
    <3>2. Off(s, k + 1) = Off(s, k) + zipRawEntryLength(s[k])
          /\ Off(t, k + 1) = Off(t, k) + zipRawEntryLength(t[k])
      BY <3>1, OffStep
    <3>3. Off(s, k) = Off(t, k)
      BY <2>3, <3>1
    <3> QED BY <3>1, <3>2, <3>3
  <2> HIDE DEF B, D
  <2> QED BY <2>1, <2>2, <2>3, Upwards
<1> TAKE p \in 1 .. n + 1
<1>2. p - 1 \in D /\ p - 1 + 1 = p
  OBVIOUS
<1>3. p - 1 \in B
  <2> HIDE DEF B
  <2> QED BY <1>1, <1>2
<1> QED BY <1>2, <1>3

\* The bytes of a part depend on the sizes in it.
Part(s, a, n) == Off(s, a + n + 1) - Off(s, a + 1)
SameSizes(s, a, t, b, n) ==
    \A i \in 1 .. n : zipRawEntryLength(s[a + i]) = zipRawEntryLength(t[b + i])

LEMMA OffBehind ==
    ASSUME NEW s \in Seq(ListEntries), NEW t \in Seq(ListEntries), NEW n \in Nat,
           NEW a \in Nat, a + n <= Len(s), NEW b \in Nat, b + n <= Len(t),
           SameSizes(s, a, t, b, n)
    PROVE  Part(s, a, n) = Part(t, b, n)
<1> \A i \in 1 .. n : zipRawEntryLength(s[a + i]) = zipRawEntryLength(t[b + i])
  BY DEF SameSizes
<1> DEFINE D == 0 .. n
           Equals(k) == Off(s, a + k + 1) - Off(s, a + 1) = Off(t, b + k + 1) - Off(t, b + 1)
           B == {k \in D : Equals(k)}
<1>1. /\ Off(s, a + 1) \in Nat /\ Off(t, b + 1) \in Nat
      /\ \A k \in D : Off(s, a + k + 1) \in Nat /\ Off(t, b + k + 1) \in Nat
      /\ \A k \in 1 .. n :
            /\ Off(s, a + k + 1) = Off(s, a + k) + zipRawEntryLength(s[a + k])
            /\ Off(t, b + k + 1) = Off(t, b + k) + zipRawEntryLength(t[b + k])
            /\ zipRawEntryLength(s[a + k]) \in Nat /\ zipRawEntryLength(t[b + k]) \in Nat
            /\ Off(s, a + k) \in Nat /\ Off(t, b + k) \in Nat
  <2>1. Len(s) \in Nat /\ Len(t) \in Nat
    OBVIOUS
  <2>2. /\ a + 1 \in 1 .. Len(s) + 1 /\ b + 1 \in 1 .. Len(t) + 1
        /\ \A k \in D : a + k + 1 \in 1 .. Len(s) + 1 /\ b + k + 1 \in 1 .. Len(t) + 1
        /\ \A k \in 1 .. n : a + k \in 1 .. Len(s) /\ b + k \in 1 .. Len(t)
    BY <2>1
  <2>3. \A k \in 1 .. n : s[a + k] \in ListEntries /\ t[b + k] \in ListEntries
    BY <2>2
  <2> HIDE DEF D
  <2>4. /\ \A p \in 1 .. Len(s) + 1 : Off(s, p) \in Nat
        /\ \A p \in 1 .. Len(t) + 1 : Off(t, p) \in Nat
    BY OffStep
  <2>5. /\ \A p \in 1 .. Len(s) : Off(s, p + 1) = Off(s, p) + zipRawEntryLength(s[p])
        /\ \A p \in 1 .. Len(t) : Off(t, p + 1) = Off(t, p) + zipRawEntryLength(t[p])
    BY OffStep
  <2>6. \A p \in 1 .. Len(s) : p \in 1 .. Len(s) + 1
    BY <2>1
  <2>7. \A p \in 1 .. Len(t) : p \in 1 .. Len(t) + 1
    BY <2>1
  <2>8. \A k \in D : Off(s, a + k + 1) \in Nat /\ Off(t, b + k + 1) \in Nat
    BY <2>2, <2>4
  <2>9. \A k \in 1 .. n :
            /\ zipRawEntryLength(s[a + k]) \in Nat /\ zipRawEntryLength(t[b + k]) \in Nat
            /\ Off(s, a + k) \in Nat /\ Off(t, b + k) \in Nat
    BY <2>2, <2>3, <2>4, <2>6, <2>7, EntrySize
  <2>10. \A k \in 1 .. n :
            /\ Off(s, a + k + 1) = Off(s, a + k) + zipRawEntryLength(s[a + k])
            /\ Off(t, b + k + 1) = Off(t, b + k) + zipRawEntryLength(t[b + k])
    BY <2>2, <2>5
  <2> QED BY <2>2, <2>4, <2>8, <2>9, <2>10
<1>2. \A k \in D : k \in B
  <2>1. D \in SUBSET Nat /\ \A k \in D \ {0} : k - 1 \in D
    OBVIOUS
  <2>2. 0 \in B
    BY <1>1
  <2>3. ASSUME NEW k \in D \ {0}, k - 1 \in B PROVE k \in B
    <3>1. k \in 1 .. n /\ a + (k - 1) + 1 = a + k /\ b + (k - 1) + 1 = b + k
      OBVIOUS
    <3>2. Off(s, a + k) - Off(s, a + 1) = Off(t, b + k) - Off(t, b + 1)
      BY <2>3, <3>1
    <3>3. /\ Off(s, a + k) \in Nat /\ Off(t, b + k) \in Nat
          /\ Off(s, a + 1) \in Nat /\ Off(t, b + 1) \in Nat
          /\ Off(s, a + k + 1) = Off(s, a + k) + zipRawEntryLength(s[a + k])
          /\ Off(t, b + k + 1) = Off(t, b + k) + zipRawEntryLength(t[b + k])
          /\ zipRawEntryLength(s[a + k]) \in Nat
          /\ zipRawEntryLength(s[a + k]) = zipRawEntryLength(t[b + k])
      <4> HIDE DEF B, D
      <4> QED BY <1>1, <3>1
    <3>4. Equals(k)
      <4> DEFINE x == Off(s, a + k)
                 y == Off(t, b + k)
                 z == zipRawEntryLength(s[a + k])
                 v == Off(s, a + 1)
                 w == Off(t, b + 1)
      <4>1. x \in Nat /\ y \in Nat /\ z \in Nat /\ v \in Nat /\ w \in Nat /\ x - v = y - w
        BY <3>2, <3>3
      <4>2. Off(s, a + k + 1) = x + z /\ Off(t, b + k + 1) = y + z
        BY <3>3
      <4> HIDE DEF x, y, z, v, w
      <4>3. (x + z) - v = (y + z) - w
        BY <4>1
      <4> QED BY <4>2, <4>3 DEF v, w
    <3> QED BY <3>4
  <2> HIDE DEF B, D
  <2> QED BY <2>1, <2>2, <2>3, Upwards
<1>3. Equals(n)
  <2>1. n \in D
    OBVIOUS
  <2>2. n \in B
    <3> HIDE DEF B, D
    <3> QED BY <1>2, <2>1
  <2> QED BY <2>2
<1> QED BY <1>3 DEF Part

-----------------------------------------------------------------------------
(* Ziplists: what makes one well formed.                                   *)

LastOf(s) == IF s = <<>> THEN 1 ELSE Len(s)

\* An entry's field is right, and large enough for what it holds.
Fitting(e) == e.prevsize \in {zipPrevEncodeLength(e.prevlen), 5}
EntryTrue(s, p) ==
    /\ s[p].prevlen = IF p = 1 THEN 0 ELSE zipRawEntryLength(s[p - 1])
    /\ Fitting(s[p])

\* All but the field of one entry: where a cascade is.
WellButAt(zl, k) ==
    LET s == zl.entries
    IN  /\ zl = [bytes |-> zl.bytes, tail |-> zl.tail, len |-> zl.len, entries |-> s]
        /\ s \in Seq(ListEntries)
        /\ zl.len = Len(s) /\ zl.bytes = Off(s, Len(s) + 1) + 1 /\ zl.tail = Off(s, LastOf(s))
        /\ \A p \in 1 .. Len(s) : IF p = k THEN Fitting(s[p]) ELSE EntryTrue(s, p)

ZiplistOK(zl) == WellButAt(zl, 0)

\* A well-formed ziplist is what the runs check of one.
LEMMA ZiplistIs ==
    ASSUME NEW zl, ZiplistOK(zl)
    PROVE  PrevLensTrue(zl) /\ HeaderTrue(zl)
<1> DEFINE s == zl.entries
<1>1. /\ s \in Seq(ListEntries) /\ zl.len = Len(s) /\ zl.bytes = Off(s, Len(s) + 1) + 1
      /\ zl.tail = Off(s, LastOf(s))
      /\ \A p \in 1 .. Len(s) : EntryTrue(s, p)
  BY DEF ZiplistOK, WellButAt
<1>2. PrevLensTrue(zl)
  BY <1>1 DEF PrevLensTrue, EntryTrue, Fitting
<1>3. HeaderTrue(zl)
  BY <1>1, OffsetIs DEF HeaderTrue, End, LastOf
<1> QED BY <1>2, <1>3

\* A field fits its length, which needs one byte or five.
LEMMA FieldSize ==
    ASSUME NEW n \in Nat
    PROVE  zipPrevEncodeLength(n) \in {1, 5}
BY DEF zipPrevEncodeLength

\* Offsets after an entry is replaced.
LEMMA OffReplaced ==
    ASSUME NEW s \in Seq(ListEntries), NEW p \in 1 .. Len(s), NEW e \in ListEntries
    PROVE  LET t == [s EXCEPT ![p] = e]
               more == zipRawEntryLength(e) - zipRawEntryLength(s[p])
           IN  /\ t \in Seq(ListEntries) /\ Len(t) = Len(s) /\ t[p] = e
               /\ \A q \in 1 .. Len(s) : q # p => t[q] = s[q]
               /\ \A q \in 1 .. Len(s) + 1 :
                     Off(t, q) = Off(s, q) + (IF q <= p THEN 0 ELSE more)
<1> DEFINE t == [s EXCEPT ![p] = e]
           n == Len(s)
           more == zipRawEntryLength(e) - zipRawEntryLength(s[p])
<1>1. /\ t \in Seq(ListEntries) /\ Len(t) = n /\ t[p] = e /\ n \in Nat /\ p \in 1 .. n
      /\ \A q \in 1 .. n : q # p => t[q] = s[q]
  OBVIOUS
<1>2. /\ \A q \in 1 .. n + 1 : Off(s, q) \in Nat /\ Off(t, q) \in Nat
      /\ Off(s, p + 1) = Off(s, p) + zipRawEntryLength(s[p])
      /\ Off(t, p + 1) = Off(t, p) + zipRawEntryLength(e)
  BY <1>1, OffStep DEF n
<1>3. zipRawEntryLength(s[p]) \in Nat /\ zipRawEntryLength(e) \in Nat
  <2>1. s[p] \in ListEntries
    OBVIOUS
  <2> QED BY <2>1, EntrySize
<1> HIDE DEF t, n
<1>4. \A q \in 1 .. p : Off(s, q) = Off(t, q)
  <2>1. p - 1 \in Nat /\ p - 1 <= n /\ p - 1 + 1 = p
        /\ \A i \in 1 .. p - 1 : i \in 1 .. n /\ i # p
    BY <1>1
  <2>2. \A i \in 1 .. p - 1 : zipRawEntryLength(s[i]) = zipRawEntryLength(t[i])
    BY <1>1, <2>1
  <2> DEFINE k == p - 1
  <2>3. k \in Nat /\ k <= Len(s) /\ k <= Len(t) /\ k + 1 = p /\ s \in Seq(ListEntries)
        /\ t \in Seq(ListEntries)
    BY <1>1, <2>1 DEF n
  <2>4. \A i \in 1 .. k : zipRawEntryLength(s[i]) = zipRawEntryLength(t[i])
    BY <2>2
  <2> HIDE DEF k
  <2>5. \A q \in 1 .. k + 1 : Off(s, q) = Off(t, q)
    BY ONLY <2>3, <2>4, OffAgrees
  <2> QED BY <2>3, <2>5
<1>5. ASSUME NEW q \in p + 1 .. n + 1 PROVE Off(t, q) = Off(s, q) + more
  <2> DEFINE m == q - (p + 1)
  <2>1. m \in Nat /\ p \in Nat /\ p + m <= n /\ p + m + 1 = q
        /\ \A i \in 1 .. m : p + i \in 1 .. n /\ p + i # p
    BY <1>1
  <2> HIDE DEF m
  <2>2. SameSizes(s, p, t, p, m)
    BY <1>1, <2>1 DEF SameSizes
  <2>a. s \in Seq(ListEntries) /\ t \in Seq(ListEntries) /\ p + m <= Len(s) /\ p + m <= Len(t)
    BY <1>1, <2>1 DEF n
  <2>3. Off(s, p + m + 1) - Off(s, p + 1) = Off(t, p + m + 1) - Off(t, p + 1)
    BY ONLY <2>a, <2>1, <2>2, OffBehind DEF Part
  <2>4. p \in 1 .. p /\ q \in 1 .. n + 1 /\ p \in 1 .. n + 1
    BY <1>1
  <2>5. Off(s, p) = Off(t, p) /\ Off(s, p) \in Nat /\ Off(s, q) \in Nat /\ Off(t, q) \in Nat
    BY <1>2, <1>4, <2>4
  <2>6. Off(s, q) - Off(s, p + 1) = Off(t, q) - Off(t, p + 1)
    BY <2>1, <2>3
  <2> DEFINE x == zipRawEntryLength(s[p])
             y == zipRawEntryLength(e)
             z == Off(s, p)
             u == Off(s, q)
             v == Off(t, q)
  <2>7. x \in Nat /\ y \in Nat /\ z \in Nat /\ u \in Nat /\ v \in Nat
        /\ u - (z + x) = v - (z + y) /\ more = y - x
    BY <1>2, <1>3, <2>5, <2>6
  <2> HIDE DEF more, x, y, z, u, v
  <2>8. v = u + more
    BY <2>7
  <2> QED BY <2>8 DEF u, v
<1>6. \A q \in 1 .. n + 1 : Off(t, q) = Off(s, q) + (IF q <= p THEN 0 ELSE more)
  <2> TAKE q \in 1 .. n + 1
  <2>1. Off(s, q) \in Nat
    BY <1>2
  <2>2. CASE q <= p
    BY <1>1, <1>4, <2>1, <2>2
  <2>3. CASE ~(q <= p)
    BY <1>1, <1>5, <2>3
  <2> QED BY <2>2, <2>3
<1> QED BY <1>1, <1>6 DEF t, n

\* One entry has the length of the one before it stored: only the next one's
\* can be wrong now, and only if something grew.
LEMMA StampedIs ==
    ASSUME NEW zl, NEW p \in Nat \ {0}, p + 1 <= Len(zl.entries), WellButAt(zl, p + 1)
    PROVE  LET new == Stamped(zl, p)
           IN  /\ WellButAt(new, p + 2)
               /\ new.bytes = zl.bytes => ZiplistOK(new)
               /\ ZiplistValues(new) = ZiplistValues(zl)
               /\ Len(new.entries) = Len(zl.entries)
<1> DEFINE s == zl.entries
           n == Len(s)
           raw == zipRawEntryLength(s[p])
           next == s[p + 1]
           a == next.prevsize
           extra == Max({0, zipPrevEncodeLength(raw) - a})
           e == [prevsize |-> a + extra, prevlen |-> raw, val |-> next.val]
           t == [s EXCEPT ![p + 1] = e]
           new == Stamped(zl, p)
<1>1. /\ zl = [bytes |-> zl.bytes, tail |-> zl.tail, len |-> zl.len, entries |-> s]
      /\ s \in Seq(ListEntries) /\ n \in Nat /\ p \in 1 .. n /\ p + 1 \in 1 .. n
      /\ zl.len = n /\ zl.bytes = Off(s, n + 1) + 1 /\ zl.tail = Off(s, LastOf(s))
      /\ \A q \in 1 .. n : IF q = p + 1 THEN Fitting(s[q]) ELSE EntryTrue(s, q)
  BY DEF WellButAt
<1>2. /\ next = [prevsize |-> a, prevlen |-> next.prevlen, val |-> next.val]
      /\ a \in {1, 5} /\ next.prevlen \in Nat /\ next.val \in ListValues
      /\ zipRawEntryLength(next) \in Nat /\ raw \in Nat /\ Fitting(next)
  <2>1. s[p] \in ListEntries /\ next \in ListEntries
    BY <1>1
  <2> HIDE DEF s
  <2> QED BY <1>1, <2>1, EntrySize
<1>3. extra \in {0, 4} /\ a + extra \in {1, 5} /\ a + extra \in {zipPrevEncodeLength(raw), 5}
  <2> DEFINE x == zipPrevEncodeLength(raw) - a
  <2>1. x \in {-4, 0, 4}
    BY <1>2, FieldSize
  <2>2. Max({0, x}) = IF x = 4 THEN 4 ELSE 0
    BY <2>1 DEF Max
  <2> HIDE DEF raw
  <2> QED BY <1>2, <2>1, <2>2, FieldSize
<1> HIDE DEF extra
<1>4. /\ e \in ListEntries /\ Fitting(e)
      /\ zipRawEntryLength(e) = zipRawEntryLength(next) + extra
  <2>1. e \in ListEntries
    BY <1>2, <1>3 DEF ListEntries
  <2>2. Fitting(e)
    BY <1>3 DEF Fitting
  <2> DEFINE v == next.val
             b == a + extra
             m == next.prevlen
  <2>3. /\ next = [prevsize |-> a, prevlen |-> m, val |-> v]
        /\ e = [prevsize |-> b, prevlen |-> raw, val |-> v]
        /\ a \in {1, 5} /\ b \in {1, 5} /\ m \in Nat /\ raw \in Nat /\ v \in ListValues
        /\ b - a = extra
    BY <1>2, <1>3
  <2> HIDE DEF v, b, m, a, raw, next, e
  <2>4. zipRawEntryLength(e) = zipRawEntryLength(next) + (b - a)
    BY <2>3, EntrySizes
  <2> QED BY <2>1, <2>2, <2>3, <2>4
<1>5. new = [bytes |-> zl.bytes + extra,
             tail |-> IF zl.tail = OffsetOf(zl, p + 1) THEN zl.tail ELSE zl.tail + extra,
             len |-> zl.len, entries |-> t]
  <2> DEFINE by == zl.bytes
             tl == zl.tail
             ln == zl.len
             f == [next EXCEPT !.prevlen = raw, !.prevsize = @ + extra]
  <2>1. f = e
    <3> DEFINE m == next.prevlen
               v == next.val
    <3>1. next = [prevsize |-> a, prevlen |-> m, val |-> v]
      BY <1>2
    <3>2. f = [[next EXCEPT !.prevlen = raw] EXCEPT !.prevsize = a + extra]
      BY <3>1
    <3> HIDE DEF next, a, m, v, raw, f
    <3>3. f = [prevsize |-> a + extra, prevlen |-> raw, val |-> v]
      BY <3>1, <3>2
    <3> QED BY <3>3 DEF v
  <2>2. new = [zl EXCEPT
           !.bytes = @ + extra,
           !.tail = IF @ = OffsetOf(zl, p + 1) THEN @ ELSE @ + extra,
           !.entries[p + 1] = f]
    BY DEF Stamped, extra
  <2>3. zl = [bytes |-> by, tail |-> tl, len |-> ln, entries |-> s]
    BY <1>1
  <2> HIDE DEF by, tl, ln, s, e, f, new
  <2> QED BY <2>1, <2>2, <2>3 DEF by, tl, ln, s
<1>6. /\ t \in Seq(ListEntries) /\ Len(t) = n /\ t[p + 1] = e
      /\ \A q \in 1 .. n : q # p + 1 => t[q] = s[q]
      /\ \A q \in 1 .. n + 1 : Off(t, q) = Off(s, q) + (IF q <= p + 1 THEN 0 ELSE extra)
  <2>1. zipRawEntryLength(e) - zipRawEntryLength(next) = extra
    BY <1>2, <1>3, <1>4
  <2> HIDE DEF s, e
  <2>2. next = s[p + 1]
    OBVIOUS
  <2> HIDE DEF next, extra
  <2> DEFINE k == p + 1
  <2>3. k \in 1 .. Len(s) /\ s \in Seq(ListEntries) /\ e \in ListEntries
        /\ zipRawEntryLength(e) - zipRawEntryLength(s[k]) = extra
    BY <1>1, <1>4, <2>1, <2>2
  <2> HIDE DEF k
  <2> DEFINE u == [s EXCEPT ![k] = e]
  <2>4. /\ u \in Seq(ListEntries) /\ Len(u) = Len(s) /\ u[k] = e
        /\ \A q \in 1 .. Len(s) : q # k => u[q] = s[q]
        /\ \A q \in 1 .. Len(s) + 1 : Off(u, q) = Off(s, q) + (IF q <= k THEN 0 ELSE extra)
    BY ONLY <2>3, OffReplaced
  <2> QED BY <2>4 DEF k
<1>7. \A q \in 1 .. n + 1 : Off(s, q) \in Nat
  BY <1>1, OffStep
<1> HIDE DEF e, t, next, raw, a, new
<1>8. new.bytes = Off(t, n + 1) + 1 /\ new.len = n /\ new.entries = t
      /\ (new.bytes = zl.bytes => extra = 0)
  <2>1. n + 1 \in 1 .. n + 1 /\ ~(n + 1 <= p + 1)
    BY <1>1
  <2>2. Off(t, n + 1) = Off(s, n + 1) + extra /\ Off(s, n + 1) \in Nat
    BY <1>6, <1>7, <2>1
  <2>3. zl.bytes + extra = Off(t, n + 1) + 1
    BY <1>1, <1>3, <2>2
  <2> QED BY <1>1, <1>3, <1>5, <2>2, <2>3
<1>9. new.tail = Off(t, LastOf(t))
  <2>1. LastOf(s) = n /\ LastOf(t) = n /\ n \in 1 .. n + 1 /\ p + 1 \in 1 .. n + 1
    BY <1>1, <1>6 DEF LastOf
  <2>2. zl.tail = Off(s, n)
    BY <1>1, <2>1
  <2>3. zl.tail = OffsetOf(zl, p + 1) <=> n = p + 1
    BY <1>1, <2>1, <2>2, OffsetIs, OffAscends
  <2>4. Off(t, n) = Off(s, n) + (IF n <= p + 1 THEN 0 ELSE extra) /\ Off(s, n) \in Nat
    BY <1>6, <1>7, <2>1
  <2>5. new.tail = IF n = p + 1 THEN Off(s, n) ELSE Off(s, n) + extra
    BY <1>5, <2>2, <2>3
  <2> QED BY <1>1, <1>3, <2>1, <2>4, <2>5
<1>10. EntryTrue(t, p + 1)
  <2>1. p + 1 # 1 /\ p + 1 - 1 = p /\ t[p] = s[p] /\ t[p + 1] = e
    BY <1>1, <1>6
  <2>2. e.prevlen = zipRawEntryLength(s[p])
    BY DEF e, raw
  <2> QED BY <1>4, <2>1, <2>2 DEF EntryTrue
<1>11. \A q \in 1 .. n : q \notin {p + 1, p + 2} => EntryTrue(t, q)
  <2> TAKE q \in 1 .. n
  <2> HAVE q \notin {p + 1, p + 2}
  <2>1. EntryTrue(s, q) /\ t[q] = s[q]
    BY <1>1, <1>6
  <2>2. q # 1 => q - 1 \in 1 .. n /\ q - 1 # p + 1
    BY <1>1
  <2>3. q # 1 => t[q - 1] = s[q - 1]
    BY <1>6, <2>2
  <2> QED BY <2>1, <2>3 DEF EntryTrue
<1>12. p + 2 \in 1 .. n => Fitting(t[p + 2]) /\ (extra = 0 => EntryTrue(t, p + 2))
  <2> HAVE p + 2 \in 1 .. n
  <2>1. p + 2 # p + 1 /\ p + 2 # 1 /\ p + 2 - 1 = p + 1 /\ p + 1 # 1
    BY <1>1
  <2>2. EntryTrue(s, p + 2) /\ t[p + 2] = s[p + 2]
    BY <1>1, <1>6, <2>1
  <2>3. extra = 0 => zipRawEntryLength(e) = zipRawEntryLength(s[p + 1])
    BY <1>2, <1>4 DEF next
  <2> QED BY <1>6, <2>1, <2>2, <2>3 DEF EntryTrue
<1>13. new = [bytes |-> new.bytes, tail |-> new.tail, len |-> new.len, entries |-> new.entries]
  BY <1>5
<1>14. WellButAt(new, p + 2)
  <2>1. \A q \in 1 .. n : IF q = p + 2 THEN Fitting(t[q]) ELSE EntryTrue(t, q)
    BY <1>10, <1>11, <1>12
  <2> QED BY <1>6, <1>8, <1>9, <1>13, <2>1 DEF WellButAt
<1>15. new.bytes = zl.bytes => ZiplistOK(new)
  <2> HAVE new.bytes = zl.bytes
  <2>1. \A q \in 1 .. n : q # 0 /\ EntryTrue(t, q)
    BY <1>8, <1>10, <1>11, <1>12
  <2> QED BY <1>6, <1>8, <1>9, <1>13, <2>1 DEF ZiplistOK, WellButAt
<1>16. ZiplistValues(new) = ZiplistValues(zl)
  <2>1. \A q \in 1 .. n : t[q].val = s[q].val
    <3>1. e.val = s[p + 1].val
      BY DEF e, next
    <3> QED BY <1>6, <3>1
  <2> QED BY <1>6, <1>8, <2>1 DEF ZiplistValues
<1> QED BY <1>6, <1>8, <1>14, <1>15, <1>16 DEF new

-----------------------------------------------------------------------------
(* Ziplists: the cascade.                                                  *)

\* Ziplists as records.
LEMMA WellTyped ==
    ASSUME NEW zl, NEW k, WellButAt(zl, k)
    PROVE  zl \in Ziplists /\ Len(ZiplistValues(zl)) = Len(zl.entries)
<1> DEFINE s == zl.entries
<1>1. /\ zl = [bytes |-> zl.bytes, tail |-> zl.tail, len |-> zl.len, entries |-> s]
      /\ s \in Seq(ListEntries)
      /\ zl.len = Len(s) /\ zl.bytes = Off(s, Len(s) + 1) + 1 /\ zl.tail = Off(s, LastOf(s))
  BY DEF WellButAt
<1>2. LastOf(s) \in 1 .. Len(s) + 1 /\ Len(s) + 1 \in 1 .. Len(s) + 1 /\ Len(s) \in Nat
  <2>1. s # <<>> => Len(s) >= 1
    BY <1>1
  <2> HIDE DEF s
  <2>2. Len(s) \in Nat
    BY <1>1
  <2> QED BY <2>1, <2>2 DEF LastOf
<1>3. Off(s, LastOf(s)) \in Nat /\ Off(s, Len(s) + 1) \in Nat
  <2> HIDE DEF s
  <2> QED BY <1>1, <1>2, OffStep
<1> HIDE DEF s
<1>4. zl.bytes \in Nat /\ zl.tail \in Nat /\ zl.len \in Nat
  BY <1>1, <1>2, <1>3
<1>5. zl \in Ziplists
  BY <1>1, <1>4 DEF Ziplists
<1>6. Len(ZiplistValues(zl)) = Len(s)
  BY <1>2 DEF ZiplistValues, s
<1> QED BY <1>5, <1>6 DEF s

\* A cascade that is past the last entry, or whose entry is right, is over.
LEMMA CascadeOver ==
    ASSUME NEW zl, NEW k \in Nat, WellButAt(zl, k),
           k > Len(zl.entries) \/ EntryTrue(zl.entries, k)
    PROVE  ZiplistOK(zl)
<1>1. \A p \in 1 .. Len(zl.entries) : EntryTrue(zl.entries, p)
  BY DEF WellButAt
<1>2. \A p \in 1 .. Len(zl.entries) : p # 0
  OBVIOUS
<1> QED BY <1>1, <1>2 DEF ZiplistOK, WellButAt

\* Where a cascade from position p of zl is after n turns.
Cascading(zl, p, n) ==
    {c \in [zl : Ziplists, runs : BOOLEAN] :
        /\ ZiplistValues(c.zl) = ZiplistValues(zl) /\ Len(c.zl.entries) = Len(zl.entries)
        /\ IF c.runs THEN WellButAt(c.zl, p + n + 1) ELSE ZiplistOK(c.zl)}

LEMMA CascadingTurn ==
    ASSUME NEW zl, NEW p \in Nat \ {0}, NEW n \in Nat \ {0}, p + n - 1 <= Len(zl.entries),
           NEW c \in Cascading(zl, p, n - 1)
    PROVE  CascadeTurn(c, p + n - 1) \in Cascading(zl, p, n)
<1> DEFINE q == p + n - 1
           s == c.zl.entries
           next == CascadeTurn(c, q)
<1>1. /\ c = [zl |-> c.zl, runs |-> c.runs] /\ c.zl \in Ziplists /\ c.runs \in BOOLEAN
      /\ ZiplistValues(c.zl) = ZiplistValues(zl) /\ Len(s) = Len(zl.entries)
      /\ IF c.runs THEN WellButAt(c.zl, q + 1) ELSE ZiplistOK(c.zl)
  BY DEF Cascading
<1>2. q \in Nat \ {0} /\ q <= Len(s) /\ Len(s) \in Nat /\ p + n + 1 = q + 2 /\ q + 1 - 1 = q
  <2>1. s \in Seq(ListEntries)
    BY <1>1 DEF Ziplists
  <2> HIDE DEF s
  <2>2. Len(s) \in Nat
    BY <2>1
  <2> QED BY <1>1, <2>2
<1> HIDE DEF q, s
<1>3. CASE ~c.runs \/ q = Len(s) \/ s[q + 1].prevlen = zipRawEntryLength(s[q])
  <2>1. next = [zl |-> c.zl, runs |-> FALSE]
    <3>1. next = [c EXCEPT !.runs = FALSE]
      BY <1>3 DEF CascadeTurn, s
    <3> HIDE DEF next
    <3> QED BY <1>1, <3>1
  <2>2. ZiplistOK(c.zl)
    <3>1. CASE ~c.runs
      BY <1>1, <3>1
    <3>2. CASE c.runs /\ q = Len(s)
      <4>1. WellButAt(c.zl, q + 1) /\ q + 1 \in Nat /\ q + 1 > Len(c.zl.entries)
        BY <1>1, <1>2, <3>2 DEF s
      <4> QED BY ONLY <4>1, CascadeOver
    <3>3. CASE c.runs /\ q # Len(s) /\ s[q + 1].prevlen = zipRawEntryLength(s[q])
      <4>1. q + 1 \in 1 .. Len(s) /\ q + 1 # 1 /\ WellButAt(c.zl, q + 1)
        BY <1>1, <1>2, <3>3
      <4>2. Fitting(s[q + 1])
        BY <4>1 DEF WellButAt, s
      <4>3. EntryTrue(s, q + 1)
        BY <1>2, <3>3, <4>1, <4>2 DEF EntryTrue
      <4> QED BY <1>2, <4>1, <4>3, CascadeOver DEF s
    <3> QED BY <1>3, <3>1, <3>2, <3>3
  <2> HIDE DEF next
  <2>3. next \in [zl : Ziplists, runs : BOOLEAN] /\ next.zl = c.zl /\ next.runs = FALSE
    BY <1>1, <2>1
  <2>4. next \in Cascading(zl, p, n)
    BY <1>1, <2>2, <2>3 DEF Cascading, s
  <2> QED BY <2>4 DEF next, q
<1>4. CASE c.runs /\ q # Len(s) /\ s[q + 1].prevlen # zipRawEntryLength(s[q])
  <2> DEFINE new == Stamped(c.zl, q)
  <2>1. next = [zl |-> new, runs |-> new.bytes # c.zl.bytes]
    BY <1>4 DEF CascadeTurn, s
  <2>2. q + 1 <= Len(c.zl.entries) /\ WellButAt(c.zl, q + 1)
    BY <1>1, <1>2, <1>4 DEF s
  <2>3. /\ WellButAt(new, q + 2) /\ (new.bytes = c.zl.bytes => ZiplistOK(new))
        /\ ZiplistValues(new) = ZiplistValues(c.zl)
        /\ Len(new.entries) = Len(c.zl.entries)
    BY ONLY <1>2, <2>2, StampedIs
  <2> HIDE DEF new, next
  <2>4. new \in Ziplists
    BY <2>3, WellTyped
  <2>5. next \in [zl : Ziplists, runs : BOOLEAN] /\ next.zl = new
        /\ (next.runs <=> new.bytes # c.zl.bytes)
    BY <2>1, <2>4
  <2>6. /\ ZiplistValues(next.zl) = ZiplistValues(zl) /\ Len(next.zl.entries) = Len(zl.entries)
        /\ IF next.runs THEN WellButAt(next.zl, p + n + 1) ELSE ZiplistOK(next.zl)
    BY <1>1, <1>2, <2>3, <2>5 DEF s
  <2>7. next \in Cascading(zl, p, n)
    BY <2>5, <2>6 DEF Cascading
  <2> QED BY <2>7 DEF next, q
<1> QED BY <1>1, <1>3, <1>4 DEF q

\* The cascade makes every length right and touches nothing else.
LEMMA CascadeHolds ==
    ASSUME NEW zl, NEW p \in 1 .. Len(zl.entries), WellButAt(zl, p + 1)
    PROVE  LET new == __ziplistCascadeUpdate(zl, p)
           IN  /\ ZiplistOK(new) /\ ZiplistValues(new) = ZiplistValues(zl)
               /\ Len(new.entries) = Len(zl.entries)
<1> DEFINE m == End(zl) - p
           D == 0 .. m
           I == [n \in D |-> Cascading(zl, p, n)]
           a == [zl |-> zl, runs |-> TRUE]
           G == [n \in D |-> [c \in Cascading(zl, p, n - 1) |-> CascadeTurn(c, p + n - 1)]]
<1>1. zl \in Ziplists /\ Len(zl.entries) \in Nat /\ p \in Nat \ {0} /\ m \in Nat
      /\ m = Len(zl.entries) + 1 - p
  <2>1. zl \in Ziplists
    BY WellTyped
  <2>2. Len(zl.entries) \in Nat
    BY <2>1 DEF Ziplists
  <2> QED BY <2>1, <2>2 DEF End
<1> HIDE DEF m
<1>2. D \in SUBSET Nat /\ 0 \in D /\ m \in D /\ \A n \in D \ {0} : n - 1 \in D
  BY <1>1
<1>3. a \in I[0]
  <2>1. a \in [zl : Ziplists, runs : BOOLEAN] /\ a.zl = zl /\ a.runs /\ p + 0 + 1 = p + 1
    BY <1>1
  <2> HIDE DEF a
  <2>2. a \in Cascading(zl, p, 0)
    BY <2>1 DEF Cascading
  <2> QED BY <1>2, <2>2
<1>4. ASSUME NEW n \in D \ {0}, NEW x \in I[n - 1]
      PROVE  G[n][x] \in I[n] /\ G[n][x] = CascadeTurn(x, p + n - 1)
  <2>1. n \in Nat \ {0} /\ n - 1 \in D /\ n \in D /\ p + n - 1 <= Len(zl.entries)
    BY <1>1
  <2>2. x \in Cascading(zl, p, n - 1)
    BY <2>1
  <2>3. CascadeTurn(x, p + n - 1) \in Cascading(zl, p, n)
    BY <1>1, <2>1, <2>2, CascadingTurn
  <2>4. G[n][x] = CascadeTurn(x, p + n - 1)
    BY <2>1, <2>2
  <2> QED BY <2>1, <2>3, <2>4
<1> HIDE DEF D, G, I
<1>a. PICK h : Loop(D, a, G, h) /\ \A n \in D : h[n] \in I[n]
  <2> HIDE DEF a
  <2>1. Turning(D, I, a, G)
    BY <1>3, <1>4 DEF Turning
  <2> QED BY ONLY <1>2, <2>1, LoopSolved
<1>5. /\ h = [n \in D |-> IF n = 0 THEN a ELSE G[n][h[n - 1]]]
      /\ \A n \in D : h[n] \in I[n]
  <2> HIDE DEF a
  <2> QED BY <1>a DEF Loop
<1> DEFINE P(f) == f = [n \in D |-> IF n = 0 THEN a ELSE CascadeTurn(f[n - 1], p + n - 1)]
           f == CHOOSE g : P(g)
<1>6. P(h)
  <2>1. \A n \in D : n # 0 => n \in D \ {0} /\ n - 1 \in D
    BY <1>2
  <2>2. \A n \in D : (IF n = 0 THEN a ELSE G[n][h[n - 1]])
                     = IF n = 0 THEN a ELSE CascadeTurn(h[n - 1], p + n - 1)
    BY <1>4, <1>5, <2>1
  <2> HIDE DEF a
  <2> QED BY <1>5, <2>2
<1>7. P(f)
  <2> HIDE DEF P
  <2> QED BY <1>6
<1> DEFINE B == {n \in D : f[n] = h[n]}
<1>8. \A n \in D : n \in B
  <2>1. \A n \in D : f[n] = IF n = 0 THEN a ELSE CascadeTurn(f[n - 1], p + n - 1)
    <3> HIDE DEF a, f
    <3> QED BY <1>7
  <2>2. \A n \in D : h[n] = IF n = 0 THEN a ELSE CascadeTurn(h[n - 1], p + n - 1)
    <3> HIDE DEF a
    <3> QED BY <1>6
  <2> HIDE DEF f, a, P
  <2>3. 0 \in B
    BY <1>2, <2>1, <2>2
  <2>4. ASSUME NEW n \in D \ {0}, n - 1 \in B PROVE n \in B
    BY <1>2, <2>1, <2>2, <2>4
  <2> HIDE DEF B
  <2> QED BY <1>2, <2>3, <2>4, Upwards
<1>9. f[m] \in Cascading(zl, p, m)
  <2>1. f[m] = h[m] /\ h[m] \in I[m]
    <3>1. m \in B
      <4> HIDE DEF B
      <4> QED BY <1>2, <1>8
    <3> HIDE DEF f
    <3> QED BY <1>2, <1>5, <3>1
  <2> HIDE DEF f
  <2> QED BY <1>2, <2>1 DEF I
<1>10. __ziplistCascadeUpdate(zl, p) = f[m].zl
  BY DEF __ziplistCascadeUpdate, D, m
<1> DEFINE new == f[m].zl
<1>11. /\ ZiplistValues(new) = ZiplistValues(zl) /\ Len(new.entries) = Len(zl.entries)
       /\ WellButAt(new, p + m + 1) \/ ZiplistOK(new)
  <2> HIDE DEF f
  <2> QED BY <1>9 DEF Cascading
<1> HIDE DEF f, new
<1>12. ZiplistOK(new)
  <2>1. p + m + 1 \in Nat /\ p + m + 1 > Len(new.entries)
    BY <1>1, <1>11
  <2> QED BY <1>11, <2>1, CascadeOver
<1> QED BY <1>10, <1>11, <1>12 DEF new

-----------------------------------------------------------------------------
(* Ziplists: inserting and deleting.                                       *)

\* An entry that takes over another length.
Refit(e, x, d) == [e EXCEPT !.prevlen = x, !.prevsize = @ + d]

LEMMA Refitted ==
    ASSUME NEW e \in ListEntries, NEW x \in Nat,
           NEW d, d = zipPrevEncodeLength(x) - e.prevsize
    PROVE  LET f == Refit(e, x, d)
           IN  /\ d \in Int /\ f \in ListEntries /\ Fitting(f) /\ f.prevlen = x /\ f.val = e.val
               /\ zipRawEntryLength(f) = zipRawEntryLength(e) + d
<1> DEFINE a == e.prevsize
           m == e.prevlen
           v == e.val
           b == zipPrevEncodeLength(x)
           f == Refit(e, x, d)
<1>1. /\ e = [prevsize |-> a, prevlen |-> m, val |-> v]
      /\ a \in {1, 5} /\ m \in Nat /\ v \in ListValues /\ b \in {1, 5}
  BY EntrySize, FieldSize
<1>2. d = b - a /\ d \in Int /\ a + d = b
  BY <1>1
<1>3. f = [prevsize |-> b, prevlen |-> x, val |-> v]
  <2>1. f = [[e EXCEPT !.prevlen = x] EXCEPT !.prevsize = a + d]
    BY <1>1 DEF Refit
  <2> HIDE DEF f, a, m, v, b
  <2>2. f = [prevsize |-> a + d, prevlen |-> x, val |-> v]
    BY <1>1, <2>1
  <2> QED BY <1>2, <2>2
<1> HIDE DEF f, a, m, v, b
<1>4. f \in ListEntries
  BY <1>1, <1>3 DEF ListEntries
<1>5. zipRawEntryLength(f) = zipRawEntryLength(e) + (b - a)
  BY <1>1, <1>3, EntrySizes
<1>6. Fitting(f)
  BY <1>3 DEF Fitting, b
<1> QED BY <1>2, <1>3, <1>4, <1>5, <1>6 DEF f, v

\* A sequence of entries t that begins as s does, with the first a of them, and
\* ends as s does: its last m, from b on, are those of s from c on.
Splice(s, a, c, t, b, m) ==
    /\ s \in Seq(ListEntries) /\ (\A i \in 1 .. Len(s) : EntryTrue(s, i))
    /\ t \in Seq(ListEntries)
    /\ a \in Nat /\ a <= Len(s) /\ a <= Len(t) /\ (\A i \in 1 .. a : t[i] = s[i])
    /\ m \in Nat /\ b \in Nat /\ b + m = Len(t) /\ c \in Nat /\ c + m = Len(s)
    /\ \A j \in 1 .. m : t[b + j] = s[c + j]

\* Its offsets, and the entries that stay right.
LEMMA Spliced ==
    ASSUME NEW s, NEW a, NEW c, NEW t, NEW b, NEW m, Splice(s, a, c, t, b, m)
    PROVE  /\ Off(t, a + 1) = Off(s, a + 1)
           /\ a # 0 => Off(t, a) = Off(s, a)
           /\ Off(t, b + m + 1) - Off(t, b + 1) = Off(s, c + m + 1) - Off(s, c + 1)
           /\ m # 0 => Off(t, b + m) - Off(t, b + 1) = Off(s, c + m) - Off(s, c + 1)
           /\ \A i \in 1 .. a : EntryTrue(t, i)
           /\ \A i \in b + 2 .. b + m : EntryTrue(t, i)
           /\ m # 0 => Fitting(t[b + 1])
           /\ m # 0 /\ b # 0 /\ c # 0 /\ zipRawEntryLength(t[b]) = zipRawEntryLength(s[c])
                 => EntryTrue(t, b + 1)
<1> /\ s \in Seq(ListEntries) /\ (\A i \in 1 .. Len(s) : EntryTrue(s, i))
    /\ t \in Seq(ListEntries)
    /\ a \in Nat /\ a <= Len(s) /\ a <= Len(t) /\ (\A i \in 1 .. a : t[i] = s[i])
    /\ m \in Nat /\ b \in Nat /\ b + m = Len(t) /\ c \in Nat /\ c + m = Len(s)
    /\ \A j \in 1 .. m : t[b + j] = s[c + j]
  BY DEF Splice
<1>1. Len(s) \in Nat /\ Len(t) \in Nat
  OBVIOUS
<1>2. \A p \in 1 .. a + 1 : Off(s, p) = Off(t, p)
  BY OffAgrees
<1>3. Off(t, a + 1) = Off(s, a + 1) /\ (a # 0 => Off(t, a) = Off(s, a))
  <2>1. a + 1 \in 1 .. a + 1 /\ (a # 0 => a \in 1 .. a + 1)
    OBVIOUS
  <2> QED BY <1>2, <2>1
<1>4. Off(s, c + m + 1) - Off(s, c + 1) = Off(t, b + m + 1) - Off(t, b + 1)
  <2>1. SameSizes(s, c, t, b, m)
    BY DEF SameSizes
  <2>2. /\ s \in Seq(ListEntries) /\ t \in Seq(ListEntries) /\ m \in Nat /\ c \in Nat
        /\ c + m <= Len(s) /\ b \in Nat /\ b + m <= Len(t)
    BY <1>1
  <2> QED BY ONLY <2>1, <2>2, OffBehind DEF Part
<1>5. m # 0 => Off(s, c + m) - Off(s, c + 1) = Off(t, b + m) - Off(t, b + 1)
  <2> SUFFICES ASSUME m # 0
               PROVE  Off(s, c + m) - Off(s, c + 1) = Off(t, b + m) - Off(t, b + 1)
    OBVIOUS
  <2> DEFINE k == m - 1
  <2>1. k \in Nat /\ c + k + 1 = c + m /\ b + k + 1 = b + m
        /\ c + k <= Len(s) /\ b + k <= Len(t) /\ \A i \in 1 .. k : i \in 1 .. m
    BY <1>1
  <2> HIDE DEF k
  <2>2. SameSizes(s, c, t, b, k)
    BY <2>1 DEF SameSizes
  <2>a. /\ s \in Seq(ListEntries) /\ t \in Seq(ListEntries) /\ k \in Nat /\ c \in Nat
        /\ c + k <= Len(s) /\ b \in Nat /\ b + k <= Len(t)
    BY <2>1
  <2>3. Off(s, c + k + 1) - Off(s, c + 1) = Off(t, b + k + 1) - Off(t, b + 1)
    BY ONLY <2>a, <2>2, OffBehind DEF Part
  <2> QED BY <2>1, <2>3
<1>6. ASSUME NEW i \in 1 .. a PROVE EntryTrue(t, i)
  <2>1. i \in 1 .. Len(s) /\ t[i] = s[i] /\ (i # 1 => t[i - 1] = s[i - 1])
    BY <1>1
  <2> QED BY <2>1 DEF EntryTrue
<1>7. ASSUME NEW j \in 1 .. m
      PROVE  /\ c + j \in 1 .. Len(s) /\ Fitting(t[b + j]) /\ t[b + j] = s[c + j]
             /\ EntryTrue(s, c + j)
  <2>1. c + j \in 1 .. Len(s) /\ t[b + j] = s[c + j]
    BY <1>1
  <2> QED BY <2>1 DEF EntryTrue
<1>8. ASSUME NEW i \in b + 2 .. b + m PROVE EntryTrue(t, i)
  <2> DEFINE j == i - b
  <2>a. b \in Nat /\ c \in Nat /\ m \in Nat /\ i \in b + 2 .. b + m
    OBVIOUS
  <2>1. j \in 1 .. m /\ j - 1 \in 1 .. m /\ b + j = i /\ b + (j - 1) = i - 1 /\ i # 1
        /\ c + (j - 1) = c + j - 1 /\ c + j # 1
    BY ONLY <2>a
  <2> HIDE DEF j
  <2>2. t[i] = s[c + j] /\ t[i - 1] = s[c + j - 1] /\ Fitting(t[i]) /\ EntryTrue(s, c + j)
    BY <1>7, <2>1
  <2> QED BY <2>1, <2>2 DEF EntryTrue
<1>9. m # 0 => Fitting(t[b + 1])
  <2>1. m # 0 => 1 \in 1 .. m
    OBVIOUS
  <2> QED BY <1>7, <2>1
<1>10. ASSUME m # 0, b # 0, c # 0, zipRawEntryLength(t[b]) = zipRawEntryLength(s[c])
       PROVE  EntryTrue(t, b + 1)
  <2>1. 1 \in 1 .. m /\ b + 1 # 1 /\ c + 1 # 1 /\ b + 1 - 1 = b /\ c + 1 - 1 = c
    BY <1>10
  <2>2. t[b + 1] = s[c + 1] /\ Fitting(t[b + 1]) /\ EntryTrue(s, c + 1)
    BY <1>7, <2>1
  <2>3. s[c + 1].prevlen = zipRawEntryLength(s[c])
    BY <2>1, <2>2 DEF EntryTrue
  <2> DEFINE o == b + 1
  <2>4. Fitting(t[o]) /\ t[o].prevlen = zipRawEntryLength(t[o - 1]) /\ o # 1
    <3>1. o - 1 = b /\ o # 1
      BY <2>1
    <3> HIDE DEF o
    <3>2. t[o] = s[c + 1]
      BY <2>2 DEF o
    <3> QED BY ONLY <1>10, <2>2, <2>3, <3>1, <3>2 DEF o
  <2> HIDE DEF o
  <2>5. EntryTrue(t, o)
    BY ONLY <2>4 DEF EntryTrue
  <2> QED BY <2>5 DEF o
<1> QED BY <1>3, <1>4, <1>5, <1>6, <1>8, <1>9, <1>10

\* An offset is that of one position.
LEMMA PositionIs ==
    ASSUME NEW zl, zl.entries \in Seq(ListEntries), NEW p \in 1 .. End(zl)
    PROVE  PositionAt(zl, Off(zl.entries, p)) = p
<1> DEFINE s == zl.entries
           here == {q \in 1 .. End(zl) : OffsetOf(zl, q) = Off(s, p)}
<1>1. here = {p}
  <2>1. \A q \in 1 .. Len(s) + 1 : OffsetOf(zl, q) = Off(s, q)
    BY OffsetIs
  <2>2. \A q \in 1 .. Len(s) + 1 : Off(s, q) = Off(s, p) => q = p
    BY OffAscends DEF End
  <2> QED BY <2>1, <2>2 DEF End
<1>2. PositionAt(zl, Off(s, p)) = IF here = {} THEN 0 ELSE CHOOSE q \in here : TRUE
  BY DEF PositionAt
<1> HIDE DEF here
<1> QED BY <1>1, <1>2

\* What is known of a well-formed ziplist.
LEMMA ZiplistParts ==
    ASSUME NEW zl, ZiplistOK(zl)
    PROVE  LET s == zl.entries
               n == Len(s)
           IN  /\ s \in Seq(ListEntries) /\ n \in Nat /\ zl.len = n /\ End(zl) = n + 1
               /\ zl.bytes = Off(s, n + 1) + 1 /\ zl.tail = Off(s, LastOf(s))
               /\ PositionAt(zl, zl.tail) = LastOf(s)
               /\ \A i \in 1 .. n : EntryTrue(s, i) /\ s[i] \in ListEntries
               /\ ZiplistValues(zl) = [i \in 1 .. n |-> s[i].val]
               /\ ZiplistValues(zl) \in Seq(ListValues) /\ Len(ZiplistValues(zl)) = n
               /\ \A i \in 1 .. n + 1 : Off(s, i) \in Nat
<1> DEFINE s == zl.entries
           n == Len(s)
<1>1. /\ s \in Seq(ListEntries) /\ zl.len = n
      /\ zl.bytes = Off(s, n + 1) + 1 /\ zl.tail = Off(s, LastOf(s))
      /\ \A i \in 1 .. n : EntryTrue(s, i)
  <2>1. \A i \in 1 .. n : i # 0
    OBVIOUS
  <2> QED BY <2>1 DEF ZiplistOK, WellButAt
<1>2. n \in Nat /\ (s # <<>> => n >= 1) /\ End(zl) = n + 1
      /\ \A i \in 1 .. n : s[i] \in ListEntries
  <2>1. End(zl) = n + 1
    BY DEF End
  <2> HIDE DEF s
  <2> QED BY <1>1, <2>1
<1> HIDE DEF s, n
<1>3. LastOf(s) \in 1 .. End(zl)
  BY <1>1, <1>2 DEF LastOf, n
<1>4. PositionAt(zl, zl.tail) = LastOf(s)
  BY <1>1, <1>3, PositionIs DEF s
<1>5. \A i \in 1 .. n : s[i].val \in ListValues
  BY <1>2, EntrySize
<1>6. ZiplistValues(zl) = [i \in 1 .. n |-> s[i].val]
  BY DEF ZiplistValues, s, n
<1>7. ZiplistValues(zl) \in Seq(ListValues) /\ Len(ZiplistValues(zl)) = n
  BY <1>2, <1>5, <1>6
<1>8. \A i \in 1 .. n + 1 : Off(s, i) \in Nat
  BY <1>1, OffStep DEF n
<1> QED BY <1>1, <1>2, <1>4, <1>6, <1>7, <1>8 DEF s, n

\* A sequence of values with one more, and without some.
WithAt(l, p, v) ==
    [i \in 1 .. Len(l) + 1 |-> IF i < p THEN l[i] ELSE IF i = p THEN v ELSE l[i - 1]]
WithoutFrom(l, p, q) ==
    [i \in 1 .. Len(l) - (q - p) |-> IF i < p THEN l[i] ELSE l[i + (q - p)]]

\* The entry that is written knows the one before it.
LEMMA NewEntryIs ==
    ASSUME NEW zl, ZiplistOK(zl), NEW p \in 1 .. End(zl), NEW v \in ListValues
    PROVE  LET new == NewEntry(zl, p, v)
           IN  /\ new \in ListEntries /\ new.val = v /\ Fitting(new)
               /\ new.prevlen = IF p = 1 THEN 0 ELSE zipRawEntryLength(zl.entries[p - 1])
<1> DEFINE s == zl.entries
           n == Len(s)
           last == PositionAt(zl, zl.tail)
           prevlen == IF p # End(zl) THEN s[p].prevlen
                      ELSE IF last = End(zl) THEN 0 ELSE zipRawEntryLength(s[last])
           new == NewEntry(zl, p, v)
<1>1. /\ s \in Seq(ListEntries) /\ n \in Nat /\ End(zl) = n + 1 /\ last = LastOf(s)
      /\ \A i \in 1 .. n : EntryTrue(s, i) /\ s[i] \in ListEntries
  BY ZiplistParts
<1>2. new = [prevsize |-> zipPrevEncodeLength(prevlen), prevlen |-> prevlen, val |-> v]
  BY DEF NewEntry
<1>3. s = <<>> <=> n = 0
  <2> HIDE DEF s
  <2> QED BY <1>1
<1> HIDE DEF s, n, last
<1>4. prevlen = IF p = 1 THEN 0 ELSE zipRawEntryLength(s[p - 1])
  <2>1. CASE p # End(zl)
    <3>1. p \in 1 .. n
      BY <1>1, <2>1
    <3> QED BY <1>1, <2>1, <3>1 DEF EntryTrue
  <2>2. CASE p = End(zl)
    <3>1. last = IF n = 0 THEN 1 ELSE n
      BY <1>1, <1>3 DEF LastOf, n
    <3> QED BY <1>1, <2>2, <3>1
  <2> QED BY <2>1, <2>2
<1>5. prevlen \in Nat
  <2>1. p # 1 => p - 1 \in 1 .. n
    BY <1>1
  <2>2. p # 1 => zipRawEntryLength(s[p - 1]) \in Nat
    BY <1>1, <2>1, EntrySize
  <2> HIDE DEF prevlen
  <2> QED BY <1>4, <2>2
<1> HIDE DEF prevlen, new
<1>6. new \in ListEntries /\ Fitting(new)
  BY <1>2, <1>5, FieldSize DEF ListEntries, Fitting
<1> QED BY <1>2, <1>4, <1>6 DEF new, s

\* What is appended goes behind the last entry.
LEMMA InsertAtEnd ==
    ASSUME NEW zl, ZiplistOK(zl), NEW v \in ListValues
    PROVE  LET p == End(zl)
               new == __ziplistInsert(zl, p, v)
           IN  ZiplistOK(new) /\ ZiplistValues(new) = WithAt(ZiplistValues(zl), p, v)
<1> DEFINE s == zl.entries
           n == Len(s)
           p == End(zl)
           e == NewEntry(zl, p, v)
           t == Append(s, e)
           new == __ziplistInsert(zl, p, v)
           vals == ZiplistValues(zl)
<1>1. /\ s \in Seq(ListEntries) /\ n \in Nat /\ p = n + 1 /\ zl.len = n
      /\ zl.bytes = Off(s, n + 1) + 1
      /\ \A i \in 1 .. n : EntryTrue(s, i) /\ s[i] \in ListEntries
      /\ vals = [i \in 1 .. n |-> s[i].val] /\ Len(vals) = n
      /\ \A i \in 1 .. n + 1 : Off(s, i) \in Nat
  BY ZiplistParts
<1>2. p \in 1 .. End(zl)
  BY <1>1
<1>3. /\ e \in ListEntries /\ e.val = v /\ Fitting(e)
      /\ e.prevlen = IF p = 1 THEN 0 ELSE zipRawEntryLength(s[p - 1])
  <2> HIDE DEF p, e
  <2> QED BY <1>2, NewEntryIs DEF e
<1>4. new = [bytes |-> zl.bytes + zipRawEntryLength(e), tail |-> OffsetOf(zl, p),
             len |-> zl.len + 1, entries |-> t]
  BY DEF __ziplistInsert
<1>5. OffsetOf(zl, p) = Off(s, p)
  BY OffsetIs
<1> HIDE DEF p, e, new, vals, s
<1>6. /\ t \in Seq(ListEntries) /\ Len(t) = n + 1 /\ t[n + 1] = e
      /\ \A i \in 1 .. n : t[i] = s[i]
  BY <1>1, <1>3
<1> HIDE DEF t
<1>7. /\ Off(t, n + 1) = Off(s, n + 1)
      /\ \A i \in 1 .. n : EntryTrue(t, i)
  <2>1. Splice(s, n, n, t, n + 1, 0)
    <3>1. n <= Len(s) /\ n <= Len(t) /\ n + 1 + 0 = Len(t) /\ n + 0 = Len(s) /\ n + 1 \in Nat
          /\ 1 .. 0 = {}
      BY <1>1, <1>6 DEF n
    <3>2. \A j \in 1 .. 0 : t[n + 1 + j] = s[n + j]
      BY <3>1
    <3> QED BY <1>1, <1>6, <3>1, <3>2 DEF n, Splice
  <2> HIDE DEF n
  <2> QED BY <2>1, Spliced
<1>8. Off(t, n + 2) = Off(t, n + 1) + zipRawEntryLength(e)
  <2>1. n + 1 \in 1 .. Len(t) /\ n + 1 + 1 = n + 2
    BY <1>1, <1>6
  <2> QED BY <1>6, <2>1, OffStep
<1>9. EntryTrue(t, n + 1)
  <2>1. n + 1 # 1 => n \in 1 .. n /\ n + 1 - 1 = n
    BY <1>1
  <2> QED BY <1>1, <1>3, <1>6, <2>1 DEF EntryTrue
<1>10. LastOf(t) = n + 1
  <2>1. t # <<>>
    BY <1>1, <1>6
  <2> QED BY <1>6, <2>1 DEF LastOf
<1>11. ZiplistOK(new)
  <2>1. \A i \in 1 .. n + 1 : i # 0 /\ EntryTrue(t, i)
    <3>1. \A i \in 1 .. n + 1 : i \in 1 .. n \/ i = n + 1
      BY <1>1
    <3> QED BY <1>7, <1>9, <3>1
  <2>2. new.len = n + 1 /\ new.entries = t /\ new.tail = Off(t, LastOf(t))
    BY <1>1, <1>4, <1>5, <1>7, <1>10
  <2>3. new.bytes = Off(t, n + 2) + 1
    <3>1. Off(s, n + 1) \in Nat /\ zipRawEntryLength(e) \in Nat
      BY <1>1, <1>3, EntrySize
    <3> QED BY <1>1, <1>4, <1>7, <1>8, <3>1
  <2>4. n + 1 + 1 = n + 2
    BY <1>1
  <2>5. new = [bytes |-> new.bytes, tail |-> new.tail, len |-> new.len, entries |-> new.entries]
    BY <1>4
  <2> QED BY <1>6, <2>1, <2>2, <2>3, <2>4, <2>5 DEF ZiplistOK, WellButAt
<1>12. ZiplistValues(new) = WithAt(vals, p, v)
  <2>1. ZiplistValues(new) = [i \in 1 .. n + 1 |-> t[i].val]
    BY <1>4, <1>6 DEF ZiplistValues
  <2>2. \A i \in 1 .. n + 1 :
           t[i].val = IF i < p THEN vals[i] ELSE IF i = p THEN v ELSE vals[i - 1]
    BY <1>1, <1>3, <1>6
  <2> QED BY <1>1, <2>1, <2>2 DEF WithAt
<1> QED BY <1>11, <1>12 DEF new, vals, p

\* The empty sequence is the one without elements.
LEMMA EmptyIs == ASSUME NEW S, NEW s \in Seq(S) PROVE s = <<>> <=> Len(s) = 0
OBVIOUS

\* What a sequence is that has mid in place of what s has behind a up to c.
Instead(S, s, a, c, mid, t) ==
    LET b == a + Len(mid)
    IN  /\ t \in Seq(S) /\ Len(t) = b + (Len(s) - c)
        /\ \A i \in 1 .. a : t[i] = s[i]
        /\ \A i \in 1 .. Len(mid) : t[a + i] = mid[i]
        /\ \A j \in 1 .. Len(s) - c : t[b + j] = s[c + j]

LEMMA InsteadIs ==
    ASSUME NEW S, NEW s \in Seq(S), NEW a \in Nat, NEW c \in Nat, a <= c, c <= Len(s),
           NEW mid \in Seq(S)
    PROVE  /\ Instead(S, s, a, c, mid, SubSeq(s, 1, a) \o mid \o SubSeq(s, c + 1, Len(s)))
           /\ SubSeq(s, c + 1, Len(s)) = <<>> <=> c = Len(s)
           /\ SubSeq(s, 1, a) \in Seq(S) /\ Len(SubSeq(s, 1, a)) = a
           /\ \A i \in 1 .. a : SubSeq(s, 1, a)[i] = s[i]
<1> DEFINE before == SubSeq(s, 1, a)
           behind == SubSeq(s, c + 1, Len(s))
           n == Len(s)
           k == Len(mid)
<1>1. n \in Nat /\ k \in Nat /\ a <= n
  OBVIOUS
<1>2. before \in Seq(S) /\ Len(before) = a /\ \A i \in 1 .. a : before[i] = s[i]
  <2>1. 1 .. a \subseteq 1 .. n
    BY <1>1
  <2> QED BY <1>1, <2>1
<1>3. behind \in Seq(S) /\ Len(behind) = n - c /\ \A j \in 1 .. n - c : behind[j] = s[c + j]
  <2>1. c + 1 .. n \subseteq 1 .. n
    BY <1>1
  <2> QED BY <1>1, <2>1
<1> HIDE DEF before, behind, n, k
<1>4. /\ before \o mid \in Seq(S) /\ Len(before \o mid) = a + k
      /\ \A i \in 1 .. a : (before \o mid)[i] = s[i]
      /\ \A i \in 1 .. k : (before \o mid)[a + i] = mid[i]
  <2> DEFINE r == before \o mid
  <2>1. before \in Seq(S) /\ mid \in Seq(S) /\ Len(before) = a /\ Len(mid) = k
    BY <1>2 DEF k
  <2>2. /\ r \in Seq(S) /\ Len(r) = Len(before) + Len(mid)
        /\ \A i \in 1 .. Len(r) : r[i] = IF i <= Len(before) THEN before[i]
                                          ELSE mid[i - Len(before)]
    BY ONLY <2>1, ConcatProperties
  <2> HIDE DEF r
  <2>3. ASSUME NEW i \in 1 .. a PROVE r[i] = s[i]
    <3>1. i \in 1 .. Len(r) /\ i <= Len(before)
      BY <1>1, <2>1, <2>2
    <3> QED BY <1>2, <2>2, <3>1
  <2>4. ASSUME NEW i \in 1 .. k PROVE r[a + i] = mid[i]
    <3> DEFINE o == a + i
    <3>1. o \in 1 .. Len(r) /\ ~(o <= Len(before)) /\ o - Len(before) = i
      BY <1>1, <2>1, <2>2
    <3> HIDE DEF o
    <3>2. r[o] = mid[o - Len(before)]
      BY ONLY <2>2, <3>1
    <3> QED BY <3>1, <3>2 DEF o
  <2> QED BY <2>1, <2>2, <2>3, <2>4 DEF r
<1> DEFINE u == before \o mid
           t == u \o behind
<1>5. u \in Seq(S) /\ Len(u) = a + k /\ (\A i \in 1 .. a : u[i] = s[i])
      /\ \A i \in 1 .. k : u[a + i] = mid[i]
  BY <1>4
<1> HIDE DEF u
<1>6. /\ t \in Seq(S) /\ Len(t) = a + k + (n - c)
      /\ \A i \in 1 .. a + k : t[i] = u[i]
      /\ \A j \in 1 .. n - c : t[a + k + j] = behind[j]
  <2> DEFINE l == a + k
             r == n - c
  <2>1. r \in Nat /\ l \in Nat /\ u \in Seq(S) /\ Len(u) = l /\ behind \in Seq(S)
        /\ Len(behind) = r
    BY <1>1, <1>3, <1>5 DEF n
  <2> HIDE DEF l, r
  <2>a. /\ t \in Seq(S) /\ Len(t) = l + r
        /\ \A i \in 1 .. l + r : t[i] = IF i <= l THEN u[i] ELSE behind[i - l]
    BY <2>1, ConcatProperties
  <2> HIDE DEF t
  <2>2. t \in Seq(S) /\ Len(t) = l + r
    BY <2>a
  <2>3. ASSUME NEW i \in 1 .. l PROVE t[i] = u[i]
    <3>1. i \in 1 .. l + r /\ i <= l
      BY <2>1
    <3> QED BY <2>a, <3>1
  <2>4. \A j \in 1 .. r : t[l + j] = behind[j]
    <3> SUFFICES ASSUME NEW j \in 1 .. r PROVE t[l + j] = behind[j]
      OBVIOUS
    <3>2. \A i \in 1 .. l + r : ~(i <= l) => t[i] = behind[i - l]
      BY <2>a
    <3> DEFINE i == l + j
    <3>1. l \in Nat /\ r \in Nat /\ j \in 1 .. r
      BY <2>1
    <3>3. i \in 1 .. l + r /\ ~(i <= l) /\ i - l = j
      BY ONLY <3>1
    <3> HIDE DEF i
    <3>4. t[i] = behind[j]
      BY <3>2, <3>3
    <3> QED BY <3>4 DEF i
  <2> QED BY <2>2, <2>3, <2>4 DEF l, r
<1> HIDE DEF t
<1>7. /\ \A i \in 1 .. a : i \in 1 .. a + k
      /\ \A i \in 1 .. k : a + i \in 1 .. a + k
  BY <1>1
<1>8. Instead(S, s, a, c, mid, t)
  BY <1>3, <1>5, <1>6, <1>7 DEF Instead, n, k
<1>9. behind = <<>> <=> c = n
  <2>1. c = n <=> Len(behind) = 0
    BY <1>1, <1>3 DEF n
  <2> QED BY <1>3, <2>1
<1> QED BY <1>2, <1>8, <1>9 DEF t, u, before, behind, n

\* Inserting before an entry: it knows the new one, and the one behind it is
\* told by the cascade if it grew.
LEMMA InsertBefore ==
    ASSUME NEW zl, ZiplistOK(zl), NEW v \in ListValues, NEW p \in 1 .. Len(zl.entries)
    PROVE  LET new == __ziplistInsert(zl, p, v)
           IN  ZiplistOK(new) /\ ZiplistValues(new) = WithAt(ZiplistValues(zl), p, v)
<1> DEFINE s == zl.entries
           n == Len(s)
           e == NewEntry(zl, p, v)
           x == zipRawEntryLength(e)
           d == NextDiff(zl, p, v)
           f == [s[p] EXCEPT !.prevlen = x, !.prevsize = @ + d]
           behind == SubSeq(s, p + 1, Len(s))
           t == SubSeq(s, 1, p - 1) \o <<e, f>> \o behind
           opened == [bytes |-> zl.bytes + x + d,
                      tail |-> zl.tail + x + (IF behind = <<>> THEN 0 ELSE d),
                      len |-> zl.len + 1, entries |-> t]
           new == __ziplistInsert(zl, p, v)
           vals == ZiplistValues(zl)
<1>1. /\ s \in Seq(ListEntries) /\ n \in Nat /\ zl.len = n /\ End(zl) = n + 1
      /\ zl.bytes = Off(s, n + 1) + 1 /\ zl.tail = Off(s, LastOf(s))
      /\ \A i \in 1 .. n : EntryTrue(s, i) /\ s[i] \in ListEntries
      /\ vals = [i \in 1 .. n |-> s[i].val] /\ Len(vals) = n
      /\ \A i \in 1 .. n + 1 : Off(s, i) \in Nat
  BY ZiplistParts
<1>2. p \in 1 .. n /\ p \in 1 .. End(zl) /\ p # End(zl)
  BY <1>1
<1>3. /\ e \in ListEntries /\ e.val = v /\ Fitting(e) /\ x \in Nat
      /\ e.prevlen = IF p = 1 THEN 0 ELSE zipRawEntryLength(s[p - 1])
  <2>1. /\ e \in ListEntries /\ e.val = v /\ Fitting(e)
        /\ e.prevlen = IF p = 1 THEN 0 ELSE zipRawEntryLength(s[p - 1])
    BY <1>2, NewEntryIs
  <2> HIDE DEF e
  <2> QED BY <2>1, EntrySize
<1>4. d = zipPrevEncodeLength(x) - s[p].prevsize
  BY <1>2 DEF NextDiff
<1>5. new = IF d = 0 THEN opened ELSE __ziplistCascadeUpdate(opened, p + 1)
  BY <1>2 DEF __ziplistInsert
<1> HIDE DEF e, x, d, new, vals
<1>6. /\ d \in Int /\ f \in ListEntries /\ Fitting(f) /\ f.prevlen = x /\ f.val = s[p].val
      /\ zipRawEntryLength(f) = zipRawEntryLength(s[p]) + d
  <2> DEFINE old == s[p]
  <2>1. old \in ListEntries /\ x \in Nat /\ d = zipPrevEncodeLength(x) - old.prevsize
    BY <1>1, <1>2, <1>3, <1>4
  <2> HIDE DEF old
  <2> DEFINE g == Refit(old, x, d)
  <2>2. /\ d \in Int /\ g \in ListEntries /\ Fitting(g) /\ g.prevlen = x /\ g.val = old.val
        /\ zipRawEntryLength(g) = zipRawEntryLength(old) + d
    BY ONLY <2>1, Refitted
  <2> QED BY <2>2 DEF old, Refit
<1> HIDE DEF f, s, n
<1>7. /\ t \in Seq(ListEntries) /\ Len(t) = n + 1
      /\ (\A i \in 1 .. p - 1 : t[i] = s[i]) /\ t[p] = e /\ t[p + 1] = f
      /\ (\A j \in 1 .. n - p : t[p + 1 + j] = s[p + j])
      /\ (behind = <<>> <=> p = n)
  <2> DEFINE mid == <<e, f>>
             a == p - 1
  <2>1. /\ mid \in Seq(ListEntries) /\ Len(mid) = 2 /\ mid[1] = e /\ mid[2] = f
        /\ a \in Nat /\ p \in Nat /\ a <= p /\ p <= Len(s) /\ a + 1 = p /\ a + 2 = p + 1
    BY <1>1, <1>2, <1>3, <1>6 DEF n
  <2> HIDE DEF mid, a
  <2> DEFINE w == SubSeq(s, 1, a) \o mid \o SubSeq(s, p + 1, Len(s))
  <2>2. t = w /\ behind = SubSeq(s, p + 1, Len(s))
    BY DEF mid, a
  <2>3. Instead(ListEntries, s, a, p, mid, w) /\ (SubSeq(s, p + 1, Len(s)) = <<>> <=> p = Len(s))
    <3>1. s \in Seq(ListEntries) /\ a \in Nat /\ p \in Nat /\ a <= p /\ p <= Len(s)
          /\ mid \in Seq(ListEntries)
      BY <1>1, <2>1
    <3> QED BY ONLY <3>1, InsteadIs
  <2> HIDE DEF w, t, behind
  <2>4. /\ t \in Seq(ListEntries) /\ Len(t) = a + Len(mid) + (Len(s) - p)
        /\ \A i \in 1 .. a : t[i] = s[i]
        /\ \A i \in 1 .. Len(mid) : t[a + i] = mid[i]
        /\ \A j \in 1 .. Len(s) - p : t[a + Len(mid) + j] = s[p + j]
    BY <2>2, <2>3 DEF Instead
  <2>5. t[a + 1] = e /\ t[a + 2] = f /\ a + Len(mid) = p + 1
    BY <2>1, <2>4
  <2>6. Len(t) = n + 1
    <3>1. Len(t) = a + 2 + (n - p) /\ a + 1 = p /\ n \in Nat /\ a \in Nat /\ p \in Nat
      BY <1>1, <2>1, <2>4 DEF n
    <3> QED BY ONLY <3>1
  <2>7. \A j \in 1 .. n - p : t[p + 1 + j] = s[p + j]
    BY <2>4, <2>5 DEF n
  <2> QED BY <2>1, <2>2, <2>3, <2>4, <2>5, <2>6, <2>7 DEF a, n
<1> HIDE DEF t, behind
<1> DEFINE m == n - p
<1>9. Splice(s, p - 1, p, t, p + 1, m)
  <2>1. /\ p - 1 \in Nat /\ p - 1 <= Len(s) /\ p - 1 <= Len(t) /\ m \in Nat
        /\ p + 1 \in Nat /\ p + 1 + m = Len(t) /\ p \in Nat /\ p + m = Len(s)
    BY <1>1, <1>2, <1>7 DEF n
  <2>2. \A i \in 1 .. Len(s) : EntryTrue(s, i)
    BY <1>1 DEF n
  <2>3. \A j \in 1 .. m : t[p + 1 + j] = s[p + j]
    BY <1>7
  <2> HIDE DEF m
  <2> QED BY <1>1, <1>7, <2>1, <2>2, <2>3 DEF Splice
<1>10. /\ Off(t, p) = Off(s, p)
       /\ Off(t, n + 2) - Off(t, p + 2) = Off(s, n + 1) - Off(s, p + 1)
       /\ p # n => Off(t, n + 1) - Off(t, p + 2) = Off(s, n) - Off(s, p + 1)
       /\ \A i \in 1 .. p - 1 : EntryTrue(t, i)
       /\ \A i \in p + 3 .. n + 1 : EntryTrue(t, i)
       /\ p # n => Fitting(t[p + 2])
       /\ p # n /\ d = 0 => EntryTrue(t, p + 2)
  <2> DEFINE a == p - 1
             b == p + 1
  <2>1. Splice(s, a, p, t, b, m)
    BY <1>9
  <2>2. /\ a + 1 = p /\ b + m + 1 = n + 2 /\ b + 1 = p + 2 /\ p + m + 1 = n + 1
        /\ b + m = n + 1 /\ p + m = n /\ b + 2 = p + 3 /\ (m # 0 <=> p # n) /\ b # 0 /\ p # 0
    BY <1>1, <1>2
  <2>3. d = 0 => zipRawEntryLength(t[b]) = zipRawEntryLength(s[p])
    <3>1. zipRawEntryLength(s[p]) \in Nat
      BY <1>1, <1>2, EntrySize
    <3> QED BY <1>6, <1>7, <3>1
  <2> HIDE DEF a, b, m
  <2>4. /\ Off(t, a + 1) = Off(s, a + 1)
        /\ Off(t, b + m + 1) - Off(t, b + 1) = Off(s, p + m + 1) - Off(s, p + 1)
        /\ m # 0 => Off(t, b + m) - Off(t, b + 1) = Off(s, p + m) - Off(s, p + 1)
        /\ \A i \in 1 .. a : EntryTrue(t, i)
        /\ \A i \in b + 2 .. b + m : EntryTrue(t, i)
        /\ m # 0 => Fitting(t[b + 1])
        /\ m # 0 /\ b # 0 /\ p # 0 /\ zipRawEntryLength(t[b]) = zipRawEntryLength(s[p])
              => EntryTrue(t, b + 1)
    BY ONLY <2>1, Spliced
  <2> QED BY <2>2, <2>3, <2>4 DEF a
<1>11. /\ Off(t, p + 1) = Off(t, p) + x
       /\ Off(t, p + 2) = Off(t, p + 1) + zipRawEntryLength(f)
       /\ Off(s, p + 1) = Off(s, p) + zipRawEntryLength(s[p])
       /\ zipRawEntryLength(s[p]) \in Nat
  <2>1. p \in 1 .. Len(t) /\ p + 1 \in 1 .. Len(t) /\ p + 1 + 1 = p + 2 /\ p \in 1 .. Len(s)
    <3>1. Len(t) = n + 1 /\ Len(s) = n /\ n \in Nat /\ p \in 1 .. n
      BY <1>1, <1>2, <1>7 DEF n
    <3> QED BY ONLY <3>1
  <2>2. /\ Off(t, p + 1) = Off(t, p) + zipRawEntryLength(t[p])
        /\ Off(t, p + 1 + 1) = Off(t, p + 1) + zipRawEntryLength(t[p + 1])
    BY <1>7, <2>1, OffStep
  <2>3. Off(s, p + 1) = Off(s, p) + zipRawEntryLength(s[p])
    BY <1>1, <2>1, OffStep
  <2>4. zipRawEntryLength(s[p]) \in Nat
    BY <1>1, <1>2, EntrySize
  <2> QED BY <1>7, <2>1, <2>2, <2>3, <2>4 DEF x
<1>12. /\ Off(t, n + 2) = Off(s, n + 1) + x + d
       /\ p # n => Off(t, n + 1) = Off(s, n) + x + d
       /\ p = n => Off(t, n + 1) = Off(s, n) + x
       /\ Off(s, n + 1) \in Nat /\ Off(s, n) \in Nat
  <2>1. n \in 1 .. n + 1 /\ n + 1 \in 1 .. n + 1 /\ p \in 1 .. n + 1 /\ p + 1 \in 1 .. n + 1
    BY <1>1, <1>2
  <2>2. Off(s, n + 1) \in Nat /\ Off(s, n) \in Nat /\ Off(s, p) \in Nat /\ Off(s, p + 1) \in Nat
    BY <1>1, <2>1
  <2>3. Off(t, p + 2) = Off(s, p + 1) + x + d /\ Off(t, p + 2) \in Int
    <3> DEFINE a == Off(t, p)
               b == Off(t, p + 1)
               c == zipRawEntryLength(s[p])
               g == zipRawEntryLength(f)
               k == Off(s, p + 1)
               l == Off(t, p + 2)
    <3>1. /\ a \in Nat /\ x \in Nat /\ c \in Nat /\ d \in Int
          /\ b = a + x /\ l = b + g /\ g = c + d /\ k = a + c
      BY <1>3, <1>6, <1>10, <1>11, <2>2
    <3> HIDE DEF a, b, c, g, k, l
    <3>2. l = k + x + d /\ l \in Int
      BY ONLY <3>1
    <3> QED BY <3>2 DEF k, l
  <2>4. n + 2 \in 1 .. Len(t) + 1 /\ n + 1 \in 1 .. Len(t) + 1
    BY <1>1, <1>7
  <2>5. Off(t, n + 2) \in Nat /\ Off(t, n + 1) \in Nat
    BY <1>7, <2>4, OffStep
  <2>6. p = n => Off(t, n + 1) = Off(s, n) + x
    BY <1>10, <1>11
  <2> DEFINE A == Off(t, n + 2)
             B == Off(t, n + 1)
             C == Off(s, n + 1)
             D == Off(s, n)
             E == Off(s, p + 1)
             F == Off(t, p + 2)
  <2>a. /\ A \in Nat /\ B \in Nat /\ C \in Nat /\ D \in Nat /\ E \in Nat /\ F \in Int
        /\ x \in Nat /\ d \in Int /\ F = E + x + d /\ A - F = C - E
        /\ p # n => B - F = D - E
    BY <1>3, <1>6, <1>10, <2>2, <2>3, <2>5
  <2> HIDE DEF A, B, C, D, E, F
  <2>b. A = C + x + d /\ (p # n => B = D + x + d)
    BY ONLY <2>a
  <2>7. Off(t, n + 2) = Off(s, n + 1) + x + d
    BY <2>b DEF A, C
  <2>8. p # n => Off(t, n + 1) = Off(s, n) + x + d
    BY <2>b DEF B, D
  <2> QED BY <2>2, <2>6, <2>7, <2>8
<1>13. EntryTrue(t, p) /\ EntryTrue(t, p + 1)
  <2>1. p # 1 => p - 1 \in 1 .. p - 1
    BY <1>2
  <2>2. p + 1 # 1 /\ p + 1 - 1 = p
    BY <1>2
  <2> QED BY <1>3, <1>6, <1>7, <2>1, <2>2 DEF EntryTrue, x
<1>14. /\ opened.entries = t /\ opened.len = n + 1 /\ opened.bytes = Off(t, n + 2) + 1
       /\ opened.tail = Off(t, LastOf(t))
       /\ opened = [bytes |-> opened.bytes, tail |-> opened.tail, len |-> opened.len,
                    entries |-> opened.entries]
  <2>1. LastOf(t) = n + 1 /\ LastOf(s) = n
    <3>0. n >= 1 /\ Len(t) = n + 1
      BY <1>1, <1>2, <1>7
    <3>1. Len(t) # 0 /\ Len(s) # 0
      BY <1>1, <3>0 DEF n
    <3>2. t # <<>> /\ s # <<>>
      BY <1>1, <1>7, <3>1, EmptyIs
    <3> QED BY <1>7, <3>2 DEF LastOf, n
  <2>2. zl.tail = Off(s, n)
    BY <1>1, <2>1
  <2>3. opened.tail = Off(t, n + 1)
    BY <1>3, <1>6, <1>7, <1>12, <2>2
  <2>4. opened.bytes = Off(t, n + 2) + 1
    BY <1>1, <1>3, <1>6, <1>12
  <2> QED BY <1>1, <2>1, <2>3, <2>4
<1> HIDE DEF opened
<1>15. WellButAt(opened, p + 2)
  <2>1. \A i \in 1 .. n + 1 : IF i = p + 2 THEN Fitting(t[i]) ELSE EntryTrue(t, i)
    <3> TAKE i \in 1 .. n + 1
    <3>1. \/ i \in 1 .. p - 1 \/ i = p \/ i = p + 1 \/ (i = p + 2 /\ p # n)
          \/ i \in p + 3 .. n + 1
      BY <1>1, <1>2
    <3>2. i = p + 2 => Fitting(t[i])
      BY <1>1, <1>2, <1>10
    <3> QED BY <1>10, <1>13, <3>1, <3>2
  <2>2. n + 1 + 1 = n + 2
    BY <1>1
  <2> QED BY <1>7, <1>14, <2>1, <2>2 DEF WellButAt
<1>16. d = 0 => ZiplistOK(opened)
  <2> HAVE d = 0
  <2>1. p + 2 \in Nat /\ (p + 2 > Len(opened.entries) \/ EntryTrue(opened.entries, p + 2))
    BY <1>1, <1>2, <1>7, <1>10, <1>14
  <2> QED BY <1>15, <2>1, CascadeOver
<1>17. ZiplistValues(opened) = WithAt(vals, p, v)
  <2>1. ZiplistValues(opened) = [i \in 1 .. n + 1 |-> t[i].val]
    BY <1>7, <1>14 DEF ZiplistValues
  <2>2. \A i \in 1 .. n + 1 :
           t[i].val = IF i < p THEN vals[i] ELSE IF i = p THEN v ELSE vals[i - 1]
    <3> TAKE i \in 1 .. n + 1
    <3>1. CASE i < p
      <4>1. i \in 1 .. p - 1 /\ i \in 1 .. n
        BY <1>1, <1>2, <3>1
      <4> QED BY <1>1, <1>7, <3>1, <4>1
    <3>2. CASE i = p
      BY <1>3, <1>7, <3>2
    <3>3. CASE i = p + 1
      <4>1. i - 1 = p /\ ~(i < p) /\ i # p
        BY <1>1, <1>2, <3>3
      <4> QED BY <1>1, <1>2, <1>6, <1>7, <3>3, <4>1
    <3>4. CASE i > p + 1
      <4> DEFINE j == i - (p + 1)
      <4>1. j \in 1 .. n - p /\ p + 1 + j = i /\ p + j = i - 1 /\ i - 1 \in 1 .. n
            /\ ~(i < p) /\ i # p
        BY <1>1, <1>2, <3>4
      <4> HIDE DEF j
      <4>2. t[i] = s[i - 1]
        BY <1>7, <4>1
      <4> QED BY <1>1, <4>1, <4>2
    <3>5. i < p \/ i = p \/ i = p + 1 \/ i > p + 1
      <4>1. i \in Int /\ p \in Int
        BY <1>1, <1>2
      <4> QED BY ONLY <4>1
    <3> QED BY ONLY <3>1, <3>2, <3>3, <3>4, <3>5
  <2> QED BY <1>1, <2>1, <2>2 DEF WithAt
<1>18. ZiplistOK(new) /\ ZiplistValues(new) = WithAt(vals, p, v)
  <2>1. CASE d = 0
    BY <1>5, <1>16, <1>17, <2>1
  <2>2. CASE d # 0
    <3> DEFINE k == p + 1
               c == __ziplistCascadeUpdate(opened, k)
    <3>1. k \in 1 .. Len(opened.entries) /\ WellButAt(opened, k + 1)
      BY <1>1, <1>2, <1>7, <1>14, <1>15
    <3> HIDE DEF k
    <3>2. ZiplistOK(c) /\ ZiplistValues(c) = ZiplistValues(opened)
      BY ONLY <3>1, CascadeHolds
    <3> QED BY <1>5, <1>17, <2>2, <3>2 DEF k
  <2> QED BY <2>1, <2>2
<1> QED BY <1>18 DEF new, vals

\* An insert anywhere.
LEMMA InsertHolds ==
    ASSUME NEW zl, ZiplistOK(zl), NEW v \in ListValues, NEW p \in 1 .. End(zl)
    PROVE  LET new == __ziplistInsert(zl, p, v)
           IN  ZiplistOK(new) /\ ZiplistValues(new) = WithAt(ZiplistValues(zl), p, v)
<1>1. End(zl) = Len(zl.entries) + 1 /\ Len(zl.entries) \in Nat
  BY ZiplistParts
<1>2. p = End(zl) \/ p \in 1 .. Len(zl.entries)
  BY <1>1
<1> QED BY <1>2, InsertAtEnd, InsertBefore

\* Where a delete of num entries from p on ends.
DeleteEnd(zl, p, num) == IF p + num < End(zl) THEN p + num ELSE End(zl)

\* Deleting the last entries.
LEMMA DeleteTail ==
    ASSUME NEW zl, ZiplistOK(zl), NEW p \in 1 .. Len(zl.entries), NEW num \in Nat,
           p + num >= End(zl)
    PROVE  LET new == __ziplistDelete(zl, p, num)
           IN  /\ ZiplistOK(new)
               /\ ZiplistValues(new) = WithoutFrom(ZiplistValues(zl), p, End(zl))
<1> DEFINE s == zl.entries
           n == Len(s)
           t == SubSeq(s, 1, p - 1)
           q == End(zl)
           new == __ziplistDelete(zl, p, num)
           vals == ZiplistValues(zl)
<1>1. /\ s \in Seq(ListEntries) /\ n \in Nat /\ zl.len = n /\ q = n + 1
      /\ zl.bytes = Off(s, n + 1) + 1
      /\ \A i \in 1 .. n : EntryTrue(s, i) /\ s[i] \in ListEntries
      /\ vals = [i \in 1 .. n |-> s[i].val] /\ Len(vals) = n
      /\ \A i \in 1 .. n + 1 : Off(s, i) \in Nat
  BY ZiplistParts
<1>2. new = [bytes |-> zl.bytes - Span(zl, p, q), tail |-> OffsetOf(zl, p) - s[p].prevlen,
             len |-> zl.len - (q - p), entries |-> t]
  <2>1. (IF p + num < End(zl) THEN p + num ELSE End(zl)) = q
    BY <1>1
  <2>2. ~(q - p <= 0)
    BY <1>1
  <2> HIDE DEF q
  <2> QED BY <2>1, <2>2 DEF __ziplistDelete, q
<1>3. OffsetOf(zl, p) = Off(s, p) /\ Span(zl, p, q) = Off(s, q) - Off(s, p)
  BY OffsetIs DEF Span
<1>b. p \in 1 .. n /\ p \in Nat /\ Len(s) = n
  BY <1>1
<1> HIDE DEF q, new, vals, s, n
<1>4. t \in Seq(ListEntries) /\ Len(t) = p - 1 /\ \A i \in 1 .. p - 1 : t[i] = s[i]
  <2> DEFINE a == p - 1
  <2>1. a \in Nat /\ a <= Len(s) /\ Len(s) \in Nat /\ s \in Seq(ListEntries)
        /\ <<>> \in Seq(ListEntries)
    BY <1>1, <1>b
  <2> HIDE DEF a
  <2>2. SubSeq(s, 1, a) \in Seq(ListEntries) /\ Len(SubSeq(s, 1, a)) = a
        /\ \A i \in 1 .. a : SubSeq(s, 1, a)[i] = s[i]
    BY ONLY <2>1, InsteadIs
  <2> QED BY <2>2 DEF a
<1> HIDE DEF t
<1>5. Splice(s, p - 1, n, t, p - 1, 0)
  <2>1. /\ p - 1 \in Nat /\ p - 1 <= Len(s) /\ p - 1 <= Len(t) /\ 0 \in Nat
        /\ p - 1 + 0 = Len(t) /\ n \in Nat /\ n + 0 = Len(s) /\ 1 .. 0 = {}
    BY <1>1, <1>b, <1>4
  <2>2. \A i \in 1 .. Len(s) : EntryTrue(s, i)
    BY <1>1, <1>b
  <2>3. \A j \in 1 .. 0 : t[p - 1 + j] = s[n + j]
    BY <2>1
  <2> HIDE DEF n
  <2> QED BY <1>1, <1>4, <2>1, <2>2, <2>3 DEF Splice
<1>6. Off(t, p) = Off(s, p) /\ (p # 1 => Off(t, p - 1) = Off(s, p - 1))
      /\ \A i \in 1 .. p - 1 : EntryTrue(t, i)
  <2> DEFINE a == p - 1
  <2>1. Splice(s, a, n, t, a, 0) /\ a + 1 = p /\ (a = 0 <=> p = 1)
    BY <1>5
  <2> HIDE DEF a, n
  <2>2. Off(t, a + 1) = Off(s, a + 1) /\ (a # 0 => Off(t, a) = Off(s, a))
        /\ \A i \in 1 .. a : EntryTrue(t, i)
    BY ONLY <2>1, Spliced
  <2> QED BY <2>1, <2>2 DEF a
<1>7. new.tail = Off(t, LastOf(t))
  <2>1. LastOf(t) = IF p = 1 THEN 1 ELSE p - 1
    <3>1. t = <<>> <=> p = 1
      BY <1>4, EmptyIs
    <3> QED BY <1>4, <3>1 DEF LastOf
  <2>2. EntryTrue(s, p) /\ Off(s, p) \in Nat
    BY <1>1, <1>b
  <2>3. CASE p = 1
    BY <1>2, <1>3, <1>6, <2>1, <2>2, <2>3 DEF EntryTrue
  <2>4. CASE p # 1
    <3> DEFINE o == p - 1
    <3>1. o \in 1 .. n /\ o \in 1 .. n + 1 /\ o + 1 = p
      BY <1>1, <1>b, <2>4
    <3> HIDE DEF o
    <3>2. Off(s, o + 1) = Off(s, o) + zipRawEntryLength(s[o])
      BY <1>1, <1>b, <3>1, OffStep
    <3>3. Off(s, o) \in Nat /\ zipRawEntryLength(s[o]) \in Nat
      BY <1>1, <3>1, EntrySize
    <3>4. s[p].prevlen = zipRawEntryLength(s[o])
      BY <2>2, <2>4 DEF EntryTrue, o
    <3>5. new.tail = Off(s, o)
      BY <1>2, <1>3, <3>1, <3>2, <3>3, <3>4
    <3> QED BY <1>6, <2>1, <2>4, <3>5 DEF o
  <2> QED BY <2>3, <2>4
<1>8. new.bytes = Off(t, p) + 1 /\ new.len = p - 1 /\ new.entries = t
  <2>1. p \in 1 .. n + 1 /\ n + 1 \in 1 .. n + 1
    BY <1>1, <1>b
  <2>2. Off(s, p) \in Nat /\ Off(s, n + 1) \in Nat
    BY <1>1, <2>1
  <2> QED BY <1>1, <1>2, <1>3, <1>6, <2>2
<1>9. ZiplistOK(new)
  <2>1. p - 1 + 1 = p /\ \A i \in 1 .. p - 1 : i # 0
    OBVIOUS
  <2>2. new = [bytes |-> new.bytes, tail |-> new.tail, len |-> new.len, entries |-> new.entries]
    BY <1>2
  <2> QED BY <1>4, <1>6, <1>7, <1>8, <2>1, <2>2 DEF ZiplistOK, WellButAt
<1>10. ZiplistValues(new) = WithoutFrom(vals, p, q)
  <2>1. ZiplistValues(new) = [i \in 1 .. p - 1 |-> t[i].val]
    BY <1>4, <1>8 DEF ZiplistValues
  <2>2. \A i \in 1 .. p - 1 : i < p /\ i \in 1 .. n
    BY <1>1, <1>b
  <2>3. \A i \in 1 .. p - 1 : t[i].val = IF i < p THEN vals[i] ELSE vals[i + (q - p)]
    BY <1>1, <1>4, <2>2
  <2>4. Len(vals) - (q - p) = p - 1
    BY <1>1
  <2> QED BY <2>1, <2>3, <2>4 DEF WithoutFrom
<1> QED BY <1>9, <1>10 DEF new, vals, q

\* Deleting in the middle: the entry behind takes over the length that the
\* first deleted one held.
LEMMA DeleteInside ==
    ASSUME NEW zl, ZiplistOK(zl), NEW p \in 1 .. Len(zl.entries), NEW num \in Nat \ {0},
           p + num < End(zl)
    PROVE  LET new == __ziplistDelete(zl, p, num)
           IN  /\ ZiplistOK(new)
               /\ ZiplistValues(new) = WithoutFrom(ZiplistValues(zl), p, p + num)
<1> DEFINE s == zl.entries
           n == Len(s)
           q == p + num
           x == s[p].prevlen
           d == zipPrevEncodeLength(x) - s[q].prevsize
           f == [s[q] EXCEPT !.prevlen = x, !.prevsize = @ + d]
           behind == SubSeq(s, q + 1, Len(s))
           t == SubSeq(s, 1, p - 1) \o <<f>> \o behind
           closed == [bytes |-> zl.bytes - Span(zl, p, q) + d,
                      tail |-> zl.tail - Span(zl, p, q) + (IF behind = <<>> THEN 0 ELSE d),
                      len |-> zl.len - (q - p), entries |-> t]
           new == __ziplistDelete(zl, p, num)
           vals == ZiplistValues(zl)
<1>1. /\ s \in Seq(ListEntries) /\ n \in Nat /\ zl.len = n /\ End(zl) = n + 1
      /\ zl.bytes = Off(s, n + 1) + 1 /\ zl.tail = Off(s, LastOf(s))
      /\ \A i \in 1 .. n : EntryTrue(s, i) /\ s[i] \in ListEntries
      /\ vals = [i \in 1 .. n |-> s[i].val] /\ Len(vals) = n
      /\ \A i \in 1 .. n + 1 : Off(s, i) \in Nat
  BY ZiplistParts
<1>2. p \in 1 .. n /\ q \in 1 .. n /\ p < q /\ q # End(zl) /\ ~(q - p <= 0) /\ q - p \in Nat
  BY <1>1
<1>3. new = IF d = 0 THEN closed ELSE __ziplistCascadeUpdate(closed, p)
  <2>1. (IF p + num < End(zl) THEN p + num ELSE End(zl)) = q
    BY <1>1
  <2> HIDE DEF q
  <2> QED BY <1>2, <2>1 DEF __ziplistDelete
<1>4. Span(zl, p, q) = Off(s, q) - Off(s, p)
  BY OffsetIs DEF Span
<1> HIDE DEF q
<1>5. /\ x \in Nat /\ d \in Int /\ f \in ListEntries /\ Fitting(f) /\ f.prevlen = x
      /\ f.val = s[q].val /\ zipRawEntryLength(f) = zipRawEntryLength(s[q]) + d
  <2> DEFINE old == s[q]
             g == Refit(old, x, d)
  <2>1. old \in ListEntries /\ x \in Nat /\ d = zipPrevEncodeLength(x) - old.prevsize
    <3>1. s[p] \in ListEntries /\ s[q] \in ListEntries
      BY <1>1, <1>2
    <3> QED BY <3>1, EntrySize
  <2> HIDE DEF old, x, d
  <2>2. /\ d \in Int /\ g \in ListEntries /\ Fitting(g) /\ g.prevlen = x /\ g.val = old.val
        /\ zipRawEntryLength(g) = zipRawEntryLength(old) + d
    BY ONLY <2>1, Refitted
  <2> QED BY <2>1, <2>2 DEF old, Refit
<1> HIDE DEF new, vals, d
<1>a. x = IF p = 1 THEN 0 ELSE zipRawEntryLength(s[p - 1])
  BY <1>1, <1>2 DEF EntryTrue
<1>b. Len(s) = n
  OBVIOUS
<1> HIDE DEF x, f, s, n
<1>7. /\ t \in Seq(ListEntries) /\ Len(t) = p + (n - q)
      /\ (\A i \in 1 .. p - 1 : t[i] = s[i]) /\ t[p] = f
      /\ (\A j \in 1 .. n - q : t[p + j] = s[q + j])
      /\ (behind = <<>> <=> q = n)
  <2> DEFINE mid == <<f>>
             a == p - 1
             w == SubSeq(s, 1, a) \o mid \o SubSeq(s, q + 1, Len(s))
  <2>1. /\ mid \in Seq(ListEntries) /\ Len(mid) = 1 /\ mid[1] = f
        /\ a \in Nat /\ q \in Nat /\ a <= q /\ q <= Len(s) /\ a + 1 = p
    BY <1>1, <1>2, <1>5 DEF n
  <2>2. t = w /\ behind = SubSeq(s, q + 1, Len(s))
    BY DEF mid, a
  <2> HIDE DEF mid, a
  <2>3. Instead(ListEntries, s, a, q, mid, w) /\ (SubSeq(s, q + 1, Len(s)) = <<>> <=> q = Len(s))
    <3>1. s \in Seq(ListEntries) /\ a \in Nat /\ q \in Nat /\ a <= q /\ q <= Len(s)
          /\ mid \in Seq(ListEntries)
      BY <1>1, <2>1
    <3> QED BY ONLY <3>1, InsteadIs
  <2> HIDE DEF w, t, behind
  <2>4. /\ t \in Seq(ListEntries) /\ Len(t) = a + Len(mid) + (Len(s) - q)
        /\ \A i \in 1 .. a : t[i] = s[i]
        /\ \A i \in 1 .. Len(mid) : t[a + i] = mid[i]
        /\ \A j \in 1 .. Len(s) - q : t[a + Len(mid) + j] = s[q + j]
    BY <2>2, <2>3 DEF Instead
  <2>5. t[a + 1] = f /\ a + Len(mid) = p
    BY <2>1, <2>4
  <2>6. Len(t) = p + (n - q)
    BY <2>4, <2>5 DEF n
  <2>7. \A j \in 1 .. n - q : t[p + j] = s[q + j]
    BY <2>4, <2>5 DEF n
  <2> QED BY <2>1, <2>2, <2>3, <2>4, <2>5, <2>6, <2>7 DEF a, n
<1> HIDE DEF t, behind
<1> DEFINE m == n - q
<1>9. Splice(s, p - 1, q, t, p, m)
  <2>1. /\ p - 1 \in Nat /\ p - 1 <= Len(s) /\ p - 1 <= Len(t) /\ m \in Nat
        /\ p \in Nat /\ p + m = Len(t) /\ q \in Nat /\ q + m = Len(s)
    <3>1. p \in 1 .. n /\ q \in 1 .. n /\ n \in Nat
      BY <1>1, <1>2
    <3>2. Len(t) = p + m /\ Len(s) = n
      BY <1>b, <1>7
    <3> QED BY ONLY <3>1, <3>2 DEF m
  <2>2. \A i \in 1 .. Len(s) : EntryTrue(s, i)
    BY <1>1 DEF n
  <2>3. \A j \in 1 .. m : t[p + j] = s[q + j]
    BY <1>7
  <2> HIDE DEF m
  <2> QED BY <1>1, <1>7, <2>1, <2>2, <2>3 DEF Splice
<1>10. /\ Off(t, p) = Off(s, p)
       /\ Off(t, p + m + 1) - Off(t, p + 1) = Off(s, n + 1) - Off(s, q + 1)
       /\ q # n => Off(t, p + m) - Off(t, p + 1) = Off(s, n) - Off(s, q + 1)
       /\ \A i \in 1 .. p - 1 : EntryTrue(t, i)
       /\ \A i \in p + 2 .. p + m : EntryTrue(t, i)
       /\ q # n => Fitting(t[p + 1])
       /\ q # n /\ d = 0 => EntryTrue(t, p + 1)
  <2> DEFINE a == p - 1
  <2>1. Splice(s, a, q, t, p, m)
    BY <1>9
  <2>2. /\ a + 1 = p /\ q + m + 1 = n + 1
        /\ q + m = n /\ (m # 0 <=> q # n) /\ q # 0 /\ p # 0
    BY <1>1, <1>2
  <2>3. d = 0 => zipRawEntryLength(t[p]) = zipRawEntryLength(s[q])
    <3>1. zipRawEntryLength(s[q]) \in Nat
      BY <1>1, <1>2, EntrySize
    <3> QED BY <1>5, <1>7, <3>1
  <2> HIDE DEF a, m
  <2>4. /\ Off(t, a + 1) = Off(s, a + 1)
        /\ Off(t, p + m + 1) - Off(t, p + 1) = Off(s, q + m + 1) - Off(s, q + 1)
        /\ m # 0 => Off(t, p + m) - Off(t, p + 1) = Off(s, q + m) - Off(s, q + 1)
        /\ \A i \in 1 .. a : EntryTrue(t, i)
        /\ \A i \in p + 2 .. p + m : EntryTrue(t, i)
        /\ m # 0 => Fitting(t[p + 1])
        /\ m # 0 /\ p # 0 /\ q # 0 /\ zipRawEntryLength(t[p]) = zipRawEntryLength(s[q])
              => EntryTrue(t, p + 1)
    BY ONLY <2>1, Spliced
  <2> QED BY <2>2, <2>3, <2>4 DEF a
<1>11. /\ Off(t, p + 1) = Off(t, p) + zipRawEntryLength(f)
       /\ Off(s, q + 1) = Off(s, q) + zipRawEntryLength(s[q])
       /\ zipRawEntryLength(s[q]) \in Nat
  <2>1. p \in 1 .. Len(t) /\ q \in 1 .. Len(s)
    BY <1>1, <1>2, <1>b, <1>7
  <2>2. Off(t, p + 1) = Off(t, p) + zipRawEntryLength(t[p])
    BY <1>7, <2>1, OffStep
  <2>3. Off(s, q + 1) = Off(s, q) + zipRawEntryLength(s[q])
    BY <1>1, <2>1, OffStep
  <2>4. zipRawEntryLength(s[q]) \in Nat
    BY <1>1, <1>2, EntrySize
  <2> QED BY <1>7, <2>2, <2>3, <2>4
<1> DEFINE gone == Off(s, q) - Off(s, p)
<1>12. /\ Off(t, p + m + 1) = Off(s, n + 1) - gone + d
       /\ q # n => Off(t, p + m) = Off(s, n) - gone + d
       /\ q = n => Off(t, p + m) = Off(s, n) - gone
       /\ Off(s, n + 1) \in Nat /\ Off(s, n) \in Nat /\ gone \in Int
  <2>1. n \in 1 .. n + 1 /\ n + 1 \in 1 .. n + 1 /\ p \in 1 .. n + 1 /\ q \in 1 .. n + 1
    BY <1>1, <1>2
  <2>2. Off(s, n + 1) \in Nat /\ Off(s, n) \in Nat /\ Off(s, p) \in Nat /\ Off(s, q) \in Nat
    BY <1>1, <2>1
  <2>3. p + m + 1 \in 1 .. Len(t) + 1 /\ p + m \in 1 .. Len(t) + 1
    BY <1>1, <1>2, <1>7
  <2>4. Off(t, p + m + 1) \in Nat /\ Off(t, p + m) \in Nat
    BY <1>7, <2>3, OffStep
  <2> DEFINE A == Off(t, p + m + 1)
             B == Off(t, p + m)
             C == Off(s, n + 1)
             D == Off(s, n)
             E == Off(s, q)
             F == Off(s, p)
             R == zipRawEntryLength(s[q])
  <2>5. /\ A \in Nat /\ B \in Nat /\ C \in Nat /\ D \in Nat /\ E \in Nat /\ F \in Nat /\ R \in Nat
        /\ d \in Int /\ gone = E - F /\ A - (F + (R + d)) = C - (E + R)
        /\ q # n => B - (F + (R + d)) = D - (E + R)
    BY <1>5, <1>10, <1>11, <2>2, <2>4
  <2>6. q = n => B = F /\ D = E
    <3>1. q = n => p + m = p
      BY <1>1, <1>2
    <3> QED BY <1>10, <3>1
  <2> HIDE DEF A, B, C, D, E, F, R, gone
  <2>7. A = C - gone + d /\ (q # n => B = D - gone + d) /\ (q = n => B = D - gone) /\ gone \in Int
    BY ONLY <2>5, <2>6
  <2> QED BY <2>2, <2>7 DEF A, B, C, D
<1> HIDE DEF gone
<1>13. EntryTrue(t, p)
  <2>1. p # 1 => p - 1 \in 1 .. p - 1
    BY <1>2
  <2> QED BY <1>a, <1>5, <1>7, <2>1 DEF EntryTrue
<1>14. /\ closed.entries = t /\ closed.len = p + m /\ closed.bytes = Off(t, p + m + 1) + 1
       /\ closed.tail = Off(t, LastOf(t)) /\ Len(t) = p + m
       /\ closed = [bytes |-> closed.bytes, tail |-> closed.tail, len |-> closed.len,
                    entries |-> closed.entries]
  <2>1. LastOf(t) = p + m /\ LastOf(s) = n /\ Len(t) = p + m
    <3>0. n >= 1 /\ Len(t) = p + m /\ p + m >= 1
      <4>1. p \in 1 .. n /\ q \in 1 .. n /\ n \in Nat
        BY <1>1, <1>2
      <4>2. Len(t) = p + m
        BY <1>7
      <4> QED BY ONLY <4>1, <4>2 DEF m
    <3>1. Len(t) # 0 /\ Len(s) # 0
      BY <1>1, <3>0 DEF n
    <3>2. t # <<>> /\ s # <<>>
      BY <1>1, <1>7, <3>1, EmptyIs
    <3> HIDE DEF m
    <3> QED BY <3>0, <3>2 DEF LastOf, n
  <2>2. zl.tail = Off(s, n)
    BY <1>1, <2>1
  <2>3. Span(zl, p, q) = gone
    BY <1>4 DEF gone
  <2>4. closed.tail = Off(t, p + m)
    <3> HIDE DEF m
    <3> QED BY <1>5, <1>7, <1>12, <2>2, <2>3
  <2>5. closed.bytes = Off(t, p + m + 1) + 1
    <3> HIDE DEF m
    <3> QED BY <1>1, <1>5, <1>12, <2>3
  <2>6. closed.len = p + m
    BY <1>1, <1>2
  <2> QED BY <2>1, <2>4, <2>5, <2>6
<1> HIDE DEF closed
<1>15. WellButAt(closed, p + 1)
  <2>1. \A i \in 1 .. p + m : IF i = p + 1 THEN Fitting(t[i]) ELSE EntryTrue(t, i)
    <3> TAKE i \in 1 .. p + m
    <3>1. \/ i \in 1 .. p - 1 \/ i = p \/ (i = p + 1 /\ q # n) \/ i \in p + 2 .. p + m
      BY <1>1, <1>2
    <3>2. i \in 1 .. p - 1 \/ i \in p + 2 .. p + m => i # p + 1
      BY <1>2
    <3> HIDE DEF m
    <3> QED BY <1>2, <1>10, <1>13, <3>1, <3>2
  <2> HIDE DEF m
  <2> QED BY <1>7, <1>14, <2>1 DEF WellButAt
<1>16. d = 0 => ZiplistOK(closed)
  <2> HAVE d = 0
  <2>1. p + 1 \in Nat /\ (p + 1 > Len(closed.entries) \/ EntryTrue(closed.entries, p + 1))
    <3>1. p \in 1 .. n /\ q \in 1 .. n /\ n \in Nat
      BY <1>1, <1>2
    <3>2. closed.entries = t /\ Len(t) = p + m
      BY <1>14
    <3>3. q # n => EntryTrue(t, p + 1)
      BY <1>10
    <3>4. p + 1 \in Nat /\ (q = n => p + 1 > p + m)
      BY ONLY <3>1 DEF m
    <3> QED BY <3>2, <3>3, <3>4
  <2> QED BY <1>15, <2>1, CascadeOver
<1>17. ZiplistValues(closed) = WithoutFrom(vals, p, q)
  <2>1. ZiplistValues(closed) = [i \in 1 .. p + m |-> t[i].val]
    BY <1>14 DEF ZiplistValues
  <2>2. \A i \in 1 .. p + m :
           t[i].val = IF i < p THEN vals[i] ELSE vals[i + (q - p)]
    <3> TAKE i \in 1 .. p + m
    <3>1. CASE i < p
      <4>1. i \in 1 .. p - 1 /\ i \in 1 .. n
        BY <1>1, <1>2, <3>1
      <4> QED BY <1>1, <1>7, <3>1, <4>1
    <3>2. CASE i = p
      <4>1. i + (q - p) = q /\ ~(i < p)
        BY <1>1, <1>2, <3>2
      <4> QED BY <1>1, <1>2, <1>5, <1>7, <3>2, <4>1
    <3>3. CASE i > p
      <4> DEFINE j == i - p
      <4>1. j \in 1 .. n - q /\ p + j = i /\ q + j = i + (q - p) /\ i + (q - p) \in 1 .. n
            /\ ~(i < p)
        BY <1>1, <1>2, <3>3
      <4> HIDE DEF j
      <4>2. t[i] = s[i + (q - p)]
        BY <1>7, <4>1
      <4> QED BY <1>1, <4>1, <4>2
    <3> QED BY <1>1, <1>2, <3>1, <3>2, <3>3
  <2>3. Len(vals) - (q - p) = p + m
    BY <1>1, <1>2
  <2> QED BY <2>1, <2>2, <2>3 DEF WithoutFrom
<1>18. ZiplistOK(new) /\ ZiplistValues(new) = WithoutFrom(vals, p, q)
  <2>1. CASE d = 0
    BY <1>3, <1>16, <1>17, <2>1
  <2>2. CASE d # 0
    <3> DEFINE c == __ziplistCascadeUpdate(closed, p)
    <3>1. p \in 1 .. Len(closed.entries) /\ WellButAt(closed, p + 1)
      BY <1>1, <1>2, <1>14, <1>15
    <3>2. ZiplistOK(c) /\ ZiplistValues(c) = ZiplistValues(closed)
      BY ONLY <3>1, CascadeHolds
    <3> QED BY <1>3, <1>17, <2>2, <3>2
  <2> QED BY <2>1, <2>2
<1> QED BY <1>18 DEF new, vals, q

\* Deleting from p on.
LEMMA DeleteHolds ==
    ASSUME NEW zl, ZiplistOK(zl), NEW p \in 1 .. Len(zl.entries), NEW num \in Nat
    PROVE  LET new == __ziplistDelete(zl, p, num)
           IN  /\ ZiplistOK(new)
               /\ ZiplistValues(new) = WithoutFrom(ZiplistValues(zl), p, DeleteEnd(zl, p, num))
<1> DEFINE n == Len(zl.entries)
           vals == ZiplistValues(zl)
<1>1. n \in Nat /\ End(zl) = n + 1 /\ p \in 1 .. n /\ vals \in Seq(ListValues) /\ Len(vals) = n
  BY ZiplistParts
<1>2. CASE p + num >= End(zl)
  <2>1. DeleteEnd(zl, p, num) = End(zl)
    BY <1>1, <1>2 DEF DeleteEnd
  <2> QED BY <1>2, <2>1, DeleteTail
<1>3. CASE p + num < End(zl) /\ num # 0
  <2>1. DeleteEnd(zl, p, num) = p + num
    BY <1>3 DEF DeleteEnd
  <2> QED BY <1>3, <2>1, DeleteInside
<1>4. CASE num = 0
  <2>1. DeleteEnd(zl, p, num) = p
    BY <1>1, <1>4 DEF DeleteEnd
  <2>2. __ziplistDelete(zl, p, num) = zl
    <3>1. (IF p + num < End(zl) THEN p + num ELSE End(zl)) = p /\ p - p <= 0
      BY <1>1, <1>4
    <3> QED BY <3>1 DEF __ziplistDelete
  <2>3. WithoutFrom(vals, p, p) = vals
    <3> HIDE DEF vals
    <3>1. Len(vals) - (p - p) = n /\ vals = [i \in 1 .. n |-> vals[i]]
      BY <1>1
    <3>2. \A i \in 1 .. n : i + (p - p) = i
      OBVIOUS
    <3> QED BY <3>1, <3>2 DEF WithoutFrom
  <2> QED BY <2>1, <2>2, <2>3
<1>5. p + num >= End(zl) \/ p + num < End(zl)
  BY <1>1
<1> QED BY <1>2, <1>3, <1>4, <1>5

-----------------------------------------------------------------------------
(* Ziplists: walking.                                                      *)

\* The walk back goes from each entry to the one before it.
LEMMA PrevIs ==
    ASSUME NEW zl, ZiplistOK(zl), NEW p \in 1 .. End(zl)
    PROVE  ziplistPrev(zl, p) = p - 1
<1> DEFINE s == zl.entries
           n == Len(s)
           o == p - 1
<1>1. /\ s \in Seq(ListEntries) /\ n \in Nat /\ End(zl) = n + 1
      /\ PositionAt(zl, zl.tail) = LastOf(s)
      /\ \A i \in 1 .. n : EntryTrue(s, i) /\ s[i] \in ListEntries
      /\ \A i \in 1 .. n + 1 : Off(s, i) \in Nat
  BY ZiplistParts
<1>2. OffsetOf(zl, p) = Off(s, p)
  BY OffsetIs
<1>3. s = <<>> <=> n = 0
  BY <1>1, EmptyIs
<1>4. CASE p = End(zl)
  <2>1. LastOf(s) = IF n = 0 THEN 1 ELSE n
    BY <1>3 DEF LastOf
  <2> HIDE DEF n, s
  <2> QED BY <1>1, <1>4, <2>1 DEF ziplistPrev, NullAtEnd, s
<1>5. CASE p # End(zl) /\ p = 1
  BY <1>5 DEF ziplistPrev
<1>6. CASE p # End(zl) /\ p # 1
  <2>1. o \in 1 .. n /\ o \in 1 .. End(zl) /\ p \in 1 .. n /\ o + 1 = p
    <3>1. n \in Nat /\ End(zl) = n + 1 /\ p # n + 1 /\ p # 1
      BY <1>1, <1>6
    <3> HIDE DEF n, s
    <3>2. p \in 1 .. n + 1
      BY <3>1
    <3> QED BY ONLY <3>1, <3>2 DEF o
  <2> HIDE DEF o
  <2>2. Off(s, o + 1) = Off(s, o) + zipRawEntryLength(s[o])
    BY <1>1, <2>1, OffStep
  <2>3. Off(s, o) \in Nat /\ zipRawEntryLength(s[o]) \in Nat
    <3>1. o \in 1 .. n + 1
      BY <1>1, <2>1
    <3> QED BY <1>1, <2>1, <3>1, EntrySize
  <2>4. s[p].prevlen = zipRawEntryLength(s[o])
    BY <1>1, <1>6, <2>1 DEF EntryTrue, o
  <2>5. OffsetOf(zl, p) - s[p].prevlen = Off(s, o)
    BY <1>2, <2>1, <2>2, <2>3, <2>4
  <2>6. PositionAt(zl, Off(s, o)) = o
    BY <1>1, <2>1, PositionIs
  <2>7. ziplistPrev(zl, p) = o
    BY <1>6, <2>5, <2>6 DEF ziplistPrev
  <2> QED BY <2>7 DEF o
<1> QED BY <1>4, <1>5, <1>6

\* The walk forward does, and ends behind the last one.
LEMMA NextIs ==
    ASSUME NEW zl, ZiplistOK(zl), NEW p \in 1 .. End(zl)
    PROVE  ziplistNext(zl, p) = IF p < Len(zl.entries) THEN p + 1 ELSE 0
<1>1. Len(zl.entries) \in Nat /\ End(zl) = Len(zl.entries) + 1
  BY ZiplistParts
<1> QED BY <1>1 DEF ziplistNext, NullAtEnd

\* A position counted from either end.
LEMMA IndexIs ==
    ASSUME NEW zl, ZiplistOK(zl), NEW index \in Int
    PROVE  ziplistIndex(zl, index) = listIndex(ZiplistValues(zl), index)
<1> DEFINE n == Len(zl.entries)
           vals == ZiplistValues(zl)
           Before(b, k) == IF k = 0 THEN ziplistPrev(zl, End(zl))
                           ELSE IF b[k - 1] = 0 THEN 0 ELSE ziplistPrev(zl, b[k - 1])
           P(b) == b = [k \in Nat |-> Before(b, k)]
           h == [k \in Nat |-> IF k < n THEN n - k ELSE 0]
           back == CHOOSE b : P(b)
<1>1. n \in Nat /\ End(zl) = n + 1 /\ DOMAIN vals = 1 .. n
  <2>1. n \in Nat /\ End(zl) = n + 1 /\ vals = [i \in 1 .. n |-> zl.entries[i].val]
    BY ZiplistParts
  <2> HIDE DEF vals, n
  <2> QED BY <2>1
<1> HIDE DEF n, vals
<1>2. ziplistPrev(zl, End(zl)) = n /\ \A i \in 1 .. n : ziplistPrev(zl, i) = i - 1
  <2>1. End(zl) \in 1 .. End(zl) /\ \A i \in 1 .. n : i \in 1 .. End(zl)
    BY <1>1
  <2>2. \A i \in 1 .. End(zl) : ziplistPrev(zl, i) = i - 1
    BY PrevIs
  <2> QED BY <1>1, <2>1, <2>2
<1>3. \A k \in Nat : k # 0 => k - 1 \in Nat
  OBVIOUS
<1>4. \A k \in Nat : h[k] = IF k < n THEN n - k ELSE 0
  OBVIOUS
<1>5. P(h)
  <2>1. \A k \in Nat : h[k] = Before(h, k)
    <3> HIDE DEF h
    <3> TAKE k \in Nat
    <3>1. CASE k = 0
      BY <1>1, <1>2, <1>4, <3>1
    <3>2. CASE k # 0 /\ h[k - 1] = 0
      <4>1. ~(k - 1 < n)
        BY <1>1, <1>3, <1>4, <3>2
      <4> QED BY <1>1, <1>4, <3>2, <4>1
    <3>3. CASE k # 0 /\ h[k - 1] # 0
      <4>1. k - 1 < n /\ h[k - 1] = n - (k - 1) /\ h[k - 1] \in 1 .. n
        BY <1>1, <1>3, <1>4, <3>3
      <4>2. ziplistPrev(zl, h[k - 1]) = n - k
        BY <1>1, <1>2, <4>1
      <4> QED BY <1>1, <1>4, <3>3, <4>1, <4>2
    <3> QED BY <3>1, <3>2, <3>3
  <2>2. h = [k \in Nat |-> h[k]]
    OBVIOUS
  <2> HIDE DEF h, Before
  <2> QED BY <2>1, <2>2
<1>6. P(back)
  <2> HIDE DEF P, h
  <2> QED BY <1>5
<1>7. \A k \in Nat : back[k] = Before(back, k) /\ h[k] = Before(h, k)
  <2> HIDE DEF back, h, Before
  <2> QED BY <1>5, <1>6
<1> DEFINE B == {k \in Nat : back[k] = h[k]}
<1>8. \A k \in Nat : k \in B
  <2> HIDE DEF h, back, P
  <2>1. 0 \in B
    BY <1>7
  <2>2. ASSUME NEW k \in Nat \ {0}, k - 1 \in B PROVE k \in B
    BY <1>7, <2>2
  <2> HIDE DEF B, Before
  <2>3. Nat \in SUBSET Nat /\ \A k \in Nat \ {0} : k - 1 \in Nat
    OBVIOUS
  <2> QED BY <2>1, <2>2, <2>3, Upwards
<1>9. \A k \in Nat : back[k] = IF k < n THEN n - k ELSE 0
  <2> HIDE DEF back, h, P
  <2> QED BY <1>4, <1>8
<1>10. ziplistIndex(zl, index) = IF index < 0 THEN back[-index - 1]
                                 ELSE IF index < n THEN index + 1 ELSE 0
  BY DEF ziplistIndex, n
<1> HIDE DEF back
<1>11. CASE index < 0
  <2>1. -index - 1 \in Nat /\ n - (-index - 1) = n + index + 1
    BY <1>1, <1>11
  <2>2. back[-index - 1] = IF -index - 1 < n THEN n + index + 1 ELSE 0
    BY <1>9, <2>1
  <2>3. -index - 1 < n <=> n + index + 1 \in 1 .. n
    BY <1>1, <1>11
  <2>4. Len(vals) = n
    BY ZiplistParts DEF vals, n
  <2> QED BY <1>1, <1>10, <1>11, <2>2, <2>3, <2>4 DEF listIndex, vals
<1>12. CASE ~(index < 0)
  <2>1. index < n <=> index + 1 \in 1 .. n
    BY <1>1, <1>12
  <2> QED BY <1>1, <1>10, <1>12, <2>1 DEF listIndex, vals
<1> QED BY <1>11, <1>12

\* A place in a sequence, if any.
LEMMA ListIndexIs ==
    ASSUME NEW S, NEW l \in Seq(S), NEW index \in Int
    PROVE  LET p == IF index < 0 THEN Len(l) + index + 1 ELSE index + 1
           IN  listIndex(l, index) = IF p \in 1 .. Len(l) THEN p ELSE 0
<1>1. DOMAIN l = 1 .. Len(l)
  OBVIOUS
<1> QED BY <1>1 DEF listIndex

\* Deleting from a position on that may not be there.
LEMMA DeleteRangeHolds ==
    ASSUME NEW zl, ZiplistOK(zl), NEW index \in Int, NEW num \in Nat
    PROVE  LET p == listIndex(ZiplistValues(zl), index)
               new == ziplistDeleteRange(zl, index, num)
           IN  /\ ZiplistOK(new)
               /\ ZiplistValues(new) =
                     IF p = 0 THEN ZiplistValues(zl)
                     ELSE WithoutFrom(ZiplistValues(zl), p, DeleteEnd(zl, p, num))
<1> DEFINE p == listIndex(ZiplistValues(zl), index)
           new == ziplistDeleteRange(zl, index, num)
<1>1. new = IF p = 0 THEN zl ELSE __ziplistDelete(zl, p, num)
  BY IndexIs DEF ziplistDeleteRange
<1>2. p = 0 \/ p \in 1 .. Len(zl.entries)
  <2>1. ZiplistValues(zl) \in Seq(ListValues) /\ Len(ZiplistValues(zl)) = Len(zl.entries)
    BY ZiplistParts
  <2> QED BY <2>1, ListIndexIs
<1> HIDE DEF p, new
<1>3. CASE p = 0
  BY <1>1, <1>3 DEF p, new
<1>4. CASE p # 0
  <2>1. new = __ziplistDelete(zl, p, num) /\ p \in 1 .. Len(zl.entries)
    BY <1>1, <1>2, <1>4
  <2>2. /\ ZiplistOK(new)
        /\ ZiplistValues(new) = WithoutFrom(ZiplistValues(zl), p, DeleteEnd(zl, p, num))
    BY <2>1, DeleteHolds
  <2> QED BY <1>4, <2>2 DEF p, new
<1> QED BY <1>3, <1>4

\* A new ziplist.
LEMMA NewZiplist == ZiplistOK(ziplistNew) /\ ZiplistValues(ziplistNew) = <<>>
<1> DEFINE s == <<>>
<1>1. s \in Seq(ListEntries) /\ Len(s) = 0
  OBVIOUS
<1>2. Off(s, 1) = ZIPLIST_HEADER_SIZE
  <2> HIDE DEF s
  <2> QED BY <1>1, OffStep
<1>3. 0 + 1 = 1 /\ LastOf(s) = 1 /\ 1 .. 0 = {}
  BY DEF LastOf
<1>4. ziplistNew = [bytes |-> ZIPLIST_HEADER_SIZE + 1, tail |-> ZIPLIST_HEADER_SIZE, len |-> 0,
                    entries |-> s]
  BY DEF ziplistNew
<1>5. ZiplistValues(ziplistNew) = <<>>
  BY <1>4 DEF ZiplistValues
<1> HIDE DEF s
<1>6. ZiplistOK(ziplistNew)
  BY <1>1, <1>2, <1>3, <1>4 DEF ZiplistOK, WellButAt
<1> QED BY <1>5, <1>6

-----------------------------------------------------------------------------
(* Lists of either encoding.                                               *)

\* The values that a ziplist may hold.
ShortValues == {v \in ListValues : v \in Integers16 \/ PayloadSize[v] <= list_max_ziplist_value}

\* A list as the commands keep it, and one that is still short.
ListOK(list) ==
    /\ list = [enc |-> list.enc, ptr |-> list.ptr]
    /\ \/ /\ list.enc = ZIPLIST /\ ZiplistOK(list.ptr)
          /\ ZiplistValues(list.ptr) \in Seq(ShortValues)
       \/ list.enc = LINKEDLIST /\ list.ptr \in Seq(ListValues)
Few(list) == IsZiplist(list) => Len(Items(list)) <= list_max_ziplist_entries

\* One value more, and some less.
LEMMA WithAtIs ==
    ASSUME NEW S, NEW l \in Seq(S), NEW p \in 1 .. Len(l) + 1, NEW v \in S
    PROVE  WithAt(l, p, v) \in Seq(S) /\ Len(WithAt(l, p, v)) = Len(l) + 1
<1> DEFINE n == Len(l)
           w == WithAt(l, p, v)
           Value(i) == IF i < p THEN l[i] ELSE IF i = p THEN v ELSE l[i - 1]
<1>1. n \in Nat /\ p \in 1 .. n + 1 /\ \A i \in 1 .. n : l[i] \in S
  OBVIOUS
<1>2. w = [i \in 1 .. n + 1 |-> Value(i)]
  BY DEF WithAt
<1> HIDE DEF n, w
<1>3. \A i \in 1 .. n + 1 : Value(i) \in S
  <2> TAKE i \in 1 .. n + 1
  <2>1. /\ i < p => i \in 1 .. n
        /\ ~(i < p) /\ i # p => i - 1 \in 1 .. n
    BY <1>1
  <2> QED BY <1>1, <2>1
<1> HIDE DEF Value
<1>4. w \in Seq(S) /\ Len(w) = n + 1
  BY <1>1, <1>2, <1>3
<1> QED BY <1>4 DEF w, n

LEMMA WithoutIs ==
    ASSUME NEW S, NEW l \in Seq(S), NEW p \in 1 .. Len(l) + 1, NEW q \in p .. Len(l) + 1
    PROVE  WithoutFrom(l, p, q) \in Seq(S) /\ Len(WithoutFrom(l, p, q)) = Len(l) - (q - p)
<1> DEFINE n == Len(l)
           w == WithoutFrom(l, p, q)
           d == q - p
           Value(i) == IF i < p THEN l[i] ELSE l[i + d]
<1>1. n \in Nat /\ p \in 1 .. n + 1 /\ q \in p .. n + 1 /\ \A i \in 1 .. n : l[i] \in S
  OBVIOUS
<1>2. w = [i \in 1 .. n - d |-> Value(i)]
  BY DEF WithoutFrom
<1>3. d \in 0 .. n /\ p + d = q /\ p <= n - d + 1 /\ n - d \in Nat
  BY <1>1
<1> HIDE DEF n, w, d
<1>4. \A i \in 1 .. n - d : Value(i) \in S
  <2> TAKE i \in 1 .. n - d
  <2>1. i \in 1 .. n /\ i + d \in 1 .. n
    BY <1>1, <1>3
  <2> QED BY <1>1, <2>1
<1> HIDE DEF Value
<1>5. w \in Seq(S) /\ Len(w) = n - d
  BY <1>2, <1>3, <1>4
<1> QED BY <1>5 DEF w, n, d

\* What the two operations of a linked list do.
LEMMA InsertedAt ==
    ASSUME NEW S, NEW l \in Seq(S), NEW p \in 1 .. Len(l) + 1, NEW v \in S
    PROVE  InsertAt(l, p, v) = WithAt(l, p, v)
<1> DEFINE n == Len(l)
           a == SubSeq(l, 1, p - 1)
           b == SubSeq(l, p, n)
           w == WithAt(l, p, v)
           m == a \o <<v>>
           r == m \o b
<1>1. n \in Nat /\ p \in 1 .. n + 1
  OBVIOUS
<1>2. a \in Seq(S) /\ Len(a) = p - 1 /\ \A i \in 1 .. p - 1 : a[i] = l[i]
  OBVIOUS
<1>3. b \in Seq(S) /\ Len(b) = n + 1 - p /\ \A i \in 1 .. n + 1 - p : b[i] = l[p + i - 1]
  OBVIOUS
<1>4. <<v>> \in Seq(S) /\ Len(<<v>>) = 1 /\ <<v>>[1] = v
  OBVIOUS
<1>5. w = [i \in 1 .. n + 1 |-> IF i < p THEN l[i] ELSE IF i = p THEN v ELSE l[i - 1]]
  BY DEF WithAt
<1>6. InsertAt(l, p, v) = r
  BY DEF InsertAt
<1> HIDE DEF a, b, w, n
<1>7. /\ m \in Seq(S) /\ Len(m) = p
      /\ \A i \in 1 .. p : m[i] = IF i < p THEN l[i] ELSE v
  <2>1. /\ m \in Seq(S) /\ Len(m) = Len(a) + Len(<<v>>)
        /\ \A i \in 1 .. Len(m) : m[i] = IF i <= Len(a) THEN a[i] ELSE <<v>>[i - Len(a)]
    BY <1>2, <1>4, ConcatProperties
  <2>2. m \in Seq(S) /\ Len(m) = p
    BY <1>1, <1>2, <1>4, <2>1
  <2> HIDE DEF m
  <2>3. ASSUME NEW i \in 1 .. p PROVE m[i] = IF i < p THEN l[i] ELSE v
    <3>1. CASE i < p
      BY <1>1, <1>2, <2>1, <2>2, <3>1
    <3>2. CASE i = p
      <4>1. i - Len(a) = 1 /\ ~(i <= Len(a))
        BY <1>1, <1>2, <3>2
      <4> QED BY <1>4, <2>1, <2>2, <3>2, <4>1
    <3> QED BY <1>1, <3>1, <3>2
  <2> QED BY <2>2, <2>3
<1> HIDE DEF m
<1>8. /\ r \in Seq(S) /\ Len(r) = n + 1
      /\ \A i \in 1 .. n + 1 : r[i] = IF i < p THEN l[i] ELSE IF i = p THEN v ELSE l[i - 1]
  <2>1. /\ r \in Seq(S) /\ Len(r) = Len(m) + Len(b)
        /\ \A i \in 1 .. Len(r) : r[i] = IF i <= Len(m) THEN m[i] ELSE b[i - Len(m)]
    <3>1. m \in Seq(S) /\ b \in Seq(S)
      BY <1>3, <1>7
    <3> QED BY ONLY <3>1, ConcatProperties DEF r
  <2>2. r \in Seq(S) /\ Len(r) = n + 1
    BY <1>1, <1>3, <1>7, <2>1
  <2> HIDE DEF r
  <2>3. ASSUME NEW i \in 1 .. n + 1
        PROVE r[i] = IF i < p THEN l[i] ELSE IF i = p THEN v ELSE l[i - 1]
    <3>1. CASE i <= p
      <4>1. i \in 1 .. p /\ i <= Len(m)
        BY <1>1, <1>7, <3>1
      <4> QED BY <1>1, <1>7, <2>1, <2>2, <3>1, <4>1
    <3>2. CASE i > p
      <4>1. i - p \in 1 .. n + 1 - p /\ ~(i <= Len(m)) /\ p + (i - p) - 1 = i - 1
        BY <1>1, <1>7, <3>2
      <4>2. b[i - p] = l[i - 1]
        BY <1>3, <4>1
      <4> QED BY <1>1, <1>7, <2>1, <2>2, <3>2, <4>1, <4>2
    <3> QED BY <1>1, <3>1, <3>2
  <2> QED BY <2>2, <2>3
<1> HIDE DEF r
<1>9. r = w
  BY <1>5, <1>8
<1> QED BY <1>6, <1>9 DEF w

LEMMA RemovedAt ==
    ASSUME NEW S, NEW l \in Seq(S), NEW p \in 1 .. Len(l)
    PROVE  RemoveAt(l, p) = WithoutFrom(l, p, p + 1)
<1> DEFINE n == Len(l)
           a == SubSeq(l, 1, p - 1)
           b == SubSeq(l, p + 1, n)
           w == WithoutFrom(l, p, p + 1)
           r == a \o b
<1>1. n \in Nat /\ p \in 1 .. n
  OBVIOUS
<1>2. a \in Seq(S) /\ Len(a) = p - 1 /\ \A i \in 1 .. p - 1 : a[i] = l[i]
  OBVIOUS
<1>3. b \in Seq(S) /\ Len(b) = n - p /\ \A i \in 1 .. n - p : b[i] = l[p + i]
  OBVIOUS
<1>4. w = [i \in 1 .. n - 1 |-> IF i < p THEN l[i] ELSE l[i + 1]]
  <2>1. p + 1 - p = 1
    BY <1>1
  <2> QED BY <2>1 DEF WithoutFrom
<1>5. RemoveAt(l, p) = r
  BY DEF RemoveAt
<1> HIDE DEF a, b, w, n
<1>6. /\ r \in Seq(S) /\ Len(r) = n - 1
      /\ \A i \in 1 .. n - 1 : r[i] = IF i < p THEN l[i] ELSE l[i + 1]
  <2>1. /\ r \in Seq(S) /\ Len(r) = Len(a) + Len(b)
        /\ \A i \in 1 .. Len(r) : r[i] = IF i <= Len(a) THEN a[i] ELSE b[i - Len(a)]
    BY <1>2, <1>3, ConcatProperties
  <2>2. r \in Seq(S) /\ Len(r) = n - 1
    BY <1>1, <1>2, <1>3, <2>1
  <2> HIDE DEF r
  <2>3. ASSUME NEW i \in 1 .. n - 1 PROVE r[i] = IF i < p THEN l[i] ELSE l[i + 1]
    <3>1. CASE i < p
      <4>1. i \in 1 .. p - 1 /\ i <= Len(a)
        BY <1>1, <1>2, <3>1
      <4> QED BY <1>2, <2>1, <2>2, <3>1, <4>1
    <3>2. CASE ~(i < p)
      <4>1. i - (p - 1) \in 1 .. n - p /\ ~(i <= Len(a)) /\ p + (i - (p - 1)) = i + 1
        BY <1>1, <1>2, <3>2
      <4>2. b[i - (p - 1)] = l[i + 1]
        BY <1>3, <4>1
      <4> QED BY <1>1, <1>2, <2>1, <2>2, <3>2, <4>1, <4>2
    <3> QED BY <3>1, <3>2
  <2> QED BY <2>2, <2>3
<1> HIDE DEF r
<1>7. r = w
  BY <1>1, <1>4, <1>6
<1> QED BY <1>5, <1>7 DEF w

\* The values that are short are values.
LEMMA ShortIs == ShortValues \subseteq ListValues /\ Seq(ShortValues) \subseteq Seq(ListValues)
<1>1. ShortValues \subseteq ListValues
  BY DEF ShortValues
<1>2. ASSUME NEW s \in Seq(ShortValues) PROVE s \in Seq(ListValues)
  BY <1>1
<1> QED BY <1>1, <1>2

\* A list of each encoding.
LEMMA ZiplistListOK ==
    ASSUME NEW z, ZiplistOK(z), ZiplistValues(z) \in Seq(ShortValues)
    PROVE  LET list == [enc |-> ZIPLIST, ptr |-> z]
           IN  ListOK(list) /\ IsZiplist(list) /\ Items(list) = ZiplistValues(z)
BY DEF ListOK, IsZiplist, Items

LEMMA LinkedListOK ==
    ASSUME NEW l \in Seq(ListValues)
    PROVE  LET list == [enc |-> LINKEDLIST, ptr |-> l]
           IN  ListOK(list) /\ ~IsZiplist(list) /\ Items(list) = l
BY DEF ListOK, IsZiplist, Items, ZIPLIST, LINKEDLIST

\* What is known of a list.
LEMMA ListIs ==
    ASSUME NEW list, ListOK(list)
    PROVE  LET s == Items(list)
           IN  /\ s \in Seq(ListValues) /\ Len(s) \in Nat /\ listTypeLength(list) = Len(s)
               /\ \A index \in Int : listTypeIndex(list, index) = listIndex(s, index)
               /\ IsZiplist(list) =>
                     /\ list = [enc |-> ZIPLIST, ptr |-> list.ptr] /\ ZiplistOK(list.ptr)
                     /\ s = ZiplistValues(list.ptr) /\ s \in Seq(ShortValues)
                     /\ Len(list.ptr.entries) = Len(s) /\ End(list.ptr) = Len(s) + 1
               /\ ~IsZiplist(list) =>
                     list = [enc |-> LINKEDLIST, ptr |-> list.ptr] /\ list.ptr = s
<1> DEFINE s == Items(list)
<1>1. CASE IsZiplist(list)
  <2>1. /\ list = [enc |-> ZIPLIST, ptr |-> list.ptr] /\ ZiplistOK(list.ptr)
        /\ ZiplistValues(list.ptr) \in Seq(ShortValues) /\ s = ZiplistValues(list.ptr)
    BY <1>1 DEF ListOK, IsZiplist, Items, ZIPLIST, LINKEDLIST
  <2>2. /\ list.ptr.len = Len(s) /\ Len(list.ptr.entries) = Len(s)
        /\ End(list.ptr) = Len(s) + 1
    BY <2>1, ZiplistParts
  <2>3. \A index \in Int : listTypeIndex(list, index) = listIndex(s, index)
    BY <1>1, <2>1, IndexIs DEF listTypeIndex
  <2>4. s \in Seq(ListValues) /\ Len(s) \in Nat
    <3>1. s \in Seq(ListValues)
      BY <2>1, ShortIs
    <3> HIDE DEF s
    <3> QED BY <3>1
  <2> QED BY <1>1, <2>1, <2>2, <2>3, <2>4 DEF listTypeLength
<1>2. CASE ~IsZiplist(list)
  <2>1. /\ list = [enc |-> LINKEDLIST, ptr |-> list.ptr]
        /\ list.ptr \in Seq(ListValues) /\ s = list.ptr
    BY <1>2 DEF ListOK, IsZiplist, Items
  <2>2. Len(s) \in Nat
    BY <2>1
  <2> QED BY <1>2, <2>1, <2>2 DEF listTypeLength, listTypeIndex
<1> QED BY <1>1, <1>2

\* A position that is found is one.
LEMMA FoundIs ==
    ASSUME NEW list, ListOK(list), NEW index \in Int
    PROVE  LET p == IF index < 0 THEN Len(Items(list)) + index + 1 ELSE index + 1
           IN  listTypeIndex(list, index) = IF p \in 1 .. Len(Items(list)) THEN p ELSE 0
<1>1. listTypeIndex(list, index) = listIndex(Items(list), index)
      /\ Items(list) \in Seq(ListValues)
  BY ListIs
<1> QED BY <1>1, ListIndexIs

\* A new list.
LEMMA NewList ==
    LET list == createZiplistObject
    IN  ListOK(list) /\ Few(list) /\ Items(list) = <<>>
<1>1. ZiplistValues(ziplistNew) \in Seq(ShortValues)
  BY NewZiplist
<1>2. /\ ListOK(createZiplistObject) /\ IsZiplist(createZiplistObject)
      /\ Items(createZiplistObject) = <<>>
  BY <1>1, NewZiplist, ZiplistListOK DEF createZiplistObject
<1>3. Len(<<>>) = 0 /\ list_max_ziplist_entries \in Nat
  BY ListConstants
<1> QED BY <1>2, <1>3 DEF Few

\* A conversion keeps the values.
LEMMA ListConverted ==
    ASSUME NEW list, ListOK(list)
    PROVE  LET new == listTypeConvert(list)
           IN  ListOK(new) /\ ~IsZiplist(new) /\ Few(new) /\ Items(new) = Items(list)
<1>1. Items(list) \in Seq(ListValues)
  BY ListIs
<1> QED BY <1>1, LinkedListOK DEF listTypeConvert, Few

\* A list that is converted if it has to be holds v as it is.
LEMMA ListTried ==
    ASSUME NEW list, ListOK(list), Few(list), NEW v \in ListValues
    PROVE  LET new == listTypeTryConversion(list, v)
           IN  /\ ListOK(new) /\ Few(new) /\ Items(new) = Items(list)
               /\ IsZiplist(new) => v \in ShortValues
<1> DEFINE new == listTypeTryConversion(list, v)
           long == IsZiplist(list) /\ v \notin Integers16
                   /\ PayloadSize[v] > list_max_ziplist_value
<1>1. new = IF long THEN listTypeConvert(list) ELSE list
  BY DEF listTypeTryConversion
<1>2. CASE long
  BY <1>1, <1>2, ListConverted
<1>3. CASE ~long
  <2>1. PayloadSize[v] \in Nat /\ list_max_ziplist_value \in Nat
    BY ListConstants
  <2>2. IsZiplist(list) => v \in ShortValues
    BY <1>3, <2>1 DEF ShortValues
  <2> QED BY <1>1, <1>3, <2>2
<1> QED BY <1>2, <1>3

\* One value more.
LEMMA ListInserted ==
    ASSUME NEW list, ListOK(list), NEW v \in ListValues, IsZiplist(list) => v \in ShortValues,
           NEW p \in 1 .. Len(Items(list)) + 1
    PROVE  LET new == listTypeInsert(list, p, v)
           IN  /\ ListOK(new) /\ (IsZiplist(new) <=> IsZiplist(list))
               /\ Items(new) = WithAt(Items(list), p, v)
               /\ Len(Items(new)) = Len(Items(list)) + 1
<1> DEFINE s == Items(list)
           new == listTypeInsert(list, p, v)
           w == WithAt(s, p, v)
<1>1. s \in Seq(ListValues) /\ Len(s) \in Nat
  BY ListIs
<1>2. w \in Seq(ListValues) /\ Len(w) = Len(s) + 1
  BY <1>1, WithAtIs
<1>3. CASE IsZiplist(list)
  <2> DEFINE z == list.ptr
             y == __ziplistInsert(z, p, v)
  <2>1. /\ list = [enc |-> ZIPLIST, ptr |-> z] /\ ZiplistOK(z)
        /\ s = ZiplistValues(z) /\ s \in Seq(ShortValues) /\ End(z) = Len(s) + 1
    BY <1>3, ListIs
  <2>2. ZiplistOK(y) /\ ZiplistValues(y) = w
    BY <2>1, InsertHolds
  <2>3. w \in Seq(ShortValues)
    BY <1>3, <2>1, WithAtIs
  <2>4. new = [enc |-> ZIPLIST, ptr |-> y]
    <3> HIDE DEF z
    <3> QED BY <1>3, <2>1 DEF listTypeInsert
  <2> HIDE DEF y, w, s, new
  <2>5. ListOK(new) /\ IsZiplist(new) /\ Items(new) = w
    BY <2>2, <2>3, <2>4, ZiplistListOK
  <2> QED BY <1>2, <1>3, <2>5 DEF new, s, w
<1>4. CASE ~IsZiplist(list)
  <2> DEFINE l == list.ptr
  <2>1. list = [enc |-> LINKEDLIST, ptr |-> l] /\ l = s
    BY <1>4, ListIs
  <2>2. InsertAt(l, p, v) = w
    BY <1>1, <2>1, InsertedAt
  <2>3. new = [enc |-> LINKEDLIST, ptr |-> w]
    <3> HIDE DEF l, w
    <3> QED BY <1>4, <2>1, <2>2 DEF listTypeInsert, listInsertNode
  <2> HIDE DEF new, w, s
  <2>4. ListOK(new) /\ ~IsZiplist(new) /\ Items(new) = w
    BY <1>2, <2>3, LinkedListOK
  <2> QED BY <1>2, <1>4, <2>4 DEF new, s, w
<1> QED BY <1>3, <1>4

\* One value less.
LEMMA ListDeleted ==
    ASSUME NEW list, ListOK(list), NEW p \in 1 .. Len(Items(list))
    PROVE  LET new == listTypeDelete(list, p)
           IN  /\ ListOK(new) /\ (IsZiplist(new) <=> IsZiplist(list))
               /\ Items(new) = WithoutFrom(Items(list), p, p + 1)
               /\ Len(Items(new)) = Len(Items(list)) - 1
<1> DEFINE s == Items(list)
           new == listTypeDelete(list, p)
           w == WithoutFrom(s, p, p + 1)
<1>1. s \in Seq(ListValues) /\ Len(s) \in Nat
  BY ListIs
<1>2. p \in 1 .. Len(s) + 1 /\ p + 1 \in p .. Len(s) + 1 /\ Len(s) - (p + 1 - p) = Len(s) - 1
  BY <1>1
<1>3. w \in Seq(ListValues) /\ Len(w) = Len(s) - 1
  <2> DEFINE q == p + 1
  <2>1. q \in p .. Len(s) + 1 /\ Len(s) - (q - p) = Len(s) - 1
    BY <1>2
  <2> HIDE DEF q, s
  <2>2. WithoutFrom(s, p, q) \in Seq(ListValues) /\ Len(WithoutFrom(s, p, q)) = Len(s) - (q - p)
    BY ONLY <1>1, <1>2, <2>1, WithoutIs
  <2> QED BY <2>1, <2>2 DEF q
<1>4. CASE IsZiplist(list)
  <2> DEFINE z == list.ptr
             y == ziplistDelete(z, p)
  <2>1. /\ list = [enc |-> ZIPLIST, ptr |-> z] /\ ZiplistOK(z)
        /\ s = ZiplistValues(z) /\ s \in Seq(ShortValues)
        /\ Len(z.entries) = Len(s) /\ End(z) = Len(s) + 1
    BY <1>4, ListIs
  <2>2. DeleteEnd(z, p, 1) = p + 1
    BY <1>1, <2>1 DEF DeleteEnd
  <2>3. ZiplistOK(y) /\ ZiplistValues(y) = w
    BY <2>1, <2>2, DeleteHolds DEF ziplistDelete
  <2>4. w \in Seq(ShortValues)
    <3> DEFINE q == p + 1
    <3>1. q \in p .. Len(s) + 1
      BY <1>2
    <3> HIDE DEF q, s
    <3>2. WithoutFrom(s, p, q) \in Seq(ShortValues)
      BY ONLY <1>2, <2>1, <3>1, WithoutIs
    <3> QED BY <3>2 DEF q
  <2>5. new = [enc |-> ZIPLIST, ptr |-> y]
    <3> HIDE DEF z
    <3> QED BY <1>4, <2>1 DEF listTypeDelete
  <2> HIDE DEF y, w, s, new
  <2>6. ListOK(new) /\ IsZiplist(new) /\ Items(new) = w
    BY <2>3, <2>4, <2>5, ZiplistListOK
  <2> QED BY <1>3, <1>4, <2>6 DEF new, s, w
<1>5. CASE ~IsZiplist(list)
  <2> DEFINE l == list.ptr
  <2>1. list = [enc |-> LINKEDLIST, ptr |-> l] /\ l = s
    BY <1>5, ListIs
  <2>2. RemoveAt(l, p) = w
    BY <1>1, <2>1, RemovedAt
  <2>3. new = [enc |-> LINKEDLIST, ptr |-> w]
    <3> HIDE DEF l, w
    <3> QED BY <1>5, <2>1, <2>2 DEF listTypeDelete, listDelNode
  <2> HIDE DEF new, w, s
  <2>4. ListOK(new) /\ ~IsZiplist(new) /\ Items(new) = w
    BY <1>3, <2>3, LinkedListOK
  <2> QED BY <1>3, <1>5, <2>4 DEF new, s, w
<1> QED BY <1>4, <1>5

\* A value put at an end of a linked list.
LEMMA NodeAdded ==
    ASSUME NEW S, NEW l \in Seq(S), NEW v \in S, NEW where
    PROVE  listAddNode(l, v, where) = WithAt(l, IF where = "HEAD" THEN 1 ELSE Len(l) + 1, v)
<1> DEFINE n == Len(l)
<1>1. n \in Nat
  OBVIOUS
<1>2. CASE where = "HEAD"
  <2> DEFINE r == <<v>> \o l
             w == WithAt(l, 1, v)
  <2>1. /\ r \in Seq(S) /\ Len(r) = n + 1
        /\ \A i \in 1 .. n + 1 : r[i] = IF i = 1 THEN v ELSE l[i - 1]
    OBVIOUS
  <2>2. w = [i \in 1 .. n + 1 |-> IF i < 1 THEN l[i] ELSE IF i = 1 THEN v ELSE l[i - 1]]
    BY DEF WithAt
  <2>3. \A i \in 1 .. n + 1 : ~(i < 1)
    BY <1>1
  <2> HIDE DEF r, n
  <2>4. w = [i \in 1 .. n + 1 |-> IF i = 1 THEN v ELSE l[i - 1]]
    BY <2>2, <2>3
  <2> HIDE DEF w
  <2>5. r = w
    BY <1>1, <2>1, <2>4
  <2> QED BY <1>2, <2>5 DEF listAddNode, r, w
<1>3. CASE where # "HEAD"
  <2> DEFINE r == Append(l, v)
             w == WithAt(l, n + 1, v)
  <2>1. /\ r \in Seq(S) /\ Len(r) = n + 1
        /\ \A i \in 1 .. n + 1 : r[i] = IF i = n + 1 THEN v ELSE l[i]
    OBVIOUS
  <2>2. w = [i \in 1 .. n + 1 |->
                IF i < n + 1 THEN l[i] ELSE IF i = n + 1 THEN v ELSE l[i - 1]]
    BY DEF WithAt
  <2> HIDE DEF r, n
  <2>3. \A i \in 1 .. n + 1 : i < n + 1 <=> i # n + 1
    BY <1>1
  <2>4. w = [i \in 1 .. n + 1 |-> IF i = n + 1 THEN v ELSE l[i]]
    BY <2>2, <2>3
  <2> HIDE DEF w
  <2>5. r = w
    BY <1>1, <2>1, <2>4
  <2> QED BY <1>3, <2>5 DEF listAddNode, r, w, n
<1> QED BY <1>2, <1>3

\* A push, through the conversion that it may take.
LEMMA ListPushed ==
    ASSUME NEW list, ListOK(list), Few(list), NEW v \in ListValues, NEW where
    PROVE  LET new == listTypePush(list, v, where)
               s == Items(list)
           IN  /\ ListOK(new) /\ Few(new)
               /\ Items(new) = WithAt(s, IF where = "HEAD" THEN 1 ELSE Len(s) + 1, v)
               /\ Len(Items(new)) = Len(s) + 1
<1> DEFINE s == Items(list)
           p == IF where = "HEAD" THEN 1 ELSE Len(s) + 1
           tried == listTypeTryConversion(list, v)
           full == IsZiplist(tried) /\ listTypeLength(tried) >= list_max_ziplist_entries
           to == IF full THEN listTypeConvert(tried) ELSE tried
           new == listTypePush(list, v, where)
           made == listTypeInsert(to, p, v)
<1>1. s \in Seq(ListValues) /\ Len(s) \in Nat /\ list_max_ziplist_entries \in Nat
  BY ListIs, ListConstants
<1>2. p \in 1 .. Len(s) + 1
  BY <1>1
<1>3. /\ ListOK(tried) /\ Items(tried) = s /\ (IsZiplist(tried) => v \in ShortValues)
      /\ listTypeLength(tried) = Len(s)
  <2>1. /\ ListOK(tried) /\ Items(tried) = s /\ (IsZiplist(tried) => v \in ShortValues)
    BY ListTried
  <2> HIDE DEF tried, s
  <2> QED BY <2>1, ListIs
<1> HIDE DEF tried, s
<1>4. /\ ListOK(to) /\ Items(to) = s /\ (IsZiplist(to) => v \in ShortValues)
      /\ IsZiplist(to) => Len(s) < list_max_ziplist_entries
  <2>1. CASE full
    BY <1>3, <2>1, ListConverted
  <2>2. CASE ~full
    BY <1>1, <1>3, <2>2
  <2> QED BY <2>1, <2>2
<1>5. new = [to EXCEPT !.ptr = IF IsZiplist(to) THEN ziplistPush(@, v, where)
                               ELSE listAddNode(@, v, where)]
  BY DEF listTypePush, tried
<1> HIDE DEF to
<1>6. new = made
  <2>1. CASE IsZiplist(to)
    <3> DEFINE z == to.ptr
    <3>1. to = [enc |-> ZIPLIST, ptr |-> z] /\ End(z) = Len(s) + 1
      BY <1>4, <2>1, ListIs
    <3>2. ziplistPush(z, v, where) = __ziplistInsert(z, p, v)
      BY <3>1 DEF ziplistPush
    <3> HIDE DEF z, p
    <3> QED BY <1>5, <2>1, <3>1, <3>2 DEF listTypeInsert
  <2>2. CASE ~IsZiplist(to)
    <3> DEFINE l == to.ptr
    <3>1. to = [enc |-> LINKEDLIST, ptr |-> l] /\ l = s
      BY <1>4, <2>2, ListIs
    <3>2. listAddNode(l, v, where) = WithAt(l, p, v)
      BY <1>1, <3>1, NodeAdded
    <3>3. listInsertNode(l, p, v) = WithAt(l, p, v)
      BY <1>1, <1>2, <3>1, InsertedAt DEF listInsertNode
    <3> HIDE DEF l, p
    <3> QED BY <1>5, <2>2, <3>1, <3>2, <3>3 DEF listTypeInsert
  <2> QED BY <2>1, <2>2
<1>7. /\ ListOK(made) /\ (IsZiplist(made) <=> IsZiplist(to))
      /\ Items(made) = WithAt(s, p, v) /\ Len(Items(made)) = Len(s) + 1
  <2> HIDE DEF p, made
  <2> QED BY <1>2, <1>4, ListInserted DEF made
<1> HIDE DEF new, made
<1>8. Few(made)
  BY <1>1, <1>4, <1>7 DEF Few
<1> QED BY <1>6, <1>7, <1>8 DEF new, s

\* A well-formed list is one of all lists.
LEMMA ListTyped == ASSUME NEW list, ListOK(list) PROVE list \in ListObjects
<1>1. ZiplistOK(list.ptr) => list.ptr \in Ziplists
  BY WellTyped DEF ZiplistOK
<1> QED BY <1>1 DEF ListOK, ListObjects

\* Two sequences put together, and a part of one, value by value.
LEMMA ConcatIs ==
    ASSUME NEW S, NEW s \in Seq(S), NEW t \in Seq(S)
    PROVE  s \o t = [i \in 1 .. Len(s) + Len(t) |-> IF i <= Len(s) THEN s[i] ELSE t[i - Len(s)]]
<1> DEFINE m == Len(s)
           n == Len(t)
           r == s \o t
<1>1. /\ r \in Seq(S) /\ Len(r) = m + n
      /\ \A i \in 1 .. m + n : r[i] = IF i <= m THEN s[i] ELSE t[i - m]
  BY ConcatProperties
<1> HIDE DEF r, m, n
<1>2. r = [i \in 1 .. m + n |-> r[i]]
  <2>1. r = [i \in 1 .. Len(r) |-> r[i]]
    BY <1>1
  <2> QED BY <1>1, <2>1
<1>3. r = [i \in 1 .. m + n |-> IF i <= m THEN s[i] ELSE t[i - m]]
  BY <1>1, <1>2
<1> QED BY <1>3 DEF r, m, n

LEMMA SubSeqIs ==
    ASSUME NEW S, NEW s \in Seq(S), NEW a \in Nat, NEW n \in Nat, a + n <= Len(s)
    PROVE  /\ SubSeq(s, a + 1, a + n) = [i \in 1 .. n |-> s[i + a]]
           /\ SubSeq(s, a + 1, a + n) \in Seq(S) /\ Len(SubSeq(s, a + 1, a + n)) = n
<1> DEFINE t == SubSeq(s, a + 1, a + n)
<1>1. Len(s) \in Nat /\ \A i \in 1 .. n : i + a \in 1 .. Len(s) /\ s[i + a] \in S
  OBVIOUS
<1>2. t \in Seq(S) /\ Len(t) = n /\ \A i \in 1 .. n : t[i] = s[i + a]
  BY <1>1
<1> HIDE DEF t
<1>3. t = [i \in 1 .. n |-> t[i]]
  BY <1>2
<1>4. t = [i \in 1 .. n |-> s[i + a]]
  BY <1>2, <1>3
<1> QED BY <1>2, <1>4 DEF t

\* The values of s after n of vs are put in at an end, one by one.
Placed(s, vs, n, where) ==
    [i \in 1 .. Len(s) + n |->
        IF where = "HEAD" THEN IF i <= n THEN vs[n + 1 - i] ELSE s[i - n]
        ELSE IF i <= Len(s) THEN s[i] ELSE vs[i - Len(s)]]

LEMMA PlacedOne ==
    ASSUME NEW S, NEW s \in Seq(S), NEW vs \in Seq(S), NEW where, NEW n \in 1 .. Len(vs)
    PROVE  LET t == Placed(s, vs, n - 1, where)
           IN  WithAt(t, IF where = "HEAD" THEN 1 ELSE Len(t) + 1, vs[n])
                  = Placed(s, vs, n, where)
<1> DEFINE t == Placed(s, vs, n - 1, where)
           m == Len(s)
           p == IF where = "HEAD" THEN 1 ELSE m + n
           Value(i) == IF i < p THEN t[i] ELSE IF i = p THEN vs[n] ELSE t[i - 1]
           Put(i, k) == IF where = "HEAD" THEN IF i <= k THEN vs[k + 1 - i] ELSE s[i - k]
                        ELSE IF i <= m THEN s[i] ELSE vs[i - m]
<1>1. m \in Nat /\ n \in Nat /\ n >= 1
  OBVIOUS
<1>2. t = [i \in 1 .. m + (n - 1) |-> Put(i, n - 1)]
  BY DEF Placed
<1> HIDE DEF m
<1>3. Len(t) = m + (n - 1) /\ Len(t) + 1 = m + n
  <2>1. m + (n - 1) \in Nat
    BY <1>1
  <2> HIDE DEF Put, t
  <2> QED BY <1>1, <1>2, <2>1
<1>4. \A i \in 1 .. m + (n - 1) : t[i] = Put(i, n - 1)
  BY <1>2
<1>5. WithAt(t, p, vs[n]) = [i \in 1 .. m + n |-> Value(i)]
  <2> HIDE DEF t, p
  <2> QED BY <1>3 DEF WithAt
<1> HIDE DEF t
<1>6. \A i \in 1 .. m + n : Value(i) = Put(i, n)
  <2> TAKE i \in 1 .. m + n
  <2>1. i < p => i \in 1 .. m + (n - 1)
    BY <1>1
  <2>2. i > p => i - 1 \in 1 .. m + (n - 1)
    BY <1>1
  <2>3. CASE i < p
    <3>1. where # "HEAD" /\ t[i] = Put(i, n - 1)
      BY <1>4, <2>1, <2>3
    <3> QED BY <2>3, <3>1
  <2>4. CASE i = p
    BY <1>1, <2>4
  <2>5. CASE i > p
    <3>1. where = "HEAD" /\ t[i - 1] = Put(i - 1, n - 1)
      BY <1>1, <1>4, <2>2, <2>5
    <3>2. Put(i - 1, n - 1) = Put(i, n)
      <4>1. i - 1 <= n - 1 <=> i <= n
        BY <1>1
      <4>2. (n - 1) + 1 - (i - 1) = n + 1 - i /\ (i - 1) - (n - 1) = i - n
        BY <1>1
      <4> QED BY <3>1, <4>1, <4>2
    <3> QED BY <1>1, <2>5, <3>1, <3>2
  <2> QED BY <1>1, <2>3, <2>4, <2>5
<1>7. Placed(s, vs, n, where) = [i \in 1 .. m + n |-> Put(i, n)]
  BY DEF Placed, m
<1> HIDE DEF Value, Put
<1>8. WithAt(t, p, vs[n]) = Placed(s, vs, n, where)
  BY <1>5, <1>6, <1>7
<1> QED BY <1>3, <1>8 DEF t

LEMMA PlacedNone ==
    ASSUME NEW S, NEW s \in Seq(S), NEW vs, NEW where
    PROVE  Placed(s, vs, 0, where) = s
<1> DEFINE m == Len(s)
<1>1. m \in Nat /\ s = [i \in 1 .. m |-> s[i]]
  OBVIOUS
<1> HIDE DEF m
<1>2. \A i \in 1 .. m + 0 : (IF where = "HEAD" THEN IF i <= 0 THEN vs[0 + 1 - i] ELSE s[i - 0]
                             ELSE IF i <= m THEN s[i] ELSE vs[i - m]) = s[i]
  BY <1>1
<1>3. 1 .. m + 0 = 1 .. m
  BY <1>1
<1>4. Placed(s, vs, 0, where) = [i \in 1 .. m |-> s[i]]
  BY <1>2, <1>3 DEF Placed, m
<1> QED BY <1>1, <1>4

\* They are as many more.
LEMMA PlacedLength ==
    ASSUME NEW S, NEW s \in Seq(S), NEW vs \in Seq(S), NEW where
    PROVE  Len(Placed(s, vs, Len(vs), where)) = Len(s) + Len(vs)
<1> DEFINE m == Len(s)
           n == Len(vs)
<1>1. m + n \in Nat
  OBVIOUS
<1> HIDE DEF m, n
<1>2. CASE where = "HEAD"
  <2>1. Placed(s, vs, n, where)
           = [i \in 1 .. m + n |-> IF i <= n THEN vs[n + 1 - i] ELSE s[i - n]]
    BY <1>2 DEF Placed, m
  <2> QED BY <1>1, <2>1 DEF m, n
<1>3. CASE where # "HEAD"
  <2>1. Placed(s, vs, n, where)
           = [i \in 1 .. m + n |-> IF i <= m THEN s[i] ELSE vs[i - m]]
    BY <1>3 DEF Placed, m
  <2> QED BY <1>1, <2>1 DEF m, n
<1> QED BY <1>2, <1>3

\* What n pushes on a list leave.
PushedBy(list, vs, where, n) == {x \in ListObjects :
    ListOK(x) /\ Few(x) /\ Items(x) = Placed(Items(list), vs, n, where)}

\* All pushes.
LEMMA AllPushed ==
    ASSUME NEW list, ListOK(list), Few(list), NEW vs \in Seq(ListValues), NEW where
    PROVE  LET new == PushAll(list, vs, where)
           IN  /\ ListOK(new) /\ Few(new)
               /\ Items(new) = Placed(Items(list), vs, Len(vs), where)
               /\ Len(Items(new)) = Len(Items(list)) + Len(vs)
<1> DEFINE N == Len(vs)
           D == 0 .. N
           I == [n \in D |-> PushedBy(list, vs, where, n)]
           G == [n \in D |->
                   [x \in PushedBy(list, vs, where, n - 1) |-> listTypePush(x, vs[n], where)]]
<1>1. /\ N \in Nat /\ Items(list) \in Seq(ListValues)
      /\ \A n \in 1 .. N : vs[n] \in ListValues
  BY ListIs
<1> HIDE DEF N
<1>2. D \in SUBSET Nat /\ 0 \in D /\ N \in D /\ \A n \in D \ {0} : n - 1 \in D /\ n \in 1 .. N
  BY <1>1
<1>3. list \in I[0]
  <2>1. list \in ListObjects /\ Items(list) = Placed(Items(list), vs, 0, where)
    BY <1>1, ListTyped, PlacedNone
  <2> QED BY <1>2, <2>1 DEF PushedBy
<1>4. ASSUME NEW n \in D \ {0}, NEW x \in I[n - 1]
      PROVE  G[n][x] \in I[n] /\ G[n][x] = listTypePush(x, vs[n], where)
  <2> DEFINE new == listTypePush(x, vs[n], where)
  <2>1. x \in PushedBy(list, vs, where, n - 1) /\ n \in Nat /\ vs[n] \in ListValues /\ n \in D
    BY <1>1, <1>2
  <2> DEFINE t == Placed(Items(list), vs, n - 1, where)
  <2>2. ListOK(x) /\ Few(x) /\ Items(x) = t
    BY <2>1 DEF PushedBy
  <2>3. ListOK(new) /\ Few(new)
        /\ Items(new) = WithAt(t, IF where = "HEAD" THEN 1 ELSE Len(t) + 1, vs[n])
    <3> HIDE DEF t
    <3>1. LET s == Items(x)
          IN  Items(new) = WithAt(s, IF where = "HEAD" THEN 1 ELSE Len(s) + 1, vs[n])
      BY <2>1, <2>2, ListPushed
    <3>2. ListOK(new) /\ Few(new)
      BY <2>1, <2>2, ListPushed
    <3> QED BY <2>2, <3>1, <3>2
  <2>4. G[n][x] = new
    BY <2>1
  <2> HIDE DEF new
  <2>5. Items(new) = Placed(Items(list), vs, n, where)
    <3>1. n \in 1 .. Len(vs)
      BY <1>2 DEF N
    <3>2. WithAt(t, IF where = "HEAD" THEN 1 ELSE Len(t) + 1, vs[n])
             = Placed(Items(list), vs, n, where)
      BY <1>1, <3>1, PlacedOne
    <3> QED BY <2>3, <3>2
  <2>6. new \in PushedBy(list, vs, where, n)
    BY <2>3, <2>5, ListTyped DEF PushedBy
  <2> QED BY <2>1, <2>4, <2>6 DEF new
<1> HIDE DEF D, G, I
<1>5. PICK h : Loop(D, list, G, h) /\ \A n \in D : h[n] \in I[n]
  <2>1. Turning(D, I, list, G)
    BY <1>3, <1>4 DEF Turning
  <2>2. 0 \in D /\ D \in SUBSET Nat /\ \A n \in D \ {0} : n - 1 \in D
    BY <1>2
  <2> QED BY ONLY <2>1, <2>2, LoopSolved
<1>6. /\ h = [n \in D |-> IF n = 0 THEN list ELSE G[n][h[n - 1]]]
      /\ \A n \in D : h[n] \in I[n]
  BY <1>5 DEF Loop
<1> DEFINE P(f) == f = [n \in D |-> IF n = 0 THEN list ELSE listTypePush(f[n - 1], vs[n], where)]
           f == CHOOSE g : P(g)
<1>7. P(h)
  <2>1. \A n \in D : n # 0 => n \in D \ {0} /\ n - 1 \in D
    BY <1>2
  <2>2. \A n \in D : (IF n = 0 THEN list ELSE G[n][h[n - 1]])
                     = IF n = 0 THEN list ELSE listTypePush(h[n - 1], vs[n], where)
    BY <1>4, <1>6, <2>1
  <2> QED BY <1>6, <2>2
<1>8. P(f)
  <2> HIDE DEF P
  <2> QED BY <1>7
<1> DEFINE B == {n \in D : f[n] = h[n]}
<1>9. \A n \in D : n \in B
  <2>1. \A n \in D : f[n] = IF n = 0 THEN list ELSE listTypePush(f[n - 1], vs[n], where)
    <3> HIDE DEF f
    <3> QED BY <1>8
  <2>2. \A n \in D : h[n] = IF n = 0 THEN list ELSE listTypePush(h[n - 1], vs[n], where)
    BY <1>7
  <2> HIDE DEF f, P
  <2>3. 0 \in B
    BY <1>2, <2>1, <2>2
  <2>4. ASSUME NEW n \in D \ {0}, n - 1 \in B PROVE n \in B
    BY <1>2, <2>1, <2>2, <2>4
  <2> HIDE DEF B
  <2>5. D \in SUBSET Nat /\ \A n \in D \ {0} : n - 1 \in D
    BY <1>2
  <2> QED BY <2>3, <2>4, <2>5, Upwards
<1>10. f[N] \in PushedBy(list, vs, where, N)
  <2>1. N \in B
    <3> HIDE DEF B
    <3> QED BY <1>2, <1>9
  <2> HIDE DEF f
  <2>2. f[N] = h[N] /\ h[N] \in I[N]
    BY <1>2, <1>6, <2>1
  <2> QED BY <1>2, <2>2 DEF I
<1>11. PushAll(list, vs, where) = f[N]
  BY DEF PushAll, D, N
<1>12. Len(Placed(Items(list), vs, N, where)) = Len(Items(list)) + N
  BY <1>1, PlacedLength DEF N
<1> HIDE DEF f
<1> QED BY <1>10, <1>11, <1>12 DEF PushedBy, N

\* How many values go in.
LEMMA AdmittedIs ==
    ASSUME NEW list, ListOK(list), NEW n \in Nat
    PROVE  Admitted(list, n) \in 0 .. n
<1> DEFINE d == list_max_size - listTypeLength(list)
           m == Max({d, 0})
<1>1. d \in Int
  BY ListIs, ListConstants
<1> HIDE DEF d
<1>2. m = IF d > 0 THEN d ELSE 0
  BY <1>1 DEF Max
<1> HIDE DEF m
<1>3. m \in Nat
  BY <1>1, <1>2
<1>4. Min({n, m}) = IF n < m THEN n ELSE m
  BY <1>3 DEF Min
<1> QED BY <1>3, <1>4 DEF Admitted, d, m

\* A value taken away and another one put in its place.
LEMMA PutBack ==
    ASSUME NEW S, NEW s \in Seq(S), NEW p \in 1 .. Len(s), NEW v \in S
    PROVE  WithAt(WithoutFrom(s, p, p + 1), p, v) = [s EXCEPT ![p] = v]
<1> DEFINE n == Len(s)
           t == WithoutFrom(s, p, p + 1)
           Value(i) == IF i < p THEN t[i] ELSE IF i = p THEN v ELSE t[i - 1]
<1>1. n \in Nat /\ p \in 1 .. n /\ s = [i \in 1 .. n |-> s[i]]
  OBVIOUS
<1> HIDE DEF n
<1>2. t = [i \in 1 .. n - 1 |-> IF i < p THEN s[i] ELSE s[i + 1]]
  <2>1. n - (p + 1 - p) = n - 1 /\ (p + 1) - p = 1
    BY <1>1
  <2> QED BY <2>1 DEF WithoutFrom, n
<1>3. Len(t) + 1 = n
  <2>1. n - 1 \in Nat
    BY <1>1
  <2> HIDE DEF t
  <2> QED BY <1>1, <1>2, <2>1
<1>4. WithAt(t, p, v) = [i \in 1 .. n |-> Value(i)]
  <2> HIDE DEF t
  <2> QED BY <1>3 DEF WithAt
<1> HIDE DEF t
<1>5. \A i \in 1 .. n : Value(i) = IF i = p THEN v ELSE s[i]
  <2> TAKE i \in 1 .. n
  <2>1. CASE i < p
    <3>1. i \in 1 .. n - 1
      BY <1>1, <2>1
    <3> QED BY <1>1, <1>2, <2>1, <3>1
  <2>2. CASE i > p
    <3>1. i - 1 \in 1 .. n - 1 /\ ~(i - 1 < p) /\ (i - 1) + 1 = i
      BY <1>1, <2>2
    <3> QED BY <1>1, <1>2, <2>2, <3>1
  <2> QED BY <1>1, <2>1, <2>2
<1> HIDE DEF Value
<1>6. [s EXCEPT ![p] = v] = [i \in 1 .. n |-> IF i = p THEN v ELSE s[i]]
  BY <1>1
<1> QED BY <1>4, <1>5, <1>6 DEF t

\* A value in the place of another.
LEMMA ListReplaced ==
    ASSUME NEW list, ListOK(list), Few(list), NEW v \in ListValues,
           IsZiplist(list) => v \in ShortValues, NEW p \in 1 .. Len(Items(list))
    PROVE  LET new == Replaced(list, p, v)
           IN  /\ ListOK(new) /\ Few(new) /\ Len(Items(new)) = Len(Items(list))
               /\ Items(new) = [Items(list) EXCEPT ![p] = v]
<1> DEFINE s == Items(list)
           n == Len(s)
           new == Replaced(list, p, v)
<1>1. s \in Seq(ListValues) /\ n \in Nat /\ p \in 1 .. n
  BY ListIs
<1>2. CASE IsZiplist(list)
  <2> DEFINE less == listTypeDelete(list, p)
             back == listTypeInsert(less, p, v)
  <2>1. /\ ListOK(less) /\ IsZiplist(less) /\ Len(Items(less)) = n - 1
        /\ Items(less) = WithoutFrom(s, p, p + 1)
    BY <1>2, ListDeleted
  <2> HIDE DEF less, n
  <2>2. p \in 1 .. Len(Items(less)) + 1
    BY <1>1, <2>1
  <2>3. /\ ListOK(back) /\ IsZiplist(back) /\ Len(Items(back)) = Len(Items(less)) + 1
        /\ Items(back) = WithAt(Items(less), p, v)
    BY <1>2, <2>1, <2>2, ListInserted
  <2>4. Len(Items(back)) = n
    BY <1>1, <2>1, <2>3
  <2>5. new = back
    BY <1>2 DEF Replaced, less
  <2>6. Items(back) = [s EXCEPT ![p] = v]
    <3>1. p \in 1 .. Len(s) /\ v \in ListValues
      BY <1>1 DEF n
    <3> HIDE DEF s, back
    <3>2. WithAt(WithoutFrom(s, p, p + 1), p, v) = [s EXCEPT ![p] = v]
      BY ONLY <1>1, <3>1, PutBack
    <3> QED BY <2>1, <2>3, <3>2
  <2> HIDE DEF s, new, back
  <2>7. ListOK(new) /\ Len(Items(new)) = n /\ Items(new) = [s EXCEPT ![p] = v] /\ IsZiplist(new)
    BY <2>3, <2>4, <2>5, <2>6
  <2>8. Few(new)
    BY <1>2, <2>7 DEF Few, n, s
  <2> QED BY <2>7, <2>8 DEF n, s, new
<1>3. CASE ~IsZiplist(list)
  <2> DEFINE l == list.ptr
             m == [l EXCEPT ![p] = v]
  <2>1. list = [enc |-> LINKEDLIST, ptr |-> l] /\ l = s
    BY <1>3, ListIs
  <2>2. m \in Seq(ListValues) /\ Len(m) = n
    <3>1. l \in Seq(ListValues) /\ Len(l) = n
      BY <1>1, <2>1
    <3> HIDE DEF l, s, n
    <3>2. /\ DOMAIN l = 1 .. n /\ l = [i \in 1 .. n |-> l[i]]
          /\ \A i \in 1 .. n : l[i] \in ListValues
      BY <3>1
    <3>3. m = [i \in 1 .. n |-> IF i = p THEN v ELSE l[i]]
      BY <3>2
    <3>4. \A i \in 1 .. n : (IF i = p THEN v ELSE l[i]) \in ListValues
      BY <3>2
    <3> HIDE DEF m
    <3> QED BY <1>1, <3>3, <3>4
  <2>3. new = [enc |-> LINKEDLIST, ptr |-> m]
    <3> HIDE DEF l
    <3> QED BY <1>3, <2>1 DEF Replaced
  <2> HIDE DEF l, m, new, n, s
  <2>4. ListOK(new) /\ ~IsZiplist(new) /\ Items(new) = m
    BY <2>2, <2>3, LinkedListOK
  <2>5. m = [s EXCEPT ![p] = v]
    BY <2>1 DEF m
  <2> HIDE DEF m
  <2> QED BY <2>2, <2>4, <2>5 DEF Few, n, s, new
<1> QED BY <1>2, <1>3

\* A range of a ziplist deleted leaves a short one.
LEMMA RangeDeleted ==
    ASSUME NEW z, ZiplistOK(z), ZiplistValues(z) \in Seq(ShortValues),
           NEW index \in Int, NEW num \in Nat
    PROVE  LET y == ziplistDeleteRange(z, index, num)
           IN  /\ ZiplistOK(y) /\ ZiplistValues(y) \in Seq(ShortValues)
               /\ Len(ZiplistValues(y)) <= Len(ZiplistValues(z))
<1> DEFINE s == ZiplistValues(z)
           n == Len(s)
           p == listIndex(s, index)
           q == DeleteEnd(z, p, num)
           y == ziplistDeleteRange(z, index, num)
<1>1. n \in Nat /\ End(z) = n + 1
  BY ZiplistParts
<1>2. ZiplistOK(y) /\ ZiplistValues(y) = IF p = 0 THEN s ELSE WithoutFrom(s, p, q)
  BY DeleteRangeHolds
<1>3. p = 0 \/ p \in 1 .. n
  BY ListIndexIs
<1> HIDE DEF p, y, n
<1>4. CASE p = 0
  BY <1>1, <1>2, <1>4 DEF y, n
<1>5. CASE p \in 1 .. n
  <2>1. p # 0 /\ p \in 1 .. n + 1 /\ q \in p .. n + 1
    BY <1>1, <1>5 DEF DeleteEnd
  <2> HIDE DEF q, s
  <2>2. s \in Seq(ShortValues) /\ n = Len(s)
    BY DEF s, n
  <2>3. WithoutFrom(s, p, q) \in Seq(ShortValues) /\ Len(WithoutFrom(s, p, q)) = n - (q - p)
    BY ONLY <2>1, <2>2, WithoutIs
  <2>4. n - (q - p) <= n
    BY <1>1, <2>1
  <2> QED BY <1>2, <2>1, <2>2, <2>3, <2>4 DEF s, y
<1> QED BY <1>3, <1>4, <1>5

\* A list trimmed.
LEMMA ListTrimmed ==
    ASSUME NEW list, ListOK(list), Few(list), NEW ltrim \in Nat, NEW rtrim \in Nat
    PROVE  LET new == Trimmed(list, ltrim, rtrim)
           IN  ListOK(new) /\ Few(new)
<1> DEFINE s == Items(list)
           n == Len(s)
           new == Trimmed(list, ltrim, rtrim)
<1>1. s \in Seq(ListValues) /\ n \in Nat
  BY ListIs
<1>2. CASE IsZiplist(list)
  <2> DEFINE z == list.ptr
             y == ziplistDeleteRange(z, 0, ltrim)
             x == ziplistDeleteRange(y, -rtrim, rtrim)
  <2>1. list = [enc |-> ZIPLIST, ptr |-> z] /\ ZiplistOK(z) /\ s = ZiplistValues(z)
        /\ ZiplistValues(z) \in Seq(ShortValues)
    BY <1>2, ListIs
  <2>2. /\ ZiplistOK(y) /\ ZiplistValues(y) \in Seq(ShortValues)
        /\ Len(ZiplistValues(y)) <= n
    <3>1. 0 \in Int
      OBVIOUS
    <3> QED BY <2>1, <3>1, RangeDeleted
  <2> HIDE DEF y
  <2>3. /\ ZiplistOK(x) /\ ZiplistValues(x) \in Seq(ShortValues)
        /\ Len(ZiplistValues(x)) <= Len(ZiplistValues(y))
    <3>1. -rtrim \in Int
      OBVIOUS
    <3> QED BY <2>2, <3>1, RangeDeleted
  <2> HIDE DEF x
  <2>4. Len(ZiplistValues(x)) <= n
    <3>1. Len(ZiplistValues(x)) \in Nat /\ Len(ZiplistValues(y)) \in Nat
      BY <2>2, <2>3
    <3> HIDE DEF n
    <3> QED BY <1>1, <2>2, <2>3, <3>1
  <2>5. new = [enc |-> ZIPLIST, ptr |-> x]
    <3> HIDE DEF z
    <3> QED BY <1>2, <2>1 DEF Trimmed, x, y
  <2> HIDE DEF new, n
  <2>6. ListOK(new) /\ IsZiplist(new) /\ Items(new) = ZiplistValues(x)
    BY <2>3, <2>5, ZiplistListOK
  <2>7. n <= list_max_ziplist_entries
    BY <1>2 DEF Few, n
  <2>8. Len(Items(new)) \in Nat /\ Len(Items(new)) <= n
    BY <2>3, <2>4, <2>6
  <2> HIDE DEF s
  <2> QED BY <1>1, <2>6, <2>7, <2>8, ListConstants DEF Few, new
<1>3. CASE ~IsZiplist(list)
  <2> DEFINE l == list.ptr
             m == SubSeq(l, ltrim + 1, Len(l) - rtrim)
  <2>1. list = [enc |-> LINKEDLIST, ptr |-> l] /\ l = s
    BY <1>3, ListIs
  <2>2. m \in Seq(ListValues)
    <3> HIDE DEF l, s
    <3>1. l \in Seq(ListValues) /\ Len(l) \in Nat
      BY <1>1, <2>1
    <3> QED BY <3>1
  <2>3. new = [enc |-> LINKEDLIST, ptr |-> m]
    <3>1. new = [list EXCEPT !.ptr = m]
      BY <1>3 DEF Trimmed
    <3> HIDE DEF l, m, new
    <3> QED BY <2>1, <3>1
  <2> HIDE DEF m, new
  <2>4. ListOK(new) /\ ~IsZiplist(new)
    BY <2>2, <2>3, LinkedListOK
  <2> QED BY <2>4 DEF Few, new
<1> QED BY <1>2, <1>3

\* A range deleted from the head of a ziplist, and one from its end.
LEMMA HeadDeleted ==
    ASSUME NEW z, ZiplistOK(z), NEW k \in 0 .. Len(ZiplistValues(z))
    PROVE  LET s == ZiplistValues(z)
           IN  ZiplistValues(ziplistDeleteRange(z, 0, k)) = [i \in 1 .. Len(s) - k |-> s[i + k]]
<1> DEFINE s == ZiplistValues(z)
           n == Len(s)
           p == listIndex(s, 0)
           q == DeleteEnd(z, p, k)
           t == ZiplistValues(ziplistDeleteRange(z, 0, k))
<1>1. s \in Seq(ListValues) /\ n \in Nat /\ End(z) = n + 1
  BY ZiplistParts
<1>2. k \in Nat /\ k <= n /\ 0 \in Int
  BY <1>1
<1>3. p = IF 1 \in 1 .. n THEN 1 ELSE 0
  <2>1. ~(0 < 0) /\ 0 + 1 = 1
    OBVIOUS
  <2> HIDE DEF s
  <2> QED BY <1>1, <1>2, <2>1, ListIndexIs
<1>4. t = IF p = 0 THEN s ELSE WithoutFrom(s, p, q)
  BY <1>2, DeleteRangeHolds
<1> HIDE DEF p, q, t, s
<1>5. s = [i \in 1 .. n |-> s[i]]
  BY <1>1
<1>6. t = [i \in 1 .. n - k |-> s[i + k]]
  <2>1. CASE n = 0
    <3>1. p = 0 /\ k = 0 /\ n - k = n
      BY <1>2, <1>3, <2>1
    <3>2. \A i \in 1 .. n : s[i + k] = s[i]
      BY <2>1
    <3> QED BY <1>4, <1>5, <3>1, <3>2
  <2>2. CASE n # 0
    <3>1. p = 1
      BY <1>1, <1>3, <2>2
    <3>2. q = 1 + k
      BY <1>1, <1>2, <3>1 DEF DeleteEnd, q
    <3>3. t = WithoutFrom(s, 1, 1 + k)
      BY <1>4, <3>1, <3>2
    <3>4. (1 + k) - 1 = k
      BY <1>2
    <3>5. t = [i \in 1 .. n - k |-> IF i < 1 THEN s[i] ELSE s[i + k]]
      BY <3>3, <3>4 DEF WithoutFrom, n
    <3>6. \A i \in 1 .. n - k : ~(i < 1)
      BY <1>1, <1>2
    <3> QED BY <3>5, <3>6
  <2> QED BY <2>1, <2>2
<1> QED BY <1>6 DEF t, n, s

LEMMA EndDeleted ==
    ASSUME NEW z, ZiplistOK(z), NEW k \in 0 .. Len(ZiplistValues(z))
    PROVE  LET s == ZiplistValues(z)
           IN  ZiplistValues(ziplistDeleteRange(z, -k, k)) = [i \in 1 .. Len(s) - k |-> s[i]]
<1> DEFINE s == ZiplistValues(z)
           n == Len(s)
           p == listIndex(s, -k)
           q == DeleteEnd(z, p, k)
           t == ZiplistValues(ziplistDeleteRange(z, -k, k))
<1>1. s \in Seq(ListValues) /\ n \in Nat /\ End(z) = n + 1
  BY ZiplistParts
<1>2. k \in Nat /\ k <= n /\ -k \in Int
  BY <1>1
<1>3. p = IF k = 0 THEN IF n = 0 THEN 0 ELSE 1 ELSE n - k + 1
  <2> DEFINE place == IF -k < 0 THEN n + (-k) + 1 ELSE -k + 1
  <2> HIDE DEF s
  <2>1. p = IF place \in 1 .. n THEN place ELSE 0
    BY <1>1, <1>2, ListIndexIs
  <2>2. k = 0 => place = 1 /\ (place \in 1 .. n <=> n # 0)
    BY <1>1
  <2>3. k # 0 => place = n - k + 1 /\ place \in 1 .. n /\ k > 0
    BY <1>1, <1>2
  <2> HIDE DEF place, p
  <2> QED BY <2>1, <2>2, <2>3
<1>4. t = IF p = 0 THEN s ELSE WithoutFrom(s, p, q)
  BY <1>2, DeleteRangeHolds
<1> HIDE DEF p, q, t, s
<1>5. s = [i \in 1 .. n |-> s[i]]
  BY <1>1
<1>6. t = [i \in 1 .. n - k |-> s[i]]
  <2>1. CASE n = 0
    <3>1. p = 0 /\ k = 0 /\ n - k = n
      BY <1>2, <1>3, <2>1
    <3> QED BY <1>4, <1>5, <3>1
  <2>2. CASE n # 0
    <3>1. p # 0 /\ p \in Nat /\ q \in Nat /\ q - p = k /\ (k # 0 => p = n - k + 1)
      BY <1>1, <1>2, <1>3, <2>2 DEF DeleteEnd, q
    <3>2. t = [i \in 1 .. n - k |-> IF i < p THEN s[i] ELSE s[i + k]]
      BY <1>4, <3>1 DEF WithoutFrom, n
    <3>3. \A i \in 1 .. n - k : (IF i < p THEN s[i] ELSE s[i + k]) = s[i]
      <4> TAKE i \in 1 .. n - k
      <4>1. k = 0 => s[i + k] = s[i]
        BY <1>1
      <4>2. k # 0 => i < p
        BY <1>1, <1>2, <3>1
      <4> QED BY <4>1, <4>2
    <3> QED BY <3>2, <3>3
  <2> QED BY <2>1, <2>2
<1> QED BY <1>6 DEF t, n, s

\* What a trim leaves.
LEMMA TrimmedItems ==
    ASSUME NEW list, ListOK(list), NEW ltrim \in Nat, NEW rtrim \in Nat,
           ltrim + rtrim <= Len(Items(list))
    PROVE  LET s == Items(list)
           IN  Items(Trimmed(list, ltrim, rtrim)) = SubSeq(s, ltrim + 1, Len(s) - rtrim)
<1> DEFINE s == Items(list)
           n == Len(s)
           k == n - ltrim - rtrim
           new == Trimmed(list, ltrim, rtrim)
<1>1. s \in Seq(ListValues) /\ n \in Nat
  BY ListIs
<1>2. k \in Nat /\ n - rtrim = ltrim + k /\ ltrim + k <= n
  BY <1>1
<1>3. SubSeq(s, ltrim + 1, n - rtrim) = [i \in 1 .. k |-> s[i + ltrim]]
  <2> HIDE DEF k
  <2>1. SubSeq(s, ltrim + 1, ltrim + k) = [i \in 1 .. k |-> s[i + ltrim]]
    <3> HIDE DEF s
    <3>1. ltrim + k <= Len(s)
      BY <1>2
    <3> QED BY <1>1, <1>2, <3>1, SubSeqIs
  <2> QED BY <1>2, <2>1
<1>4. CASE IsZiplist(list)
  <2> DEFINE z == list.ptr
             y == ziplistDeleteRange(z, 0, ltrim)
             x == ziplistDeleteRange(y, -rtrim, rtrim)
             u == ZiplistValues(y)
  <2>1. list = [enc |-> ZIPLIST, ptr |-> z] /\ ZiplistOK(z) /\ s = ZiplistValues(z)
        /\ ZiplistValues(z) \in Seq(ShortValues)
    BY <1>4, ListIs
  <2>2. ltrim \in 0 .. Len(ZiplistValues(z))
    BY <1>1, <2>1
  <2>3. u = [i \in 1 .. n - ltrim |-> s[i + ltrim]]
    <3> HIDE DEF z
    <3> QED BY <2>1, <2>2, HeadDeleted
  <2>4. ZiplistOK(y)
    <3>1. 0 \in Int
      OBVIOUS
    <3> QED BY <2>1, <3>1, RangeDeleted
  <2> HIDE DEF y, s, n
  <2>5. Len(u) = n - ltrim
    <3>1. n - ltrim \in Nat
      BY <1>1, <1>2
    <3> HIDE DEF u
    <3> QED BY <2>3, <3>1
  <2>6. rtrim \in 0 .. Len(u)
    BY <1>1, <1>2, <2>5
  <2>7. ZiplistValues(x) = [i \in 1 .. Len(u) - rtrim |-> u[i]]
    BY <2>4, <2>6, EndDeleted
  <2> HIDE DEF x, u
  <2>8. \A i \in 1 .. k : u[i] = s[i + ltrim]
    <3>1. \A i \in 1 .. k : i \in 1 .. n - ltrim
      BY <1>1, <1>2
    <3> QED BY <2>3, <3>1
  <2>9. ZiplistValues(x) = [i \in 1 .. k |-> s[i + ltrim]]
    BY <2>5, <2>7, <2>8
  <2>10. new = [enc |-> ZIPLIST, ptr |-> x]
    <3> HIDE DEF z
    <3> QED BY <1>4, <2>1 DEF Trimmed, x, y
  <2>11. Items(new) = ZiplistValues(x)
    <3> HIDE DEF new
    <3> QED BY <2>10 DEF Items, IsZiplist
  <2> QED BY <1>3, <2>9, <2>11 DEF n, s
<1>5. CASE ~IsZiplist(list)
  <2> DEFINE l == list.ptr
             m == SubSeq(l, ltrim + 1, Len(l) - rtrim)
  <2>1. list = [enc |-> LINKEDLIST, ptr |-> l] /\ l = s
    BY <1>5, ListIs
  <2>2. new = [enc |-> LINKEDLIST, ptr |-> m]
    <3>1. new = [list EXCEPT !.ptr = m]
      BY <1>5 DEF Trimmed
    <3> HIDE DEF l, m, new
    <3> QED BY <2>1, <3>1
  <2>3. m = SubSeq(s, ltrim + 1, Len(s) - rtrim)
    BY <2>1
  <2> HIDE DEF m, new
  <2>4. Items(new) = m
    BY <2>2 DEF Items, IsZiplist, ZIPLIST, LINKEDLIST
  <2> QED BY <2>3, <2>4 DEF new
<1> QED BY <1>4, <1>5

\* How much is trimmed is never negative.
LEMMA TrimsAre ==
    ASSUME NEW llen \in Nat, NEW start \in Int, NEW end \in Int
    PROVE  Start(start, llen) \in Nat /\ llen - Finish(end, llen) - 1 \in Nat
<1> DEFINE a == IF start < 0 THEN llen + start ELSE start
           b == IF end < 0 THEN llen + end ELSE end
           c == llen - 1
<1>1. a \in Int /\ b \in Int /\ c \in Int
  OBVIOUS
<1> HIDE DEF a, b, c
<1>2. Max({0, a}) \in Nat
  <2>1. Max({0, a}) = IF a > 0 THEN a ELSE 0
    BY <1>1 DEF Max
  <2> QED BY <1>1, <2>1
<1>3. Min({c, b}) \in Int /\ Min({c, b}) <= c
  <2>1. Min({c, b}) = IF b < c THEN b ELSE c
    BY <1>1 DEF Min
  <2> QED BY <1>1, <2>1
<1>4. Start(start, llen) = Max({0, a}) /\ Finish(end, llen) = Min({c, b})
  BY DEF Start, Finish, a, b, c
<1>5. llen - Min({c, b}) - 1 \in Nat
  <2> DEFINE m == Min({c, b})
  <2> HIDE DEF m
  <2>1. m \in Int /\ m <= llen - 1
    BY <1>3 DEF m, c
  <2>2. llen - m - 1 \in Nat
    BY <2>1
  <2> QED BY <2>2 DEF m
<1> QED BY <1>2, <1>4, <1>5

\* What the loop of a pop may hold.
Popping == {s \in [list : ListObjects, out : Seq(ListValues)] : ListOK(s.list) /\ Few(s.list)}

\* One turn of it.
LEMMA PopHolds ==
    ASSUME NEW s \in Popping, NEW where
    PROVE  PopTurn(s, where) \in Popping
<1> DEFINE index == IF where = "HEAD" THEN 0 ELSE -1
           p == listTypeIndex(s.list, index)
           less == listTypeDelete(s.list, p)
           w == Items(s.list)
           out == Append(s.out, w[p])
<1>1. ListOK(s.list) /\ Few(s.list) /\ s.out \in Seq(ListValues)
  BY DEF Popping
<1>2. w \in Seq(ListValues) /\ Len(w) \in Nat
  BY <1>1, ListIs
<1>3. p = 0 \/ p \in 1 .. Len(w)
  <2>1. index \in Int
    OBVIOUS
  <2> HIDE DEF index
  <2> QED BY <1>1, <2>1, FoundIs
<1>4. PopTurn(s, where) = IF p = 0 THEN s ELSE [list |-> less, out |-> out]
  BY DEF PopTurn
<1> HIDE DEF p
<1>5. CASE p \in 1 .. Len(w)
  <2>1. ListOK(less) /\ (IsZiplist(less) <=> IsZiplist(s.list)) /\ Len(Items(less)) = Len(w) - 1
    BY <1>1, <1>5, ListDeleted
  <2> HIDE DEF less
  <2>2. Few(less) /\ less \in ListObjects
    BY <1>1, <1>2, <2>1, ListTyped, ListConstants DEF Few
  <2>3. out \in Seq(ListValues)
    <3>1. w[p] \in ListValues
      BY <1>2, <1>5
    <3> QED BY <1>1, <3>1
  <2> HIDE DEF out
  <2>4. [list |-> less, out |-> out] \in Popping
    BY <2>1, <2>2, <2>3 DEF Popping
  <2> QED BY <1>4, <1>5, <2>4
<1> QED BY <1>3, <1>4, <1>5

\* A value more at the end.
LEMMA AppendIs ==
    ASSUME NEW S, NEW s \in Seq(S), NEW v \in S
    PROVE  Append(s, v) = [i \in 1 .. Len(s) + 1 |-> IF i <= Len(s) THEN s[i] ELSE v]
<1> DEFINE n == Len(s)
           r == Append(s, v)
<1>1. /\ r \in Seq(S) /\ Len(r) = n + 1 /\ n \in Nat
      /\ \A i \in 1 .. n : r[i] = s[i]
      /\ r[n + 1] = v
  BY AppendProperties
<1> HIDE DEF r, n
<1>2. r = [i \in 1 .. n + 1 |-> r[i]]
  <2>1. r = [i \in 1 .. Len(r) |-> r[i]]
    BY <1>1
  <2> QED BY <1>1, <2>1
<1>3. \A i \in 1 .. n + 1 : r[i] = IF i <= n THEN s[i] ELSE v
  <2> TAKE i \in 1 .. n + 1
  <2>1. i <= n => i \in 1 .. n
    BY <1>1
  <2>2. ~(i <= n) => i = n + 1
    BY <1>1
  <2> QED BY <1>1, <2>1, <2>2
<1> QED BY <1>2, <1>3 DEF n, r

\* What m pops leave of the values s, and what they give.
PopsLeave(s, m, where) ==
    [i \in 1 .. Len(s) - m |-> IF where = "HEAD" THEN s[i + m] ELSE s[i]]
PopsGive(s, m, where) ==
    [i \in 1 .. m |-> IF where = "HEAD" THEN s[i] ELSE s[Len(s) + 1 - i]]
Popped(n, size) == IF n < size THEN n ELSE size

PoppedBy(list, where, n) == {x \in Popping :
    LET s == Items(list)
        m == Popped(n, Len(s))
    IN  Items(x.list) = PopsLeave(s, m, where) /\ x.out = PopsGive(s, m, where)}

LEMMA NonePopped ==
    ASSUME NEW list, ListOK(list), Few(list), NEW where
    PROVE  [list |-> list, out |-> <<>>] \in PoppedBy(list, where, 0)
<1> DEFINE s == Items(list)
           n == Len(s)
           x == [list |-> list, out |-> <<>>]
<1>1. s \in Seq(ListValues) /\ n \in Nat
  BY ListIs
<1>2. s = [i \in 1 .. n |-> s[i]]
  BY <1>1
<1>3. x \in Popping
  BY ListTyped DEF Popping
<1> HIDE DEF s, n
<1>4. Popped(0, n) = 0
  BY <1>1 DEF Popped
<1>5. PopsLeave(s, 0, where) = s
  <2>1. n - 0 = n /\ \A i \in 1 .. n : (IF where = "HEAD" THEN s[i + 0] ELSE s[i]) = s[i]
    BY <1>1
  <2>2. PopsLeave(s, 0, where) = [i \in 1 .. n |-> s[i]]
    BY <2>1 DEF PopsLeave, n
  <2> QED BY <1>2, <2>2
<1>6. PopsGive(s, 0, where) = <<>>
  BY DEF PopsGive
<1> QED BY <1>3, <1>4, <1>5, <1>6 DEF PoppedBy, s, n

LEMMA OnePopped ==
    ASSUME NEW list, ListOK(list), NEW where, NEW n \in Nat, NEW x \in PoppedBy(list, where, n)
    PROVE  PopTurn(x, where) \in PoppedBy(list, where, n + 1)
<1> DEFINE s == Items(list)
           size == Len(s)
           m == Popped(n, size)
           index == IF where = "HEAD" THEN 0 ELSE -1
           p == listTypeIndex(x.list, index)
           less == listTypeDelete(x.list, p)
           w == Items(x.list)
           out == Append(x.out, w[p])
           new == PopTurn(x, where)
<1>1. /\ x \in Popping /\ ListOK(x.list) /\ x.out \in Seq(ListValues)
      /\ w = PopsLeave(s, m, where) /\ x.out = PopsGive(s, m, where)
  BY DEF PoppedBy, Popping
<1>2. s \in Seq(ListValues) /\ size \in Nat /\ w \in Seq(ListValues) /\ Len(w) \in Nat
  BY <1>1, ListIs
<1>3. new \in Popping
  BY <1>1, PopHolds
<1>4. new = IF p = 0 THEN x ELSE [list |-> less, out |-> out]
  BY DEF PopTurn
<1>5. p = IF where = "HEAD" THEN IF Len(w) = 0 THEN 0 ELSE 1 ELSE Len(w)
  <2> DEFINE place == IF index < 0 THEN Len(w) + index + 1 ELSE index + 1
  <2>1. index \in Int
    OBVIOUS
  <2> HIDE DEF index
  <2>2. p = IF place \in 1 .. Len(w) THEN place ELSE 0
    BY <1>1, <2>1, FoundIs
  <2>3. place = IF where = "HEAD" THEN 1 ELSE Len(w)
    BY <1>2 DEF index
  <2> HIDE DEF place, p, w
  <2> QED BY <1>2, <2>2, <2>3
<1> HIDE DEF s, size, m, w, p, new, out, less
<1>6. Len(w) = size - m /\ m \in Nat /\ m <= size
  <2>1. m \in Nat /\ m <= size /\ size - m \in Nat
    BY <1>2 DEF m, Popped
  <2>2. w = [i \in 1 .. size - m |-> IF where = "HEAD" THEN s[i + m] ELSE s[i]]
    BY <1>1 DEF PopsLeave, size
  <2> QED BY <1>2, <2>1, <2>2
<1>7. CASE m = size
  <2>1. p = 0
    BY <1>2, <1>5, <1>6, <1>7
  <2>2. Popped(n + 1, size) = m
    BY <1>2, <1>7 DEF Popped, m
  <2>3. new = x
    BY <1>4, <2>1
  <2> QED BY <1>1, <2>2, <2>3 DEF PoppedBy, new, s, size, w
<1>8. CASE m # size
  <2>1. m = n /\ m < size /\ Popped(n + 1, size) = m + 1
    BY <1>2, <1>6, <1>8 DEF Popped, m
  <2>2. p \in 1 .. Len(w) /\ p # 0 /\ p = IF where = "HEAD" THEN 1 ELSE size - m
    BY <1>2, <1>5, <1>6, <2>1
  <2>3. new.list = less /\ new.out = out
    BY <1>4, <2>2
  <2>4. Items(less) = WithoutFrom(w, p, p + 1)
    BY <1>1, <2>2, ListDeleted DEF less, w
  <2>5. \A i \in 1 .. size - m : w[i] = IF where = "HEAD" THEN s[i + m] ELSE s[i]
    BY <1>1 DEF PopsLeave, size
  <2>6. Items(less) = PopsLeave(s, m + 1, where)
    <3>1. Items(less) = [i \in 1 .. size - (m + 1) |-> IF i < p THEN w[i] ELSE w[i + 1]]
      <4>1. (p + 1) - p = 1 /\ Len(w) - 1 = size - (m + 1)
        BY <1>2, <1>6, <2>2
      <4> QED BY <2>4, <4>1 DEF WithoutFrom
    <3>2. \A i \in 1 .. size - (m + 1) : (IF i < p THEN w[i] ELSE w[i + 1])
                                         = IF where = "HEAD" THEN s[i + (m + 1)] ELSE s[i]
      <4> TAKE i \in 1 .. size - (m + 1)
      <4>1. i \in 1 .. size - m /\ i + 1 \in 1 .. size - m /\ (i + 1) + m = i + (m + 1)
        BY <1>2, <1>6
      <4>2. CASE where = "HEAD"
        <5>1. ~(i < p)
          BY <2>2, <4>2
        <5> QED BY <2>5, <4>1, <4>2, <5>1
      <4>3. CASE where # "HEAD"
        <5>1. i < p
          BY <1>2, <1>6, <2>2, <4>3
        <5> QED BY <2>5, <4>1, <4>3, <5>1
      <4> QED BY <4>2, <4>3
    <3> QED BY <3>1, <3>2 DEF PopsLeave, size
  <2>7. out = PopsGive(s, m + 1, where)
    <3> DEFINE given == x.out
               last == w[p]
    <3>1. given = [i \in 1 .. m |-> IF where = "HEAD" THEN s[i] ELSE s[size + 1 - i]]
      BY <1>1 DEF PopsGive, size
    <3>2. last = IF where = "HEAD" THEN s[m + 1] ELSE s[size + 1 - (m + 1)]
      <4>1. p \in 1 .. size - m /\ 1 + m = m + 1 /\ size - m = size + 1 - (m + 1)
        BY <1>2, <1>6, <2>2
      <4> QED BY <2>2, <2>5, <4>1
    <3>3. Append(given, last) = [i \in 1 .. m + 1 |-> IF i <= m THEN given[i] ELSE last]
      <4>1. given \in Seq(ListValues) /\ last \in ListValues /\ Len(given) = m
        BY <1>1, <1>2, <1>6, <2>2, <3>1
      <4> HIDE DEF given, last
      <4>2. Append(given, last) = [i \in 1 .. Len(given) + 1 |->
                                     IF i <= Len(given) THEN given[i] ELSE last]
        BY ONLY <4>1, AppendIs
      <4> QED BY <4>1, <4>2
    <3> HIDE DEF given, last
    <3>4. \A i \in 1 .. m + 1 : (IF i <= m THEN given[i] ELSE last)
                                = IF where = "HEAD" THEN s[i] ELSE s[size + 1 - i]
      <4> TAKE i \in 1 .. m + 1
      <4>1. CASE i <= m
        <5>1. i \in 1 .. m
          BY <1>6, <4>1
        <5> QED BY <3>1, <4>1, <5>1
      <4>2. CASE ~(i <= m)
        <5>1. i = m + 1
          BY <1>6, <4>2
        <5> QED BY <3>2, <4>2, <5>1
      <4> QED BY <4>1, <4>2
    <3>5. Append(given, last) = PopsGive(s, m + 1, where)
      BY <3>3, <3>4 DEF PopsGive, size
    <3> QED BY <3>5 DEF out, given, last
  <2> QED BY <1>3, <2>1, <2>3, <2>6, <2>7 DEF PoppedBy, new, s, size
<1> QED BY <1>7, <1>8 DEF new

\* All of them.
Pops(list, where) ==
    LET after[n \in Nat] == IF n = 0 THEN [list |-> list, out |-> <<>>]
                            ELSE PopTurn(after[n - 1], where)
    IN  after

LEMMA AllPopped ==
    ASSUME NEW list, ListOK(list), Few(list), NEW where, NEW count \in Nat
    PROVE  Pops(list, where)[count] \in PoppedBy(list, where, count)
<1> DEFINE a == [list |-> list, out |-> <<>>]
           I == [n \in Nat |-> PoppedBy(list, where, n)]
           G == [n \in Nat |-> [s \in PoppedBy(list, where, n - 1) |-> PopTurn(s, where)]]
<1>1. a \in I[0]
  <2>1. a \in PoppedBy(list, where, 0)
    BY NonePopped
  <2> QED BY <2>1
<1>2. ASSUME NEW n \in Nat \ {0}, NEW s \in I[n - 1]
      PROVE  G[n][s] \in I[n] /\ G[n][s] = PopTurn(s, where)
  <2>1. n \in Nat /\ n - 1 \in Nat /\ s \in PoppedBy(list, where, n - 1) /\ (n - 1) + 1 = n
    OBVIOUS
  <2>2. PopTurn(s, where) \in PoppedBy(list, where, (n - 1) + 1)
    BY ONLY ListOK(list), <2>1, OnePopped
  <2> QED BY <2>1, <2>2
<1> HIDE DEF a, I, G
<1>3. PICK h : Loop(Nat, a, G, h) /\ \A n \in Nat : h[n] \in I[n]
  <2>1. Turning(Nat, I, a, G)
    BY <1>1, <1>2 DEF Turning
  <2> DEFINE D == Nat
  <2>3. 0 \in D /\ D \in SUBSET Nat /\ \A n \in D \ {0} : n - 1 \in D
    OBVIOUS
  <2>4. Turning(D, I, a, G)
    BY <2>1
  <2> HIDE DEF D
  <2>5. \E h : Loop(D, a, G, h) /\ \A n \in D : h[n] \in I[n]
    BY ONLY <2>3, <2>4, LoopSolved
  <2> QED BY <2>5 DEF D
<1>4. /\ h = [n \in Nat |-> IF n = 0 THEN a ELSE G[n][h[n - 1]]]
      /\ \A n \in Nat : h[n] \in I[n]
  BY <1>3 DEF Loop
<1> DEFINE P(f) == f = [n \in Nat |-> IF n = 0 THEN a ELSE PopTurn(f[n - 1], where)]
           f == CHOOSE g : P(g)
<1>5. P(h)
  <2>1. \A n \in Nat : n # 0 => n \in Nat \ {0} /\ n - 1 \in Nat
    OBVIOUS
  <2>2. \A n \in Nat : (IF n = 0 THEN a ELSE G[n][h[n - 1]])
                       = IF n = 0 THEN a ELSE PopTurn(h[n - 1], where)
    BY <1>2, <1>4, <2>1
  <2> QED BY <1>4, <2>2
<1>6. P(f)
  <2> HIDE DEF P
  <2> QED BY <1>5
<1> DEFINE B == {n \in Nat : f[n] = h[n]}
<1>7. \A n \in Nat : n \in B
  <2>1. \A n \in Nat : f[n] = IF n = 0 THEN a ELSE PopTurn(f[n - 1], where)
    <3> HIDE DEF f
    <3> QED BY <1>6
  <2>2. \A n \in Nat : h[n] = IF n = 0 THEN a ELSE PopTurn(h[n - 1], where)
    BY <1>5
  <2> HIDE DEF f, P
  <2>3. 0 \in B
    BY <2>1, <2>2
  <2>4. ASSUME NEW n \in Nat \ {0}, n - 1 \in B PROVE n \in B
    BY <2>1, <2>2, <2>4
  <2> HIDE DEF B
  <2>5. Nat \in SUBSET Nat /\ \A n \in Nat \ {0} : n - 1 \in Nat
    OBVIOUS
  <2> QED BY <2>3, <2>4, <2>5, Upwards
<1>8. f[count] \in PoppedBy(list, where, count)
  <2>1. f[count] = h[count] /\ h[count] \in I[count]
    <3>1. count \in B
      <4> HIDE DEF B
      <4> QED BY <1>7
    <3> HIDE DEF f
    <3> QED BY <1>4, <3>1
  <2> HIDE DEF f
  <2> QED BY <2>1 DEF I
<1> QED BY <1>8 DEF f, P, a, Pops

\* How many of the positions K are not behind i, and whether t is what is left
\* of s when only the positions K stay.
Rank(K, i) == Cardinality({j \in K : j <= i})
LeftOf(s, K, t) == Len(t) = Cardinality(K) /\ \A i \in K : t[Rank(K, i)] = s[i]

\* Positions are finitely many.
LEMMA PlacesFinite ==
    ASSUME NEW N \in Nat, NEW K \in SUBSET (1 .. N)
    PROVE  /\ IsFiniteSet(K) /\ Cardinality(K) \in Nat /\ Cardinality(K) <= N
           /\ \A j \in K : j \in Int
<1> DEFINE T == 1 .. N
<1>1. K \in SUBSET T /\ 1 \in Int /\ N \in Int /\ \A j \in K : j \in Int
  OBVIOUS
<1>2. IsFiniteSet(T) /\ Cardinality(T) = N
  <2>1. IsFiniteSet(1 .. N) /\ Cardinality(1 .. N) = IF 1 > N THEN 0 ELSE N - 1 + 1
    BY ONLY <1>1, FS_Interval
  <2> QED BY <2>1
<1> HIDE DEF T
<1>3. IsFiniteSet(K) /\ Cardinality(K) <= Cardinality(T)
  BY ONLY <1>1, <1>2, FS_Subset
<1>4. Cardinality(K) \in Nat
  BY <1>3, FS_CardinalityType
<1> QED BY <1>1, <1>2, <1>3, <1>4

LEMMA RankIs ==
    ASSUME NEW N \in Nat, NEW K \in SUBSET (1 .. N), NEW i \in K
    PROVE  /\ IsFiniteSet(K) /\ Cardinality(K) \in Nat
           /\ Rank(K, i) \in 1 .. Cardinality(K)
           /\ \A j \in K : j < i => Rank(K, j) < Rank(K, i)
           /\ Cardinality(K \ {i}) = Cardinality(K) - 1
<1> DEFINE Upto(j) == {k \in K : k <= j}
<1>1. IsFiniteSet(K) /\ Cardinality(K) \in Nat /\ \A j \in K : j \in Int
  BY PlacesFinite
<1>2. ASSUME NEW j \in K
      PROVE  /\ IsFiniteSet(Upto(j)) /\ j \in Upto(j) /\ Rank(K, j) = Cardinality(Upto(j))
             /\ Cardinality(Upto(j)) \in 1 .. Cardinality(K)
  <2>1. Upto(j) \subseteq K /\ j \in Upto(j)
    OBVIOUS
  <2>2. Rank(K, j) = Cardinality(Upto(j))
    BY DEF Rank
  <2> HIDE DEF Upto
  <2>3. IsFiniteSet(Upto(j)) /\ Cardinality(Upto(j)) <= Cardinality(K)
    BY <1>1, <2>1, FS_Subset
  <2>4. Cardinality(Upto(j)) \in Nat /\ Cardinality(Upto(j)) # 0
    BY <2>1, <2>3, FS_CardinalityType, FS_EmptySet
  <2> QED BY <1>1, <2>1, <2>2, <2>3, <2>4
<1>3. ASSUME NEW j \in K, j < i PROVE Rank(K, j) < Rank(K, i)
  <2>1. Upto(j) \subseteq Upto(i) /\ i \notin Upto(j) /\ i \in Upto(i)
    <3>1. \A k \in K : k <= j => k <= i
      BY <1>1, <1>3
    <3>2. ~(i <= j) /\ i <= i
      BY <1>1, <1>3
    <3> QED BY <3>1, <3>2
  <2>2. /\ IsFiniteSet(Upto(i)) /\ IsFiniteSet(Upto(j))
        /\ Rank(K, i) = Cardinality(Upto(i)) /\ Rank(K, j) = Cardinality(Upto(j))
    BY <1>2
  <2> HIDE DEF Upto
  <2>3. Upto(j) # Upto(i) /\ Upto(j) \in SUBSET Upto(i)
    BY <2>1
  <2>4. /\ Cardinality(Upto(j)) <= Cardinality(Upto(i))
        /\ Cardinality(Upto(j)) # Cardinality(Upto(i))
    BY ONLY <2>2, <2>3, FS_Subset
  <2>5. Cardinality(Upto(j)) \in Nat /\ Cardinality(Upto(i)) \in Nat
    BY <2>2, FS_CardinalityType
  <2> QED BY <2>2, <2>4, <2>5
<1>4. Cardinality(K \ {i}) = Cardinality(K) - 1
  BY <1>1, FS_RemoveElement
<1> HIDE DEF Upto
<1> QED BY <1>1, <1>2, <1>3, <1>4

\* What becomes of it when one position goes.
LEMMA RankWithout ==
    ASSUME NEW N \in Nat, NEW K \in SUBSET (1 .. N), NEW i \in K, NEW j \in K \ {i}
    PROVE  Rank(K \ {i}, j) = IF j < i THEN Rank(K, j) ELSE Rank(K, j) - 1
<1> DEFINE Upto(k) == {h \in K : h <= k}
<1>0. IsFiniteSet(Upto(j)) /\ Rank(K, j) = Cardinality(Upto(j)) /\ i \in Int /\ j \in Int
  <2>1. Upto(j) \in SUBSET K /\ IsFiniteSet(K) /\ \A k \in K : k \in Int
    BY PlacesFinite
  <2> HIDE DEF Upto
  <2>2. IsFiniteSet(Upto(j))
    BY ONLY <2>1, FS_Subset
  <2> QED BY <2>1, <2>2 DEF Rank, Upto
<1> DEFINE less == {k \in K \ {i} : k <= j}
<1>1. Rank(K \ {i}, j) = Cardinality(less)
  BY DEF Rank
<1>2. CASE j < i
  <2>1. less = Upto(j)
    BY <1>2
  <2> HIDE DEF less, Upto
  <2> QED BY <1>0, <1>1, <1>2, <2>1
<1>3. CASE ~(j < i)
  <2>1. less = Upto(j) \ {i} /\ i \in Upto(j)
    BY <1>3
  <2>2. IsFiniteSet(Upto(j)) /\ Rank(K, j) = Cardinality(Upto(j))
    BY <1>0
  <2> HIDE DEF less, Upto
  <2>3. Cardinality(less) = Cardinality(Upto(j)) - 1
    BY <2>1, <2>2, FS_RemoveElement
  <2> QED BY <1>1, <1>3, <2>2, <2>3
<1> QED BY <1>2, <1>3

\* Neighbours, and all positions.
LEMMA NextRank ==
    ASSUME NEW N \in Nat, NEW K \in SUBSET (1 .. N), NEW i \in K, i + 1 \in K
    PROVE  Rank(K, i + 1) = Rank(K, i) + 1
<1> DEFINE A == {k \in K : k <= i}
           B == {k \in K : k <= i + 1}
<1>1. B = A \cup {i + 1} /\ i + 1 \notin A /\ A \subseteq K
  <2>1. \A k \in K : k \in Int /\ i \in Int
    BY PlacesFinite
  <2>2. \A k \in K : k <= i + 1 <=> k <= i \/ k = i + 1
    BY <2>1
  <2>3. ~(i + 1 <= i)
    BY <2>1
  <2> DEFINE h == i + 1
  <2>4. h \in K /\ ~(h <= i) /\ \A k \in K : k <= h <=> k <= i \/ k = h
    BY <2>2, <2>3
  <2> HIDE DEF h
  <2>5. {k \in K : k <= h} = {k \in K : k <= i} \cup {h}
    BY <2>4
  <2> QED BY <2>4, <2>5 DEF h
<1>2. IsFiniteSet(K)
  BY PlacesFinite
<1>3. Rank(K, i) = Cardinality(A) /\ Rank(K, i + 1) = Cardinality(B)
  BY DEF Rank
<1> HIDE DEF A, B
<1>4. IsFiniteSet(A)
  BY <1>1, <1>2, FS_Subset
<1> QED BY <1>1, <1>3, <1>4, FS_AddElement

LEMMA RankOfAll ==
    ASSUME NEW N \in Nat, NEW i \in 1 .. N
    PROVE  Rank(1 .. N, i) = i /\ Cardinality(1 .. N) = N
<1>1. {j \in 1 .. N : j <= i} = 1 .. i /\ i \in Nat
  OBVIOUS
<1>2. Cardinality(1 .. i) = i /\ Cardinality(1 .. N) = N
  BY <1>1, FS_Interval
<1> QED BY <1>1, <1>2 DEF Rank

\* One position less.
LEMMA OneLessLeft ==
    ASSUME NEW S, NEW s, NEW N \in Nat, NEW K \in SUBSET (1 .. N), NEW t \in Seq(S),
           LeftOf(s, K, t), NEW i \in K
    PROVE  LET p == Rank(K, i)
           IN  p \in 1 .. Len(t) /\ t[p] = s[i] /\ LeftOf(s, K \ {i}, WithoutFrom(t, p, p + 1))
<1> DEFINE p == Rank(K, i)
           n == Len(t)
           w == WithoutFrom(t, p, p + 1)
<1>1. n = Cardinality(K) /\ \A j \in K : t[Rank(K, j)] = s[j]
  BY DEF LeftOf
<1>2. /\ p \in 1 .. n /\ n \in Nat
      /\ \A j \in K : Rank(K, j) \in 1 .. n
      /\ \A j \in K : j < i => Rank(K, j) < p
      /\ \A j \in K : i < j => p < Rank(K, j)
  BY <1>1, RankIs
<1>3. /\ Cardinality(K \ {i}) = n - 1
      /\ \A j \in K \ {i} : Rank(K \ {i}, j) = IF j < i THEN Rank(K, j) ELSE Rank(K, j) - 1
  <2>1. Cardinality(K) = n
    BY <1>1
  <2> HIDE DEF n
  <2>2. Cardinality(K \ {i}) = Cardinality(K) - 1
    BY RankIs
  <2>3. \A j \in K \ {i} :
           Rank(K \ {i}, j) = IF j < i THEN Rank(K, j) ELSE Rank(K, j) - 1
    <3> HIDE DEF p
    <3> TAKE j \in K \ {i}
    <3> QED BY RankWithout
  <2> QED BY <2>1, <2>2, <2>3
<1> HIDE DEF p, n
<1>4. w = [k \in 1 .. n - 1 |-> IF k < p THEN t[k] ELSE t[k + 1]]
  <2>1. (p + 1) - p = 1
    BY <1>2
  <2> QED BY <2>1 DEF WithoutFrom, n
<1> HIDE DEF w
<1>5. Len(w) = n - 1
  <2>1. n - 1 \in Nat
    BY <1>2
  <2> QED BY <1>4, <2>1
<1>6. ASSUME NEW j \in K \ {i} PROVE w[Rank(K \ {i}, j)] = s[j]
  <2> DEFINE r == Rank(K, j)
  <2>1. r \in 1 .. n /\ t[r] = s[j] /\ j \in Int /\ i \in Int /\ j # i
    BY <1>1, <1>2
  <2>2. Rank(K \ {i}, j) = IF j < i THEN r ELSE r - 1
    BY <1>3
  <2>3. (j < i => r < p) /\ (i < j => p < r)
    BY <1>2
  <2> HIDE DEF r
  <2>4. CASE j < i
    <3>1. r \in 1 .. n - 1 /\ r < p
      BY <1>2, <2>1, <2>3, <2>4
    <3> QED BY <1>4, <2>1, <2>2, <2>4, <3>1
  <2>5. CASE i < j
    <3>1. r - 1 \in 1 .. n - 1 /\ ~(r - 1 < p) /\ (r - 1) + 1 = r /\ ~(j < i)
      BY <1>2, <2>1, <2>3, <2>5
    <3> QED BY <1>4, <2>1, <2>2, <3>1
  <2> QED BY <2>1, <2>4, <2>5
<1>7. LeftOf(s, K \ {i}, w)
  BY <1>3, <1>5, <1>6 DEF LeftOf
<1>8. t[p] = s[i]
  BY <1>1 DEF p
<1> QED BY <1>2, <1>7, <1>8 DEF p, n, w

LEMMA AllLeft ==
    ASSUME NEW S, NEW s \in Seq(S)
    PROVE  LeftOf(s, 1 .. Len(s), s)
<1> DEFINE n == Len(s)
<1>1. n \in Nat
  OBVIOUS
<1> HIDE DEF n
<1>2. Cardinality(1 .. n) = n /\ \A i \in 1 .. n : Rank(1 .. n, i) = i
  <2>1. Cardinality(1 .. n) = n
    BY <1>1, FS_Interval
  <2> QED BY <1>1, <2>1, RankOfAll
<1> QED BY <1>2 DEF LeftOf, n

\* What the loop of LREM may hold: a position is one, or just past the end of a
\* ziplist.
Removing == {s \in [list : ListObjects, p : Nat, removed : Nat] :
    /\ ListOK(s.list) /\ Few(s.list)
    /\ s.p <= Len(Items(s.list)) + 1 /\ (~IsZiplist(s.list) => s.p <= Len(Items(s.list)))}

\* Where the walk goes on.
LEMMA NextPosition ==
    ASSUME NEW list, ListOK(list), NEW p \in 1 .. Len(Items(list)) + 1,
           ~IsZiplist(list) => p <= Len(Items(list)), NEW direction \in {"HEAD", "TAIL"}
    PROVE  LET new == listTypeNext(list, p, direction)
               n == Len(Items(list))
           IN  /\ new \in Nat /\ new <= n
               /\ new = IF direction = "HEAD" THEN p - 1 ELSE IF p < n THEN p + 1 ELSE 0
<1> DEFINE s == Items(list)
           n == Len(s)
           new == listTypeNext(list, p, direction)
<1>1. n \in Nat
  BY ListIs
<1>2. CASE IsZiplist(list)
  <2> DEFINE z == list.ptr
  <2>1. ZiplistOK(z) /\ Len(z.entries) = n /\ End(z) = n + 1
    BY <1>2, ListIs
  <2> HIDE DEF z, n
  <2>2. ziplistPrev(z, p) = p - 1 /\ ziplistNext(z, p) = IF p < n THEN p + 1 ELSE 0
    BY <2>1, PrevIs, NextIs DEF n
  <2>3. new = IF direction = "TAIL" THEN ziplistNext(z, p) ELSE ziplistPrev(z, p)
    BY <1>2 DEF listTypeNext, z
  <2>4. p \in 1 .. n + 1
    BY DEF n
  <2> HIDE DEF new
  <2>5. /\ new \in Nat /\ new <= n
        /\ new = IF direction = "HEAD" THEN p - 1 ELSE IF p < n THEN p + 1 ELSE 0
    BY <1>1, <2>2, <2>3, <2>4
  <2> QED BY <2>5 DEF n, new
<1>3. CASE ~IsZiplist(list)
  <2>1. list.ptr = s /\ p \in 1 .. n
    BY <1>3, ListIs
  <2>2. new = IF direction = "TAIL" THEN IF p = n THEN 0 ELSE p + 1 ELSE p - 1
    BY <1>3, <2>1 DEF listTypeNext
  <2> HIDE DEF n, new
  <2>3. /\ new \in Nat /\ new <= n
        /\ new = IF direction = "HEAD" THEN p - 1 ELSE IF p < n THEN p + 1 ELSE 0
    BY <1>1, <2>1, <2>2
  <2> QED BY <2>3 DEF n, new
<1> QED BY <1>2, <1>3

\* The same after the value there is gone.
LEMMA PositionAfterDelete ==
    ASSUME NEW list, ListOK(list), NEW p \in 1 .. Len(Items(list)) + 1,
           NEW direction \in {"HEAD", "TAIL"}
    PROVE  LET new == AfterDelete(list, p, direction)
           IN  /\ new \in Nat /\ new <= Len(Items(list)) + 1
               /\ ~IsZiplist(list) => new <= Len(Items(list))
               /\ direction = "HEAD" => new = p - 1
               /\ direction = "TAIL" /\ p <= Len(Items(list)) => new = p
<1> DEFINE s == Items(list)
           n == Len(s)
           new == AfterDelete(list, p, direction)
<1>1. n \in Nat
  BY ListIs
<1>2. CASE IsZiplist(list)
  <2> DEFINE z == list.ptr
  <2>1. ZiplistOK(z) /\ End(z) = n + 1
    BY <1>2, ListIs
  <2> HIDE DEF z, n
  <2>2. p \in 1 .. n + 1
    BY DEF n
  <2>3. ziplistPrev(z, p) = p - 1
    BY <2>1, <2>2, PrevIs
  <2>4. new = IF direction = "TAIL" THEN p ELSE ziplistPrev(z, p)
    BY <1>2 DEF AfterDelete, z
  <2> HIDE DEF new
  <2>5. /\ new \in Nat /\ new <= n + 1
        /\ new = IF direction = "HEAD" THEN p - 1 ELSE p
    BY <1>1, <2>2, <2>3, <2>4
  <2> QED BY <1>2, <2>5 DEF n, new
<1>3. CASE ~IsZiplist(list)
  <2>1. list.ptr = s
    BY <1>3, ListIs
  <2>2. new = IF direction = "TAIL" THEN IF p > n THEN 0 ELSE p ELSE p - 1
    BY <1>3, <2>1 DEF AfterDelete
  <2> HIDE DEF n, new
  <2>3. p \in 1 .. n + 1
    BY DEF n
  <2>4. /\ new \in Nat /\ new <= n
        /\ new = IF direction = "HEAD" THEN p - 1 ELSE IF p > n THEN 0 ELSE p
    BY <1>1, <2>2, <2>3
  <2> QED BY <1>1, <2>4 DEF n, new
<1> QED BY <1>2, <1>3

\* One turn.
LEMMA RemovalHolds ==
    ASSUME NEW s \in Removing, NEW v, NEW toremove, NEW direction \in {"HEAD", "TAIL"}
    PROVE  RemoveTurn(s, v, toremove, direction) \in Removing
<1> DEFINE l == s.list
           w == Items(l)
           n == Len(w)
           p == s.p
           less == listTypeDelete(l, p)
           done == s.p = 0 \/ (toremove # 0 /\ s.removed = toremove)
           hit == listTypeEqual(l, p, v)
           new == RemoveTurn(s, v, toremove, direction)
<1>1. /\ s = [list |-> l, p |-> p, removed |-> s.removed] /\ s.removed \in Nat
      /\ l \in ListObjects /\ ListOK(l) /\ Few(l) /\ p \in Nat /\ p <= n + 1
      /\ ~IsZiplist(l) => p <= n
  BY DEF Removing
<1>2. w \in Seq(ListValues) /\ n \in Nat
  BY <1>1, ListIs
<1>3. new = IF done THEN s
            ELSE IF hit THEN [list |-> less, p |-> AfterDelete(less, p, direction),
                              removed |-> s.removed + 1]
            ELSE [s EXCEPT !.p = listTypeNext(l, p, direction)]
  BY DEF RemoveTurn
<1>4. hit => p \in 1 .. n
  BY <1>2 DEF listTypeEqual
<1> HIDE DEF hit, new
<1>5. CASE done
  BY <1>3, <1>5 DEF new
<1>6. CASE ~done /\ hit
  <2> DEFINE q == AfterDelete(less, p, direction)
  <2>1. ListOK(less) /\ (IsZiplist(less) <=> IsZiplist(l)) /\ Len(Items(less)) = n - 1
    BY <1>1, <1>4, <1>6, ListDeleted
  <2> HIDE DEF less, n, p
  <2>2. p \in 1 .. Len(Items(less)) + 1
    BY <1>2, <1>4, <1>6, <2>1
  <2>3. /\ q \in Nat /\ q <= Len(Items(less)) + 1
        /\ ~IsZiplist(less) => q <= Len(Items(less))
    BY <2>1, <2>2, PositionAfterDelete
  <2>4. Few(less) /\ less \in ListObjects
    BY <1>1, <1>2, <2>1, ListTyped, ListConstants DEF Few, n
  <2> HIDE DEF q
  <2>5. [list |-> less, p |-> q, removed |-> s.removed + 1] \in Removing
    BY <1>1, <2>1, <2>3, <2>4 DEF Removing
  <2> QED BY <1>3, <1>6, <2>5 DEF q, new
<1>7. CASE ~done /\ ~hit
  <2> DEFINE q == listTypeNext(l, p, direction)
  <2>1. p \in 1 .. n + 1
    BY <1>1, <1>2, <1>7
  <2>2. q \in Nat /\ q <= n
    BY <1>1, <2>1, NextPosition
  <2> HIDE DEF q, p, l
  <2>3. [s EXCEPT !.p = q] = [list |-> l, p |-> q, removed |-> s.removed]
    BY <1>1
  <2>4. q <= Len(Items(l)) /\ q <= Len(Items(l)) + 1
    BY <1>2, <2>2
  <2>5. [list |-> l, p |-> q, removed |-> s.removed] \in Removing
    BY <1>1, <2>2, <2>4 DEF Removing
  <2> QED BY <1>3, <1>7, <2>3, <2>5 DEF q, new
<1> QED BY <1>5, <1>6, <1>7 DEF new

\* The position in the list of n values that turn m + 1 looks at, and the
\* positions of v among those that m turns have looked at.
Looked(direction, n, m) == IF direction = "TAIL" THEN m + 1 ELSE n - m
Found(s, v, direction, m) ==
    {i \in 1 .. Len(s) : s[i] = v /\ IF direction = "TAIL" THEN i <= m ELSE i > Len(s) - m}
Staying(s, v, direction, m) == (1 .. Len(s)) \ Found(s, v, direction, m)

\* What the loop holds when its first m turns have removed values of s.
RemovedIn(x, s, v, toremove, direction, m) ==
    /\ LeftOf(s, Staying(s, v, direction, m), Items(x.list))
    /\ x.removed = Cardinality(Found(s, v, direction, m))
    /\ toremove # 0 => x.removed <= toremove
    /\ m < Len(s) => x.p = Rank(Staying(s, v, direction, m), Looked(direction, Len(s), m))

\* What it may hold after n turns: it has stopped before if enough are gone.
RemovedBy(list, v, toremove, direction, n) == {x \in Removing :
    n <= Len(Items(list)) =>
        \E m \in 0 .. n :
            /\ RemovedIn(x, Items(list), v, toremove, direction, m)
            /\ m # n => toremove # 0 /\ x.removed = toremove}

\* What a turn that looks at c finds, and what comes next.
LookedOne(s, v, c, F, G, K, J) ==
    /\ s[c] = v => G = F \cup {c} /\ J = K \ {c}
    /\ s[c] # v => G = F /\ J = K
LookedNext(direction, c, d, K, more) ==
    /\ more => d \in K /\ d # c
    /\ direction = "TAIL" => d = c + 1
    /\ direction = "HEAD" => d = c - 1

\* One turn's position, and the sets before and after it.
LEMMA LookedAt ==
    ASSUME NEW s \in Seq(ListValues), NEW v \in ListValues, NEW direction \in {"HEAD", "TAIL"},
           NEW size, size = Len(s), NEW m \in Nat, m < size,
           NEW c, c = Looked(direction, size, m), NEW d, d = Looked(direction, size, m + 1),
           NEW F, F = Found(s, v, direction, m), NEW G, G = Found(s, v, direction, m + 1),
           NEW K, K = Staying(s, v, direction, m), NEW J, J = Staying(s, v, direction, m + 1)
    PROVE  /\ c \in K /\ c \in 1 .. size /\ c \notin F
           /\ K \in SUBSET (1 .. size) /\ F \in SUBSET (1 .. size)
           /\ LookedOne(s, v, c, F, G, K, J)
           /\ LookedNext(direction, c, d, K, m + 1 < size)
<1> DEFINE Done(i, k) == IF direction = "TAIL" THEN i <= k ELSE i > size - k
<1>1. size \in Nat
  OBVIOUS
<1>2. /\ F = {i \in 1 .. size : s[i] = v /\ Done(i, m)}
      /\ G = {i \in 1 .. size : s[i] = v /\ Done(i, m + 1)}
      /\ K = (1 .. size) \ F
      /\ J = (1 .. size) \ G
  BY DEF Found, Staying
<1>3. c = IF direction = "TAIL" THEN m + 1 ELSE size - m
  BY DEF Looked
<1>4. d = IF direction = "TAIL" THEN m + 1 + 1 ELSE size - (m + 1)
  BY DEF Looked
<1>5. m < size /\ m \in Nat /\ direction \in {"HEAD", "TAIL"}
  OBVIOUS
<1>6. c \in 1 .. size /\ ~Done(c, m)
  BY ONLY <1>1, <1>3, <1>5
<1>7. \A i \in 1 .. size : Done(i, m + 1) <=> (Done(i, m) \/ i = c)
  BY ONLY <1>1, <1>3, <1>5
<1>8. d = IF direction = "TAIL" THEN c + 1 ELSE c - 1
  BY ONLY <1>1, <1>3, <1>4, <1>5
<1>9. m + 1 < size => d \in 1 .. size /\ ~Done(d, m) /\ d # c
  BY ONLY <1>1, <1>3, <1>4, <1>5
<1> HIDE DEF Done
<1>10. c \in K /\ c \notin F /\ K \in SUBSET (1 .. size) /\ F \in SUBSET (1 .. size)
  BY ONLY <1>2, <1>6
<1>11. G = IF s[c] = v THEN F \cup {c} ELSE F
  BY ONLY <1>2, <1>6, <1>7
<1>12. J = IF s[c] = v THEN K \ {c} ELSE K
  BY ONLY <1>2, <1>10, <1>11
<1>13. LookedOne(s, v, c, F, G, K, J)
  BY ONLY <1>11, <1>12 DEF LookedOne
<1>14. m + 1 < size => d \in K /\ d # c
  BY ONLY <1>2, <1>9
<1>15. LookedNext(direction, c, d, K, m + 1 < size)
  BY ONLY <1>5, <1>8, <1>14 DEF LookedNext
<1> QED BY ONLY <1>6, <1>10, <1>13, <1>15

\* Before the first turn.
LEMMA NoneRemoved ==
    ASSUME NEW list, ListOK(list), Few(list), NEW v, NEW toremove \in Nat,
           NEW direction \in {"HEAD", "TAIL"}, NEW first,
           first = listTypeIndex(list, IF direction = "HEAD" THEN -1 ELSE 0)
    PROVE  [list |-> list, p |-> first, removed |-> 0]
              \in RemovedBy(list, v, toremove, direction, 0)
<1> DEFINE s == Items(list)
           n == Len(s)
           x == [list |-> list, p |-> first, removed |-> 0]
           index == IF direction = "HEAD" THEN -1 ELSE 0
           F == Found(s, v, direction, 0)
           K == Staying(s, v, direction, 0)
<1>1. s \in Seq(ListValues) /\ n \in Nat
  BY ListIs
<1>2. first = IF n = 0 THEN 0 ELSE IF direction = "HEAD" THEN n ELSE 1
  <2> DEFINE place == IF index < 0 THEN n + index + 1 ELSE index + 1
  <2>1. index \in Int
    OBVIOUS
  <2> HIDE DEF index
  <2>2. first = IF place \in 1 .. n THEN place ELSE 0
    BY <2>1, FoundIs DEF index
  <2>3. place = IF direction = "HEAD" THEN n ELSE 1
    BY <1>1 DEF index
  <2> HIDE DEF place, n
  <2> QED BY <1>1, <2>2, <2>3
<1> HIDE DEF s, n
<1>3. first \in Nat /\ first <= n
  BY <1>1, <1>2
<1>4. x \in Removing
  BY <1>1, <1>3, ListTyped DEF Removing, n, s
<1>5. F = {} /\ K = 1 .. n
  <2>1. \A i \in 1 .. n : ~(i <= 0) /\ ~(i > n - 0)
    BY <1>1
  <2> QED BY <2>1 DEF Found, Staying, n
<1>6. LeftOf(s, K, s)
  BY <1>1, <1>5, AllLeft DEF n
<1>7. 0 < n => first = Rank(K, Looked(direction, n, 0))
  <2>1. ASSUME 0 < n PROVE first = Rank(K, Looked(direction, n, 0))
    <3>1. Looked(direction, n, 0) = first /\ first \in 1 .. n
      BY <1>1, <1>2, <2>1 DEF Looked
    <3> QED BY <1>1, <1>5, <3>1, RankOfAll
  <2> QED BY <2>1
<1>8. Cardinality(F) = 0
  BY <1>5, FS_EmptySet
<1> HIDE DEF F, K
<1>9. RemovedIn(x, s, v, toremove, direction, 0)
  BY <1>6, <1>7, <1>8 DEF RemovedIn, F, K, n, s
<1> HIDE DEF x
<1> QED BY <1>4, <1>9 DEF RemovedBy, s, x

\* One turn.
LEMMA OneRemoved ==
    ASSUME NEW list, ListOK(list), NEW v \in ListValues, NEW toremove \in Nat,
           NEW direction \in {"HEAD", "TAIL"}, NEW n \in Nat \ {0},
           NEW x \in RemovedBy(list, v, toremove, direction, n - 1)
    PROVE  RemoveTurn(x, v, toremove, direction) \in RemovedBy(list, v, toremove, direction, n)
<1> DEFINE s == Items(list)
           size == Len(s)
           new == RemoveTurn(x, v, toremove, direction)
           l == x.list
           p == x.p
           w == Items(l)
           less == listTypeDelete(l, p)
           stopped == toremove # 0 /\ x.removed = toremove
           Holds(y, m) == RemovedIn(y, s, v, toremove, direction, m)
<1>1. x \in Removing /\ new \in Removing
  <2>1. x \in Removing
    BY DEF RemovedBy
  <2> QED BY <2>1, RemovalHolds
<1>2. /\ x = [list |-> l, p |-> p, removed |-> x.removed] /\ x.removed \in Nat
      /\ ListOK(l) /\ p \in Nat
  BY <1>1 DEF Removing
<1>3. s \in Seq(ListValues) /\ size \in Nat /\ w \in Seq(ListValues) /\ Len(w) \in Nat
  BY <1>2, ListIs
<1>4. n \in Nat /\ n - 1 \in Nat /\ n - 1 < n
  OBVIOUS
<1>5. SUFFICES ASSUME n <= size
               PROVE  \E m \in 0 .. n : Holds(new, m)
                                        /\ (m # n => toremove # 0 /\ new.removed = toremove)
  BY <1>1 DEF RemovedBy
<1>6. PICK m \in 0 .. n - 1 : Holds(x, m) /\ (m # n - 1 => stopped)
  <2>1. n - 1 <= size
    BY <1>3, <1>4, <1>5
  <2> QED BY <2>1 DEF RemovedBy
<1> HIDE DEF new
<1>7. CASE stopped
  <2>1. new = x
    BY <1>7 DEF RemoveTurn, new
  <2>2. m \in 0 .. n /\ m # n
    BY <1>4
  <2> HIDE DEF Holds
  <2> QED BY <1>6, <1>7, <2>1, <2>2
<1>8. CASE ~stopped
  <2> DEFINE c == Looked(direction, size, m)
             F == Found(s, v, direction, m)
             K == Staying(s, v, direction, m)
             d == Looked(direction, size, m + 1)
             G == Found(s, v, direction, m + 1)
             J == Staying(s, v, direction, m + 1)
  <2>1. m = n - 1 /\ m \in Nat /\ m < size /\ m + 1 = n
    BY <1>3, <1>4, <1>5, <1>6, <1>8
  <2>2. /\ LeftOf(s, K, w) /\ x.removed = Cardinality(F)
        /\ toremove # 0 => x.removed <= toremove
        /\ p = Rank(K, c)
    <3> HIDE DEF K, F, c
    <3>1. m < Len(s)
      BY <2>1
    <3> QED BY <1>6, <3>1 DEF RemovedIn, K, F, c
  <2> HIDE DEF stopped, size
  <2>3. /\ c \in K /\ c \in 1 .. size /\ c \notin F
        /\ K \in SUBSET (1 .. size) /\ F \in SUBSET (1 .. size)
        /\ s[c] = v => G = F \cup {c} /\ J = K \ {c}
        /\ s[c] # v => G = F /\ J = K
        /\ m + 1 < size => d \in K /\ d # c
        /\ direction = "TAIL" => d = c + 1
        /\ direction = "HEAD" => d = c - 1
    <3> HIDE DEF s, c, F, K, d, G, J
    <3>1. /\ c = Looked(direction, size, m) /\ F = Found(s, v, direction, m)
          /\ K = Staying(s, v, direction, m) /\ d = Looked(direction, size, m + 1)
          /\ G = Found(s, v, direction, m + 1) /\ J = Staying(s, v, direction, m + 1)
      BY DEF c, F, K, d, G, J
    <3>2. size = Len(s) /\ s \in Seq(ListValues)
      BY <1>3 DEF size
    <3>3. m \in Nat /\ m < size /\ v \in ListValues /\ direction \in {"HEAD", "TAIL"}
      BY <2>1
    <3>4. c \in K /\ c \in 1 .. size /\ c \notin F
          /\ K \in SUBSET (1 .. size) /\ F \in SUBSET (1 .. size)
      BY ONLY <3>1, <3>2, <3>3, LookedAt
    <3>5. LookedOne(s, v, c, F, G, K, J)
      BY ONLY <3>1, <3>2, <3>3, LookedAt
    <3>6. LookedNext(direction, c, d, K, m + 1 < size)
      BY ONLY <3>1, <3>2, <3>3, LookedAt
    <3>7. s[c] = v => G = F \cup {c} /\ J = K \ {c}
      BY ONLY <3>5 DEF LookedOne
    <3>8. s[c] # v => G = F /\ J = K
      BY ONLY <3>5 DEF LookedOne
    <3>9. /\ m + 1 < size => d \in K /\ d # c
          /\ direction = "TAIL" => d = c + 1
          /\ direction = "HEAD" => d = c - 1
      BY ONLY <3>6 DEF LookedNext
    <3> QED BY ONLY <3>4, <3>7, <3>8, <3>9
  <2> HIDE DEF c, F, K, d, G, J, s, w, p, l
  <2>4. p \in 1 .. Len(w) /\ w[p] = s[c] /\ LeftOf(s, K \ {c}, WithoutFrom(w, p, p + 1))
        /\ Len(w) = Cardinality(K)
    <3>1. LET q == Rank(K, c)
          IN  q \in 1 .. Len(w) /\ w[q] = s[c] /\ LeftOf(s, K \ {c}, WithoutFrom(w, q, q + 1))
      BY ONLY <1>3, <2>2, <2>3, OneLessLeft
    <3> QED BY <2>2, <3>1 DEF LeftOf
  <2>5. Cardinality(F) \in Nat /\ IsFiniteSet(F) /\ x.removed \in Nat
    BY <1>2, <1>3, <2>3, PlacesFinite
  <2>6. new = IF s[c] = v THEN [list |-> less, p |-> AfterDelete(less, p, direction),
                                removed |-> x.removed + 1]
              ELSE [x EXCEPT !.p = listTypeNext(l, p, direction)]
    <3>1. p # 0 /\ (listTypeEqual(l, p, v) <=> s[c] = v)
      BY <1>3, <2>4 DEF listTypeEqual, w
    <3> HIDE DEF less
    <3> QED BY <1>8, <3>1 DEF RemoveTurn, new, l, p, less, stopped
  <2>7. m + 1 < size => /\ direction = "TAIL" => Rank(K, d) = p + 1
                        /\ direction = "HEAD" => Rank(K, d) = p - 1
    <3> SUFFICES ASSUME m + 1 < size
                 PROVE  /\ direction = "TAIL" => Rank(K, d) = p + 1
                        /\ direction = "HEAD" => Rank(K, d) = p - 1
      OBVIOUS
    <3>1. ASSUME direction = "TAIL" PROVE Rank(K, d) = p + 1
      <4>1. c + 1 \in K /\ d = c + 1
        BY <2>3, <3>1
      <4> QED BY <1>3, <2>2, <2>3, <4>1, NextRank
    <3>2. ASSUME direction = "HEAD" PROVE Rank(K, d) = p - 1
      <4>1. d = c - 1
        BY <2>3, <3>2
      <4>2. d \in K /\ d + 1 \in K /\ d + 1 = c
        BY <1>3, <2>3, <4>1
      <4>3. Rank(K, d + 1) = Rank(K, d) + 1
        BY ONLY <1>3, <2>3, <4>2, NextRank
      <4>4. Rank(K, d) \in 1 .. Cardinality(K) /\ Cardinality(K) \in Nat
        BY <1>3, <2>3, <4>2, RankIs
      <4> QED BY <2>2, <4>2, <4>3, <4>4
    <3> QED BY <3>1, <3>2
  <2>8. m + 1 \in 0 .. n
    BY <1>4, <2>1
  <2>9. CASE s[c] = v
    <3> DEFINE q == AfterDelete(less, p, direction)
    <3>1. ListOK(less) /\ Items(less) = WithoutFrom(w, p, p + 1) /\ Len(Items(less)) = Len(w) - 1
      BY <1>2, <2>4, ListDeleted DEF w, less
    <3> HIDE DEF less
    <3>2. /\ direction = "HEAD" => q = p - 1
          /\ direction = "TAIL" /\ p <= Len(Items(less)) => q = p
      <4>1. p \in 1 .. Len(Items(less)) + 1
        BY <1>3, <2>4, <3>1
      <4> QED BY <3>1, <4>1, PositionAfterDelete
    <3> HIDE DEF q
    <3>3. new.list = less /\ new.p = q /\ new.removed = x.removed + 1
      BY <2>6, <2>9 DEF q
    <3>4. G = F \cup {c} /\ J = K \ {c}
      BY <2>3, <2>9
    <3>5. Cardinality(G) = Cardinality(F) + 1
      BY <2>3, <2>5, <3>4, FS_AddElement
    <3>6. toremove # 0 => x.removed + 1 <= toremove
      BY <1>8, <2>2, <2>5 DEF stopped
    <3>7. m + 1 < size => q = Rank(J, d)
      <4> SUFFICES ASSUME m + 1 < size PROVE q = Rank(J, d)
        OBVIOUS
      <4>1. Rank(J, d) = IF d < c THEN Rank(K, d) ELSE Rank(K, d) - 1
        <5>1. d \in K \ {c}
          BY <2>3
        <5>2. Rank(K \ {c}, d) = IF d < c THEN Rank(K, d) ELSE Rank(K, d) - 1
          BY ONLY <1>3, <2>3, <5>1, RankWithout
        <5> QED BY <3>4, <5>2
      <4>2. Rank(K, d) \in 1 .. Len(w)
        BY <1>3, <2>3, <2>4, RankIs
      <4>3. CASE direction = "TAIL"
        <5>1. d = c + 1 /\ ~(d < c) /\ Rank(K, d) = p + 1
          BY <2>3, <2>7, <4>3
        <5>2. p <= Len(Items(less))
          BY <1>3, <2>4, <3>1, <4>2, <5>1
        <5> QED BY <2>4, <3>2, <4>1, <4>3, <5>1, <5>2
      <4>4. CASE direction = "HEAD"
        <5>1. d = c - 1 /\ d < c /\ Rank(K, d) = p - 1
          BY <2>3, <2>7, <4>4
        <5> QED BY <3>2, <4>1, <4>4, <5>1
      <4> QED BY <4>3, <4>4
    <3>8. Holds(new, m + 1)
      <4>1. LeftOf(s, J, Items(less))
        BY <2>4, <3>1, <3>4
      <4>2. new.removed = Cardinality(G)
        BY <2>2, <3>3, <3>5
      <4>3. toremove # 0 => new.removed <= toremove
        BY <3>3, <3>6
      <4>4. m + 1 < Len(s) => new.p = Rank(J, d)
        BY <3>3, <3>7 DEF size
      <4> QED BY <3>3, <4>1, <4>2, <4>3, <4>4 DEF RemovedIn, J, G, d, size
    <3> HIDE DEF Holds
    <3> QED BY <2>1, <2>8, <3>8
  <2>10. CASE s[c] # v
    <3> DEFINE q == listTypeNext(l, p, direction)
    <3>1. q = IF direction = "HEAD" THEN p - 1 ELSE IF p < Len(w) THEN p + 1 ELSE 0
      <4>1. p \in 1 .. Len(Items(l)) + 1 /\ p <= Len(Items(l))
        BY <1>3, <2>4 DEF w
      <4> QED BY <1>2, <4>1, NextPosition DEF w
    <3> HIDE DEF q
    <3>2. new.list = l /\ new.p = q /\ new.removed = x.removed
      BY <1>2, <2>6, <2>10 DEF q, l
    <3>3. G = F /\ J = K
      BY <2>3, <2>10
    <3>4. m + 1 < size => q = Rank(K, d)
      <4> SUFFICES ASSUME m + 1 < size PROVE q = Rank(K, d)
        OBVIOUS
      <4>1. Rank(K, d) \in 1 .. Len(w)
        BY <1>3, <2>3, <2>4, RankIs
      <4>2. CASE direction = "TAIL"
        <5>1. Rank(K, d) = p + 1
          BY <2>7, <4>2
        <5>2. p < Len(w)
          BY <1>3, <2>4, <4>1, <5>1
        <5> QED BY <3>1, <4>2, <5>1, <5>2
      <4>3. CASE direction = "HEAD"
        BY <2>7, <3>1, <4>3
      <4> QED BY <4>2, <4>3
    <3>5. Holds(new, m + 1)
      <4>1. LeftOf(s, J, Items(new.list)) /\ new.removed = Cardinality(G)
        BY <2>2, <3>2, <3>3 DEF w
      <4>2. toremove # 0 => new.removed <= toremove
        BY <2>2, <3>2
      <4>3. m + 1 < Len(s) => new.p = Rank(J, d)
        BY <3>2, <3>3, <3>4 DEF size
      <4> QED BY <4>1, <4>2, <4>3 DEF RemovedIn, J, G, d, size
    <3> HIDE DEF Holds
    <3> QED BY <2>1, <2>8, <3>5
  <2> QED BY <2>9, <2>10
<1> QED BY <1>7, <1>8

\* All of them.
Removals(list, first, v, toremove, direction) ==
    LET after[n \in Nat] == IF n = 0 THEN [list |-> list, p |-> first, removed |-> 0]
                            ELSE RemoveTurn(after[n - 1], v, toremove, direction)
    IN  after

LEMMA AllRemoved ==
    ASSUME NEW list, ListOK(list), Few(list), NEW v \in ListValues, NEW toremove \in Nat,
           NEW direction \in {"HEAD", "TAIL"}, NEW N \in Nat, NEW first,
           first = listTypeIndex(list, IF direction = "HEAD" THEN -1 ELSE 0)
    PROVE  Removals(list, first, v, toremove, direction)[N]
              \in RemovedBy(list, v, toremove, direction, N)
<1> DEFINE a == [list |-> list, p |-> first, removed |-> 0]
           Turn(s) == RemoveTurn(s, v, toremove, direction)
           By(n) == RemovedBy(list, v, toremove, direction, n)
           I == [n \in Nat |-> By(n)]
           G == [n \in Nat |-> [s \in By(n - 1) |-> Turn(s)]]
<1>1. a \in I[0]
  <2>1. a \in By(0)
    BY NoneRemoved
  <2> HIDE DEF By
  <2> QED BY <2>1
<1>2. ASSUME NEW n \in Nat \ {0}, NEW s \in I[n - 1]
      PROVE  G[n][s] \in I[n] /\ G[n][s] = Turn(s)
  <2> HIDE DEF By
  <2>1. n \in Nat /\ n - 1 \in Nat /\ s \in By(n - 1)
    OBVIOUS
  <2>2. Turn(s) \in By(n)
    BY <2>1, OneRemoved DEF By
  <2> HIDE DEF Turn
  <2> QED BY <2>1, <2>2
<1> HIDE DEF a, I, G, Turn, By
<1>3. PICK h : Loop(Nat, a, G, h) /\ \A n \in Nat : h[n] \in I[n]
  <2>1. Turning(Nat, I, a, G)
    BY <1>1, <1>2 DEF Turning
  <2> DEFINE D == Nat
  <2>3. 0 \in D /\ D \in SUBSET Nat /\ \A n \in D \ {0} : n - 1 \in D
    OBVIOUS
  <2>4. Turning(D, I, a, G)
    BY <2>1
  <2> HIDE DEF D
  <2>5. \E h : Loop(D, a, G, h) /\ \A n \in D : h[n] \in I[n]
    BY ONLY <2>3, <2>4, LoopSolved
  <2> QED BY <2>5 DEF D
<1>4. /\ h = [n \in Nat |-> IF n = 0 THEN a ELSE G[n][h[n - 1]]]
      /\ \A n \in Nat : h[n] \in I[n]
  BY <1>3 DEF Loop
<1> DEFINE P(f) == f = [n \in Nat |-> IF n = 0 THEN a ELSE Turn(f[n - 1])]
           f == CHOOSE g : P(g)
<1>5. P(h)
  <2>1. \A n \in Nat : n # 0 => n \in Nat \ {0} /\ n - 1 \in Nat
    OBVIOUS
  <2>2. \A n \in Nat : (IF n = 0 THEN a ELSE G[n][h[n - 1]])
                       = IF n = 0 THEN a ELSE Turn(h[n - 1])
    BY <1>2, <1>4, <2>1
  <2> QED BY <1>4, <2>2
<1>6. P(f)
  <2> HIDE DEF P
  <2> QED BY <1>5
<1> DEFINE B == {n \in Nat : f[n] = h[n]}
<1>7. \A n \in Nat : n \in B
  <2>1. \A n \in Nat : f[n] = IF n = 0 THEN a ELSE Turn(f[n - 1])
    <3> HIDE DEF f
    <3> QED BY <1>6
  <2>2. \A n \in Nat : h[n] = IF n = 0 THEN a ELSE Turn(h[n - 1])
    BY <1>5
  <2> HIDE DEF f, P
  <2>3. 0 \in B
    BY <2>1, <2>2
  <2>4. ASSUME NEW n \in Nat \ {0}, n - 1 \in B PROVE n \in B
    BY <2>1, <2>2, <2>4
  <2> HIDE DEF B
  <2>5. Nat \in SUBSET Nat /\ \A n \in Nat \ {0} : n - 1 \in Nat
    OBVIOUS
  <2> QED BY <2>3, <2>4, <2>5, Upwards
<1>8. f[N] \in By(N)
  <2>1. f[N] = h[N] /\ h[N] \in I[N]
    <3>1. N \in B
      <4> HIDE DEF B
      <4> QED BY <1>7
    <3> HIDE DEF f
    <3> QED BY <1>4, <3>1
  <2> HIDE DEF f
  <2> QED BY <2>1 DEF I
<1> QED BY <1>8 DEF f, P, a, Turn, By, Removals

\* The positions that LREM's contract takes away.
Gone(s, v, count, most) ==
    LET equal == {i \in DOMAIN s : s[i] = v}
        Beyond(i) == IF count < 0 THEN {j \in equal : j > i} ELSE {j \in equal : j < i}
    IN  {i \in equal : count = 0 \/ Cardinality(Beyond(i)) < most}

\* How many it takes away at most, and from which end.
Asks(count, toremove, direction) ==
    /\ toremove = IF count < 0 THEN -count ELSE count
    /\ direction = IF count < 0 THEN "HEAD" ELSE "TAIL"

\* They are those that the loop has found.
LEMMA FoundIsGone ==
    ASSUME NEW s \in Seq(ListValues), NEW v, NEW count \in Int, NEW toremove \in Nat,
           NEW direction, Asks(count, toremove, direction),
           NEW m \in 0 .. Len(s), NEW F, F = Found(s, v, direction, m),
           toremove # 0 => Cardinality(F) <= toremove,
           m # Len(s) => toremove # 0 /\ Cardinality(F) = toremove
    PROVE  Gone(s, v, count, toremove) = F
<1> USE DEF Asks
<1> DEFINE size == Len(s)
           equal == {i \in 1 .. size : s[i] = v}
           Beyond(i) == IF count < 0 THEN {j \in equal : j > i} ELSE {j \in equal : j < i}
           G == Gone(s, v, count, toremove)
           Done(i) == IF count < 0 THEN i > size - m ELSE i <= m
<1>1. size \in Nat /\ DOMAIN s = 1 .. size /\ m \in 0 .. size
  OBVIOUS
<1>2. F = {i \in equal : Done(i)} /\ F \in SUBSET (1 .. size)
  <2>1. F = {i \in 1 .. size : s[i] = v /\ IF direction = "TAIL" THEN i <= m ELSE i > size - m}
    BY DEF Found
  <2>2. \A i : Done(i) <=> IF direction = "TAIL" THEN i <= m ELSE i > size - m
    OBVIOUS
  <2> HIDE DEF Done
  <2> QED BY <2>1, <2>2
<1>3. G = {i \in equal : count = 0 \/ Cardinality(Beyond(i)) < toremove}
  BY <1>1 DEF Gone
<1>4. IsFiniteSet(F) /\ Cardinality(F) \in Nat
  BY <1>1, <1>2, PlacesFinite
<1>5. equal \in SUBSET (1 .. size) /\ IsFiniteSet(equal)
  <2>1. equal \in SUBSET (1 .. size)
    OBVIOUS
  <2> QED BY <1>1, <2>1, PlacesFinite
<1> HIDE DEF size, G
<1>6. ASSUME NEW i \in F PROVE i \in G
  <2> DEFINE B == Beyond(i)
  <2>1. i \in equal /\ i \in 1 .. size /\ Done(i)
    BY <1>2
  <2>2. CASE count = 0
    BY <1>3, <2>1, <2>2
  <2>3. CASE count # 0
    <3>1. toremove # 0
      BY <2>3
    <3>2. \A j \in equal : j \in 1 .. size
      OBVIOUS
    <3>3. B \in SUBSET (F \ {i})
      <4>1. \A j \in 1 .. size : (IF count < 0 THEN j > i ELSE j < i) => Done(j) /\ j # i
        BY <1>1, <2>1
      <4>2. \A j \in B : j \in equal /\ IF count < 0 THEN j > i ELSE j < i
        OBVIOUS
      <4> HIDE DEF B, Done
      <4>3. \A j \in B : j \in equal /\ Done(j) /\ j # i
        BY <3>2, <4>1, <4>2
      <4> QED BY <1>2, <4>3
    <3> HIDE DEF B, equal, Done
    <3>4. IsFiniteSet(F \ {i}) /\ Cardinality(F \ {i}) = Cardinality(F) - 1
      BY <1>4, FS_RemoveElement
    <3>5. Cardinality(B) <= Cardinality(F) - 1 /\ Cardinality(B) \in Nat
      BY <3>3, <3>4, FS_Subset, FS_CardinalityType
    <3>6. Cardinality(B) < toremove
      BY <1>4, <3>1, <3>5
    <3> QED BY <1>3, <2>1, <3>6 DEF B
  <2> QED BY <2>2, <2>3
<1>7. ASSUME NEW i \in equal, i \notin F PROVE i \notin G
  <2> DEFINE B == Beyond(i)
  <2>1. i \in 1 .. size /\ ~Done(i)
    BY <1>2, <1>7
  <2>2. m # size
    BY <1>1, <2>1
  <2>3. toremove # 0 /\ Cardinality(F) = toremove
    BY <2>2 DEF size
  <2>4. count # 0
    BY <2>3
  <2>5. F \in SUBSET B
    <3>1. \A j \in F : j \in equal /\ j \in 1 .. size /\ Done(j)
      BY <1>2
    <3>2. \A j \in 1 .. size : Done(j) => IF count < 0 THEN j > i ELSE j < i
      BY <1>1, <2>1
    <3> HIDE DEF Done
    <3>3. \A j \in F : j \in equal /\ IF count < 0 THEN j > i ELSE j < i
      BY <3>1, <3>2
    <3> HIDE DEF equal
    <3> QED BY <3>3
  <2>6. B \in SUBSET equal
    OBVIOUS
  <2> HIDE DEF B, equal, Done
  <2>7. IsFiniteSet(B) /\ Cardinality(B) \in Nat
    BY <1>5, <2>6, FS_Subset, FS_CardinalityType
  <2>8. Cardinality(F) <= Cardinality(B)
    BY <2>5, <2>7, FS_Subset
  <2>9. ~(Cardinality(B) < toremove)
    BY <2>3, <2>7, <2>8
  <2> QED BY <1>3, <2>4, <2>9 DEF B
<1>8. \A i \in G : i \in equal
  BY <1>3
<1>9. \A i \in F : i \in equal
  BY <1>2
<1> HIDE DEF equal, Done
<1> QED BY <1>6, <1>7, <1>8, <1>9 DEF G
=============================================================================
