---------------------------- MODULE Dict_proofs ----------------------------
(***************************************************************************)
(* The invariants of Dict and its implementation of a map, for every set   *)
(* of keys, every hash function and every initial size.                    *)
(*                                                                         *)
(* DictOK is the inductive invariant: the conjunction of TypeOK,           *)
(* EntriesInPlace, NoDuplicates, UsedCounts and RehashIndexSane for one    *)
(* dict.  No part is inductive by itself: the used count only decides      *)
(* rightly that the first table is empty if it counts the entries, the     *)
(* search for the next bucket only ends inside the table if what is left   *)
(* is not below rehashidx, and a lookup only finds a key in the one bucket *)
(* it searches if entries are in place.                                    *)
(***************************************************************************)
EXTENDS Dict, FiniteSetTheorems, FunctionTheorems, WellFoundedInduction, TLAPS

UniqueKeys(S) == \A e, f \in S : e.key = f.key => e = f

Good(t) ==
    /\ IsTable(t) /\ InPlace(t)
    /\ IsFiniteSet(Contents(t)) /\ t.used = Cardinality(Contents(t))

All(d) == Contents(d.ht0) \cup Contents(d.ht1)

DictOK(d) ==
    /\ d = [ht0 |-> d.ht0, ht1 |-> d.ht1, rehashidx |-> d.rehashidx]
    /\ Good(d.ht0) /\ Good(d.ht1)
    /\ UniqueKeys(All(d))
    /\ Contents(d.ht0) \cap Contents(d.ht1) = {}
    /\ d.rehashidx \in -1 .. d.ht0.size
    /\ IF dictIsRehashing(d)
       THEN /\ d.ht0.size > 0 /\ d.ht1.size > 0
            /\ \A i \in 0 .. d.rehashidx - 1 : d.ht0.table[i] = {}
       ELSE d.ht1 = _dictReset

-----------------------------------------------------------------------------
(* One table.                                                              *)

\* What a table holds is entries, each in one of its buckets.
LEMMA TableFacts ==
    ASSUME NEW t, IsTable(t)
    PROVE  /\ t.size \in Nat /\ t.used \in Nat
           /\ t.table \in [0 .. t.size - 1 -> SUBSET Entry]
           /\ Contents(t) \subseteq Entry
           /\ \A i \in 0 .. t.size - 1 : t.table[i] \subseteq Contents(t)
<1>1. /\ t.size \in Nat /\ t.used \in Nat
      /\ t.table \in [0 .. t.size - 1 -> SUBSET Entry]
  BY DEF IsTable, TableOfSize
<1> QED BY <1>1 DEF Contents

LEMMA InContents ==
    ASSUME NEW t, NEW e
    PROVE  e \in Contents(t) <=> \E i \in 0 .. t.size - 1 : e \in t.table[i]
BY DEF Contents

\* A hash lands in the table.
LEMMA IndexType ==
    ASSUME NEW t, t.size \in Nat, t.size # 0, NEW k \in Keys
    PROVE  Index(t, k) \in 0 .. t.size - 1
BY DictAssumption DEF Index

\* Searching the one bucket finds what a search of the table would.
LEMMA ChainFindsAll ==
    ASSUME NEW t, IsTable(t), InPlace(t), t.size # 0, NEW k \in Keys
    PROVE  Chain(t, k) = {e \in Contents(t) : e.key = k}
BY TableFacts, IndexType DEF Chain, InPlace, Contents

\* An empty table.
LEMMA NewTableGood ==
    ASSUME NEW size \in Nat
    PROVE  /\ Good(NewTable(size)) /\ Contents(NewTable(size)) = {}
           /\ NewTable(size).size = size
<1> DEFINE t == NewTable(size)
<1>1. t.size = size /\ t.used = 0 /\ t.table = [i \in 0 .. size - 1 |-> {}]
  BY DEF NewTable
<1>2. Contents(t) = {}
  BY <1>1 DEF Contents
<1>3. IsTable(t)
  BY <1>1 DEF IsTable, TableOfSize, NewTable
<1> HIDE DEF t
<1> QED BY <1>1, <1>2, <1>3, FS_EmptySet DEF Good, InPlace, t

\* The table that is not there.
LEMMA ResetGood == Good(_dictReset) /\ Contents(_dictReset) = {} /\ _dictReset.size = 0
<1>1. _dictReset = NewTable(0)
  <2>1. 0 .. 0 - 1 = {}
    OBVIOUS
  <2> QED BY <2>1 DEF _dictReset, NewTable
<1> QED BY <1>1, NewTableGood

\* A table whose used count and one bucket are rewritten.
Rewritten(t, n, x, S) == [t EXCEPT !.used = n, !.table = [t.table EXCEPT ![x] = S]]

LEMMA RewrittenIsTable ==
    ASSUME NEW t, IsTable(t), NEW x \in 0 .. t.size - 1, NEW n \in Nat,
           NEW S \in SUBSET Entry
    PROVE  LET u == Rewritten(t, n, x, S)
           IN  /\ IsTable(u) /\ u.size = t.size /\ u.used = n
               /\ \A i \in 0 .. t.size - 1 : u.table[i] = IF i = x THEN S ELSE t.table[i]
<1> DEFINE f == [t.table EXCEPT ![x] = S]
           u == Rewritten(t, n, x, S)
<1>1. t.size \in Nat /\ t.table \in [0 .. t.size - 1 -> SUBSET Entry]
  BY TableFacts
<1>2. /\ f \in [0 .. t.size - 1 -> SUBSET Entry]
      /\ \A i \in 0 .. t.size - 1 : f[i] = IF i = x THEN S ELSE t.table[i]
  BY <1>1
<1>3. u = [size |-> t.size, used |-> n, table |-> f]
  <2>1. u = [t EXCEPT !.used = n, !.table = f]
    BY DEF Rewritten
  <2> HIDE DEF u, f
  <2> QED BY <2>1 DEF IsTable, TableOfSize
<1> HIDE DEF u, f
<1>4. u.size = t.size /\ u.used = n /\ u.table = f
  BY <1>3
<1>5. IsTable(u)
  BY <1>1, <1>2, <1>3, <1>4 DEF IsTable, TableOfSize
<1> QED BY <1>2, <1>4, <1>5 DEF u

\* If what is written belongs there, the table stays in place, and holds
\* what it held except for that bucket.
LEMMA RewrittenContents ==
    ASSUME NEW t, IsTable(t), InPlace(t), NEW x \in 0 .. t.size - 1, NEW n \in Nat,
           NEW S \in SUBSET Entry, \A e \in S : Index(t, e.key) = x
    PROVE  LET u == Rewritten(t, n, x, S)
           IN  /\ InPlace(u)
               /\ Contents(u) = (Contents(t) \ t.table[x]) \cup S
<1> DEFINE u == Rewritten(t, n, x, S)
<1>1. /\ u.size = t.size
      /\ \A i \in 0 .. t.size - 1 : u.table[i] = IF i = x THEN S ELSE t.table[i]
  BY RewrittenIsTable
<1> HIDE DEF u
<1>2. \A k : Index(u, k) = Index(t, k)
  BY <1>1 DEF Index
<1>3. InPlace(u)
  BY <1>1, <1>2 DEF InPlace
<1>4. ASSUME NEW e, e \in Contents(u)
      PROVE  e \in (Contents(t) \ t.table[x]) \cup S
  <2>1. PICK i \in 0 .. t.size - 1 : e \in u.table[i]
    BY <1>1, <1>4, InContents
  <2>2. CASE i = x
    BY <1>1, <2>1, <2>2
  <2>3. CASE i # x
    <3>1. e \in t.table[i]
      BY <1>1, <2>1, <2>3
    <3>2. e \notin t.table[x]
      BY <3>1, <2>3 DEF InPlace
    <3> QED BY <3>1, <3>2, InContents
  <2> QED BY <2>2, <2>3
<1>5. ASSUME NEW e, e \in (Contents(t) \ t.table[x]) \cup S
      PROVE  e \in Contents(u)
  <2>1. CASE e \in S
    BY <1>1, <2>1, InContents
  <2>2. CASE e \in Contents(t) \ t.table[x]
    <3>1. PICK i \in 0 .. t.size - 1 : e \in t.table[i]
      BY <2>2, InContents
    <3> QED BY <1>1, <2>2, <3>1, InContents
  <2> QED BY <1>5, <2>1, <2>2
<1>6. Contents(u) = (Contents(t) \ t.table[x]) \cup S
  BY <1>4, <1>5
<1> QED BY <1>3, <1>6 DEF u

\* Putting an entry at the head of its chain.
LEMMA InsertGood ==
    ASSUME NEW t, Good(t), t.size # 0, NEW e \in Entry, e \notin Contents(t)
    PROVE  /\ Good(Insert(t, e)) /\ Contents(Insert(t, e)) = Contents(t) \cup {e}
           /\ Insert(t, e).size = t.size
<1> DEFINE u == Insert(t, e)
           x == Index(t, e.key)
           S == t.table[x] \cup {e}
<1>1. IsTable(t) /\ InPlace(t)
  BY DEF Good
<1>2. e.key \in Keys /\ t.size \in Nat /\ t.used + 1 \in Nat
  BY <1>1, TableFacts DEF Entry
<1>3. x \in 0 .. t.size - 1
  BY <1>2, IndexType
<1>4. S \in SUBSET Entry /\ \A f \in S : Index(t, f.key) = x
  BY <1>1, <1>3, TableFacts DEF InPlace
<1>5. u = Rewritten(t, t.used + 1, x, S)
  BY DEF Insert, Rewritten
<1>6. t.table[x] \subseteq Contents(t)
  BY <1>1, <1>3, TableFacts
<1> HIDE DEF u, x
<1>7. /\ IsTable(u) /\ InPlace(u) /\ u.size = t.size /\ u.used = t.used + 1
      /\ Contents(u) = (Contents(t) \ t.table[x]) \cup S
  <2> HIDE DEF S
  <2> QED BY <1>1, <1>2, <1>3, <1>4, <1>5, RewrittenIsTable, RewrittenContents
<1>8. Contents(u) = Contents(t) \cup {e}
  BY <1>6, <1>7
<1>9. IsFiniteSet(Contents(u)) /\ u.used = Cardinality(Contents(u))
  BY <1>7, <1>8, FS_AddElement, SMTT(30) DEF Good
<1> QED BY <1>7, <1>8, <1>9 DEF Good, u

\* Unlinking an entry.
LEMMA UnlinkGood ==
    ASSUME NEW t, Good(t), NEW e \in Contents(t)
    PROVE  /\ Good(Unlink(t, e)) /\ Contents(Unlink(t, e)) = Contents(t) \ {e}
           /\ Unlink(t, e).size = t.size
<1> DEFINE u == Unlink(t, e)
           x == Index(t, e.key)
           S == t.table[x] \ {e}
<1>1. IsTable(t) /\ InPlace(t)
  BY DEF Good
<1>2. e \in Entry /\ e.key \in Keys /\ t.size \in Nat
  BY <1>1, TableFacts DEF Entry
<1>3. x \in 0 .. t.size - 1 /\ e \in t.table[x]
  BY <1>1, <1>2, InContents DEF InPlace
<1>4. S \in SUBSET Entry /\ \A f \in S : Index(t, f.key) = x
  BY <1>1, <1>3, TableFacts DEF InPlace
<1>5. u = Rewritten(t, t.used - 1, x, S)
  BY DEF Unlink, Rewritten
<1>6. t.table[x] \subseteq Contents(t)
  BY <1>1, <1>3, TableFacts
<1> HIDE DEF u, x
<1>7. /\ IsFiniteSet(Contents(t) \ {e}) /\ Cardinality(Contents(t) \ {e}) = t.used - 1
  BY FS_RemoveElement DEF Good
<1>8. t.used - 1 \in Nat
  <2> DEFINE R == Contents(t) \ {e}
  <2>1. Cardinality(R) \in Nat
    <3> HIDE DEF R
    <3> QED BY <1>7, FS_CardinalityType DEF R
  <2> QED BY <1>7, <2>1
<1>9. /\ IsTable(u) /\ InPlace(u) /\ u.size = t.size /\ u.used = t.used - 1
      /\ Contents(u) = (Contents(t) \ t.table[x]) \cup S
  <2> HIDE DEF S
  <2> QED BY <1>1, <1>3, <1>4, <1>5, <1>8, RewrittenIsTable, RewrittenContents
<1>10. Contents(u) = Contents(t) \ {e}
  BY <1>3, <1>6, <1>9
<1> QED BY <1>7, <1>9, <1>10 DEF Good, u

\* Writing the value of an entry whose key no other entry has.
LEMMA SetValGood ==
    ASSUME NEW t, Good(t), UniqueKeys(Contents(t)), NEW e \in Contents(t), NEW v \in Vals
    PROVE  /\ Good(SetVal(t, e, v)) /\ SetVal(t, e, v).size = t.size
           /\ Contents(SetVal(t, e, v))
                = (Contents(t) \ {e}) \cup {[key |-> e.key, val |-> v]}
<1> DEFINE u == SetVal(t, e, v)
           x == Index(t, e.key)
           f == [key |-> e.key, val |-> v]
           S == (t.table[x] \ {e}) \cup {f}
<1>1. IsTable(t) /\ InPlace(t)
  BY DEF Good
<1>2. e \in Entry /\ e.key \in Keys /\ t.size \in Nat /\ t.used \in Nat
  BY <1>1, TableFacts DEF Entry
<1>3. x \in 0 .. t.size - 1 /\ e \in t.table[x]
  BY <1>1, <1>2, InContents DEF InPlace
<1>f. f \in Entry /\ f.key = e.key
  BY <1>2 DEF Entry
<1>4. S \in SUBSET Entry /\ \A g \in S : Index(t, g.key) = x
  BY <1>1, <1>3, <1>f, TableFacts DEF InPlace
<1>5. u = Rewritten(t, t.used, x, S)
  BY <1>1 DEF SetVal, Rewritten, IsTable, TableOfSize
<1>6. t.table[x] \subseteq Contents(t)
  BY <1>1, <1>3, TableFacts
<1>7. f \notin Contents(t) \ {e}
  BY <1>f DEF UniqueKeys
<1> HIDE DEF u, x, f
<1>8. /\ IsFiniteSet((Contents(t) \ {e}) \cup {f})
      /\ Cardinality((Contents(t) \ {e}) \cup {f}) = t.used
  <2> DEFINE R == Contents(t) \ {e}
  <2>1. IsFiniteSet(R) /\ Cardinality(R) = t.used - 1
    BY FS_RemoveElement DEF Good
  <2>2. f \notin R
    BY <1>7
  <2> HIDE DEF R
  <2>3. IsFiniteSet(R \cup {f}) /\ Cardinality(R \cup {f}) = (t.used - 1) + 1
    BY <2>1, <2>2, FS_AddElement
  <2> QED BY <1>2, <2>3 DEF R
<1>9. /\ IsTable(u) /\ InPlace(u) /\ u.size = t.size /\ u.used = t.used
      /\ Contents(u) = (Contents(t) \ t.table[x]) \cup S
  <2> HIDE DEF S
  <2> QED BY <1>1, <1>2, <1>3, <1>4, <1>5, RewrittenIsTable, RewrittenContents
<1>10. Contents(u) = (Contents(t) \ {e}) \cup {f}
  BY <1>3, <1>6, <1>9
<1> QED BY <1>8, <1>9, <1>10 DEF Good, u, f

-----------------------------------------------------------------------------
(* Two tables.                                                             *)

\* That the buckets below n are empty, said of the entries.
LEMMA EmptyBelow ==
    ASSUME NEW t, Good(t), NEW n \in 0 .. t.size
    PROVE  (\A i \in 0 .. n - 1 : t.table[i] = {})
             <=> \A e \in Contents(t) : Index(t, e.key) >= n
<1>1. t.size \in Nat /\ IsTable(t) /\ InPlace(t) /\ Contents(t) \subseteq Entry
  BY TableFacts DEF Good
<1>2. ASSUME \A i \in 0 .. n - 1 : t.table[i] = {}, NEW e \in Contents(t)
      PROVE  Index(t, e.key) >= n
  <2>1. PICK i \in 0 .. t.size - 1 : e \in t.table[i]
    BY InContents
  <2>2. Index(t, e.key) = i
    BY <1>1, <2>1 DEF InPlace
  <2> QED BY <1>1, <1>2, <2>1, <2>2
<1>3. ASSUME \A e \in Contents(t) : Index(t, e.key) >= n, NEW i \in 0 .. n - 1
      PROVE  t.table[i] = {}
  <2> SUFFICES ASSUME NEW e \in t.table[i]
               PROVE  FALSE
    OBVIOUS
  <2>1. i \in 0 .. t.size - 1
    BY <1>1
  <2>2. Index(t, e.key) = i /\ e \in Contents(t)
    BY <1>1, <2>1, InContents DEF InPlace
  <2> QED BY <1>1, <1>3, <2>2
<1> QED BY <1>2, <1>3

\* A dict of one table, and one of two.
Plain(a) == [ht0 |-> a, ht1 |-> _dictReset, rehashidx |-> -1]
Rehashing(a, b, r) == [ht0 |-> a, ht1 |-> b, rehashidx |-> r]

LEMMA PlainMade ==
    ASSUME NEW a, Good(a), UniqueKeys(Contents(a))
    PROVE  DictOK(Plain(a)) /\ All(Plain(a)) = Contents(a)
<1> DEFINE d == Plain(a)
<1>1. d.ht0 = a /\ d.ht1 = _dictReset /\ d.rehashidx = -1
  BY DEF Plain
<1>2. d = [ht0 |-> d.ht0, ht1 |-> d.ht1, rehashidx |-> d.rehashidx]
  BY DEF Plain
<1>3. a.size \in Nat
  BY TableFacts DEF Good
<1> HIDE DEF d
<1>4. All(d) = Contents(a)
  BY <1>1, ResetGood DEF All
<1> QED BY <1>1, <1>2, <1>3, <1>4, ResetGood DEF DictOK, dictIsRehashing, d

LEMMA RehashingMade ==
    ASSUME NEW a, NEW b, Good(a), Good(b), a.size > 0, b.size > 0,
           UniqueKeys(Contents(a) \cup Contents(b)),
           Contents(a) \cap Contents(b) = {},
           NEW r \in 0 .. a.size,
           \A e \in Contents(a) : Index(a, e.key) >= r
    PROVE  DictOK(Rehashing(a, b, r)) /\ All(Rehashing(a, b, r)) = Contents(a) \cup Contents(b)
<1>1. a.size \in Nat
  BY TableFacts DEF Good
<1>2. \A i \in 0 .. r - 1 : a.table[i] = {}
  BY EmptyBelow
<1> QED BY <1>1, <1>2 DEF DictOK, All, dictIsRehashing, Rehashing

\* What a good dict is, taken apart.
LEMMA DictParts ==
    ASSUME NEW d, DictOK(d)
    PROVE  /\ Good(d.ht0) /\ Good(d.ht1)
           /\ d.ht0.size \in Nat /\ d.ht1.size \in Nat
           /\ d.ht0.used \in Nat /\ d.ht1.used \in Nat
           /\ UniqueKeys(All(d))
           /\ Contents(d.ht0) \subseteq Entry /\ Contents(d.ht1) \subseteq Entry
           /\ All(d) \subseteq Entry
           /\ Contents(d.ht0) \cap Contents(d.ht1) = {}
           /\ d.rehashidx \in -1 .. d.ht0.size
           /\ ~dictIsRehashing(d) => d.ht1 = _dictReset /\ Contents(d.ht1) = {}
           /\ dictIsRehashing(d) =>
                /\ d.ht0.size > 0 /\ d.ht1.size > 0 /\ d.rehashidx \in 0 .. d.ht0.size
                /\ \A i \in 0 .. d.rehashidx - 1 : d.ht0.table[i] = {}
                /\ \A e \in Contents(d.ht0) : Index(d.ht0, e.key) >= d.rehashidx
<1>1. Good(d.ht0) /\ Good(d.ht1) /\ IsTable(d.ht0) /\ IsTable(d.ht1)
  BY DEF DictOK, Good
<1>2. /\ d.ht0.size \in Nat /\ d.ht1.size \in Nat
      /\ d.ht0.used \in Nat /\ d.ht1.used \in Nat
      /\ Contents(d.ht0) \subseteq Entry /\ Contents(d.ht1) \subseteq Entry
  BY <1>1, TableFacts
<1>3. dictIsRehashing(d) => d.rehashidx \in 0 .. d.ht0.size
  BY <1>2 DEF DictOK, dictIsRehashing
<1>4. dictIsRehashing(d) => \A e \in Contents(d.ht0) : Index(d.ht0, e.key) >= d.rehashidx
  BY <1>1, <1>3, EmptyBelow DEF DictOK
<1> QED BY <1>1, <1>2, <1>3, <1>4, ResetGood DEF DictOK, All

\* No dict holds more entries than there are keys.
LEMMA UsedBound ==
    ASSUME NEW d, DictOK(d)
    PROVE  d.ht0.used <= Cardinality(Keys) /\ Cardinality(Keys) \in Nat
<1> DEFINE C == Contents(d.ht0)
           f == [e \in C |-> e.key]
<1>1. C \subseteq Entry /\ d.ht0.used = Cardinality(C) /\ UniqueKeys(C)
  BY DictParts DEF Good, All, UniqueKeys
<1>2. f \in Injection(C, Keys)
  BY <1>1 DEF Injection, IsInjective, UniqueKeys, Entry
<1>3. Cardinality(C) <= Cardinality(Keys)
  <2> HIDE DEF C, f
  <2> QED BY <1>2, FS_Injection, DictAssumption
<1>4. Cardinality(Keys) \in Nat
  BY FS_CardinalityType, DictAssumption
<1> QED BY <1>1, <1>3, <1>4

\* The next power is a size.
LEMMA NextPowerType ==
    ASSUME NEW size \in 0 .. 2 * Cardinality(Keys) + DICT_HT_INITIAL_SIZE
    PROVE  _dictNextPower(size) \in Nat \ {0} /\ _dictNextPower(size) >= size
<1>1. \E c \in Capacities : IsNextPower(c, size)
  BY CapacityAssumption
<1>2. _dictNextPower(size) \in Capacities /\ IsNextPower(_dictNextPower(size), size)
  BY <1>1 DEF _dictNextPower
<1> QED BY <1>2, CapacityAssumption DEF IsNextPower

\* A dict that is good and holds the same entries.
Keeps(d, f) == DictOK(f) /\ All(f) = All(d)

LEMMA ExpandKeeps ==
    ASSUME NEW d, DictOK(d),
           NEW size \in 0 .. 2 * Cardinality(Keys) + DICT_HT_INITIAL_SIZE
    PROVE  Keeps(d, dictExpand(d, size))
<1> DEFINE n == _dictNextPower(size)
           t == NewTable(n)
<1>1. /\ n \in Nat \ {0}
      /\ Good(t) /\ Contents(t) = {} /\ t.size = n
  BY NextPowerType, NewTableGood
<1>2. CASE dictIsRehashing(d) \/ d.ht0.used > size
  BY <1>2 DEF dictExpand, Keeps
<1>3. CASE ~dictIsRehashing(d) /\ ~(d.ht0.used > size) /\ d.ht0.size = 0
  <2>0. Contents(d.ht0) = {}
    BY <1>3 DEF Contents
  <2>1. All(d) = {}
    BY <1>3, <2>0, DictParts DEF All
  <2>2. dictExpand(d, size) = Plain(t)
    BY <1>3, DictParts DEF dictExpand, DictOK, dictIsRehashing, Plain
  <2> HIDE DEF t
  <2> QED BY <1>1, <2>1, <2>2, PlainMade DEF Keeps, UniqueKeys
<1>4. CASE ~dictIsRehashing(d) /\ ~(d.ht0.used > size) /\ d.ht0.size # 0
  <2> DEFINE a == d.ht0
  <2>1. dictExpand(d, size) = Rehashing(a, t, 0)
    BY <1>4 DEF dictExpand, DictOK, Rehashing
  <2>2. /\ Good(a) /\ a.size > 0 /\ t.size > 0 /\ 0 \in 0 .. a.size
        /\ Contents(a) \cap Contents(t) = {}
        /\ UniqueKeys(Contents(a) \cup Contents(t))
        /\ All(d) = Contents(a) \cup Contents(t)
    BY <1>1, <1>4, DictParts DEF UniqueKeys, All
  <2>3. \A e \in Contents(a) : Index(a, e.key) >= 0
    BY <1>4, DictParts, IndexType DEF Entry
  <2> HIDE DEF t, a
  <2> QED BY <1>1, <2>1, <2>2, <2>3, RehashingMade DEF Keeps
<1> QED BY <1>2, <1>3, <1>4

\* While entries are left in the first table, a next bucket is there.
LEMMA NextBucketExists ==
    ASSUME NEW d, DictOK(d), dictIsRehashing(d), d.ht0.used # 0
    PROVE  LET i == NextBucket(d)
           IN  /\ i \in 0 .. d.ht0.size - 1 /\ d.ht0.table[i] # {}
               /\ \A j \in 0 .. i - 1 : d.ht0.table[j] = {}
<1> DEFINE r == d.rehashidx
           T == {i \in r .. d.ht0.size - 1 : d.ht0.table[i] # {}}
           i == NextBucket(d)
<1>1. /\ r \in 0 .. d.ht0.size /\ d.ht0.size \in Nat
      /\ \A j \in 0 .. r - 1 : d.ht0.table[j] = {}
  BY DictParts
<1>2. T # {}
  <2>1. PICK e : e \in Contents(d.ht0)
    BY DictParts, FS_EmptySet DEF Good
  <2>2. PICK j \in 0 .. d.ht0.size - 1 : e \in d.ht0.table[j]
    BY <2>1, InContents
  <2>3. j \in T
    BY <1>1, <2>2
  <2> QED BY <2>3
<1>3. T \subseteq Nat
  BY <1>1
<1>4. PICK m \in T : \A j \in T : m <= j
  <2> DEFINE R == OpToRel(<, Nat)
  <2>1. \A m, j \in Nat : <<j, m>> \in R <=> j < m
    BY DEF OpToRel
  <2>2. IsWellFoundedOn(R, Nat)
    BY NatLessThanWellFounded
  <2> HIDE DEF T, R
  <2>3. \E m \in T : \A j \in T : ~ <<j, m>> \in R
    BY <1>2, <1>3, <2>2, WFMin
  <2>4. PICK m \in T : \A j \in T : ~ <<j, m>> \in R
    BY <2>3
  <2>5. ASSUME NEW j \in T
        PROVE  m <= j
    <3>1. j \in Nat /\ m \in Nat /\ ~ <<j, m>> \in R
      BY <1>3, <2>4
    <3> QED BY <2>1, <3>1
  <2> QED BY <2>5
<1>5. /\ m \in r .. d.ht0.size - 1 /\ d.ht0.table[m] # {}
      /\ \A j \in r .. m - 1 : d.ht0.table[j] = {}
  BY <1>1, <1>4
<1>6. /\ i \in r .. d.ht0.size - 1 /\ d.ht0.table[i] # {}
      /\ \A j \in r .. i - 1 : d.ht0.table[j] = {}
  BY <1>5 DEF NextBucket
<1> QED BY <1>1, <1>6


\* The second table after it has taken the entries S.
Merged(t, S, n) ==
    [size |-> t.size, used |-> t.used + n,
     table |-> [j \in 0 .. t.size - 1 |-> t.table[j] \cup {e \in S : Index(t, e.key) = j}]]

LEMMA MergedGood ==
    ASSUME NEW t, Good(t), t.size # 0, NEW S \in SUBSET Entry,
           IsFiniteSet(S), S \cap Contents(t) = {}
    PROVE  LET u == Merged(t, S, Cardinality(S))
           IN  Good(u) /\ Contents(u) = Contents(t) \cup S /\ u.size = t.size
<1> DEFINE n == Cardinality(S)
           u == Merged(t, S, n)
           f == [j \in 0 .. t.size - 1 |-> t.table[j] \cup {e \in S : Index(t, e.key) = j}]
<1>1. IsTable(t) /\ InPlace(t)
  BY DEF Good
<1>2. /\ t.size \in Nat /\ t.used \in Nat /\ n \in Nat
      /\ t.table \in [0 .. t.size - 1 -> SUBSET Entry]
  BY <1>1, TableFacts, FS_CardinalityType
<1>3. /\ f \in [0 .. t.size - 1 -> SUBSET Entry]
      /\ \A j \in 0 .. t.size - 1 :
            f[j] = t.table[j] \cup {e \in S : Index(t, e.key) = j}
  BY <1>2
<1>4. u = [size |-> t.size, used |-> t.used + n, table |-> f]
  BY DEF Merged
<1> HIDE DEF u, f, n
<1>5. u.size = t.size /\ u.used = t.used + n /\ u.table = f
  BY <1>4
<1>6. IsTable(u)
  BY <1>2, <1>3, <1>4, <1>5 DEF IsTable, TableOfSize
<1>7. \A k : Index(u, k) = Index(t, k)
  BY <1>5 DEF Index
<1>8. InPlace(u)
  BY <1>1, <1>3, <1>5, <1>7 DEF InPlace
<1>9. ASSUME NEW e, e \in Contents(u)
      PROVE  e \in Contents(t) \cup S
  <2>1. PICK j \in 0 .. t.size - 1 : e \in f[j]
    BY <1>5, <1>9, InContents
  <2> QED BY <1>3, <2>1, InContents
<1>10. ASSUME NEW e, e \in Contents(t) \cup S
       PROVE  e \in Contents(u)
  <2>1. CASE e \in Contents(t)
    <3>1. PICK j \in 0 .. t.size - 1 : e \in t.table[j]
      BY <2>1, InContents
    <3> QED BY <1>3, <1>5, <3>1, InContents
  <2>2. CASE e \in S
    <3>1. Index(t, e.key) \in 0 .. t.size - 1
      BY <1>2, <2>2, IndexType DEF Entry
    <3> QED BY <1>3, <1>5, <2>2, <3>1, InContents
  <2> QED BY <1>10, <2>1, <2>2
<1>11. Contents(u) = Contents(t) \cup S
  BY <1>9, <1>10
<1>12. /\ IsFiniteSet(Contents(t) \cup S)
       /\ Cardinality(Contents(t) \cup S) = t.used + n
  <2>1. Contents(t) \cap S = {}
    BY DEF n
  <2>2. /\ IsFiniteSet(Contents(t) \cup S)
        /\ Cardinality(Contents(t) \cup S)
             = Cardinality(Contents(t)) + Cardinality(S) - Cardinality(Contents(t) \cap S)
    BY FS_Union DEF Good
  <2>3. Cardinality(Contents(t) \cap S) = 0
    BY <2>1, FS_EmptySet
  <2>4. t.used = Cardinality(Contents(t)) /\ n = Cardinality(S)
    BY DEF Good, n
  <2> QED BY <1>2, <2>2, <2>3, <2>4
<1> QED BY <1>5, <1>6, <1>8, <1>11, <1>12 DEF Good, u, n

\* The first table after one of its buckets is emptied.
LEMMA EmptiedGood ==
    ASSUME NEW t, Good(t), NEW i \in 0 .. t.size - 1
    PROVE  LET S == t.table[i]
               u == Rewritten(t, t.used - Cardinality(S), i, {})
           IN  /\ Good(u) /\ u.size = t.size
               /\ Contents(u) = Contents(t) \ S
               /\ S \in SUBSET Entry /\ S \subseteq Contents(t) /\ IsFiniteSet(S)
<1> DEFINE S == t.table[i]
           n == Cardinality(S)
           u == Rewritten(t, t.used - n, i, {})
<1>1. IsTable(t) /\ InPlace(t)
  BY DEF Good
<1>2. S \in SUBSET Entry /\ S \subseteq Contents(t) /\ t.used \in Nat
  BY <1>1, TableFacts
<1>3. IsFiniteSet(S) /\ n \in Nat /\ n <= t.used
  <2> HIDE DEF S
  <2> QED BY <1>2, FS_Subset, FS_CardinalityType DEF Good
<1>4. IsFiniteSet(Contents(t) \ S) /\ Cardinality(Contents(t) \ S) = t.used - n
  <2> DEFINE C == Contents(t)
  <2>1. C \cap S = S
    BY <1>2
  <2>2. IsFiniteSet(C) /\ t.used = Cardinality(C)
    BY DEF Good
  <2> HIDE DEF C, S
  <2>3. IsFiniteSet(C \ S) /\ Cardinality(C \ S) = Cardinality(C) - Cardinality(C \cap S)
    BY <2>2, FS_Difference
  <2> QED BY <2>1, <2>2, <2>3 DEF C
<1>5. t.used - n \in Nat
  BY <1>2, <1>3
<1> HIDE DEF n
<1>6. /\ IsTable(u) /\ u.size = t.size /\ u.used = t.used - n
      /\ InPlace(u) /\ Contents(u) = (Contents(t) \ S) \cup {}
  BY <1>1, <1>5, RewrittenIsTable, RewrittenContents
<1> QED BY <1>2, <1>3, <1>4, <1>6 DEF Good, n

\* Moving the first bucket that is not empty.
LEMMA MoveKeeps ==
    ASSUME NEW d, DictOK(d), dictIsRehashing(d), NEW i \in 0 .. d.ht0.size - 1,
           \A j \in 0 .. i - 1 : d.ht0.table[j] = {}
    PROVE  Keeps(d, MoveBucket(d, i))
<1> DEFINE S == d.ht0.table[i]
           a == Rewritten(d.ht0, d.ht0.used - Cardinality(S), i, {})
           b == Merged(d.ht1, S, Cardinality(S))
<1>1. MoveBucket(d, i) = Rehashing(a, b, i + 1)
  BY DEF MoveBucket, Rewritten, Merged, Rehashing
<1>2. /\ Good(d.ht0) /\ Good(d.ht1) /\ d.ht0.size \in Nat /\ d.ht1.size # 0
      /\ d.ht0.size > 0 /\ d.ht1.size > 0
      /\ UniqueKeys(All(d)) /\ Contents(d.ht0) \cap Contents(d.ht1) = {}
  BY DictParts
<1>3. /\ Good(a) /\ a.size = d.ht0.size /\ Contents(a) = Contents(d.ht0) \ S
      /\ S \in SUBSET Entry /\ S \subseteq Contents(d.ht0) /\ IsFiniteSet(S)
  BY <1>2, EmptiedGood
<1> HIDE DEF S
<1>4. Good(b) /\ Contents(b) = Contents(d.ht1) \cup S /\ b.size = d.ht1.size
  BY <1>2, <1>3, MergedGood
<1>5. \A j \in 0 .. (i + 1) - 1 : a.table[j] = {}
  <2>1. \A j \in 0 .. d.ht0.size - 1 : a.table[j] = IF j = i THEN {} ELSE d.ht0.table[j]
    <3>1. IsTable(d.ht0) /\ d.ht0.used - Cardinality(S) \in Nat
      <4>1. a.used \in Nat
        BY <1>3, TableFacts DEF Good
      <4>2. a.used = d.ht0.used - Cardinality(S)
        BY <1>2 DEF Rewritten, Good, IsTable, TableOfSize
      <4> QED BY <1>2, <4>1, <4>2 DEF Good
    <3> QED BY <3>1, RewrittenIsTable
  <2> QED BY <1>2, <2>1
<1>6. i + 1 \in 0 .. a.size
  BY <1>2, <1>3
<1> HIDE DEF a, b
<1>7. \A e \in Contents(a) : Index(a, e.key) >= i + 1
  BY <1>3, <1>5, <1>6, EmptyBelow
<1>8. /\ Contents(a) \cup Contents(b) = All(d)
      /\ Contents(a) \cap Contents(b) = {}
  BY <1>2, <1>3, <1>4 DEF All
<1>9. a.size > 0 /\ b.size > 0
  BY <1>2, <1>3, <1>4
<1>10. DictOK(Rehashing(a, b, i + 1)) /\ All(Rehashing(a, b, i + 1)) = All(d)
  <2>1. UniqueKeys(Contents(a) \cup Contents(b))
    BY <1>2, <1>8
  <2>2. Good(a) /\ Good(b)
    BY <1>3, <1>4
  <2>3. DictOK(Rehashing(a, b, i + 1))
        /\ All(Rehashing(a, b, i + 1)) = Contents(a) \cup Contents(b)
    BY ONLY <1>6, <1>7, <1>8, <1>9, <2>1, <2>2, RehashingMade
  <2> QED BY ONLY <1>8, <2>3
<1> QED BY <1>1, <1>10 DEF Keeps

LEMMA RehashKeeps ==
    ASSUME NEW d, DictOK(d)
    PROVE  Keeps(d, dictRehash(d))
<1>1. CASE ~dictIsRehashing(d)
  BY <1>1 DEF dictRehash, Keeps
<1>2. CASE dictIsRehashing(d) /\ d.ht0.used = 0
  <2>1. Contents(d.ht0) = {}
    BY <1>2, DictParts, FS_EmptySet DEF Good
  <2>2. dictRehash(d) = Plain(d.ht1) /\ All(d) = Contents(d.ht1)
    BY <1>2, <2>1 DEF dictRehash, Plain, All
  <2>3. Good(d.ht1) /\ UniqueKeys(Contents(d.ht1))
    BY <2>2, DictParts
  <2> QED BY <2>2, <2>3, PlainMade DEF Keeps
<1>3. CASE dictIsRehashing(d) /\ d.ht0.used # 0
  <2> DEFINE i == NextBucket(d)
  <2>1. /\ i \in 0 .. d.ht0.size - 1
        /\ \A j \in 0 .. i - 1 : d.ht0.table[j] = {}
    BY <1>3, NextBucketExists
  <2>2. dictRehash(d) = MoveBucket(d, i)
    BY <1>3 DEF dictRehash
  <2> HIDE DEF i
  <2> QED BY <1>3, <2>1, <2>2, MoveKeeps
<1> QED BY <1>1, <1>2, <1>3


LEMMA KeepsTransitive ==
    ASSUME NEW d, NEW f, NEW g, Keeps(d, f), Keeps(f, g)
    PROVE  Keeps(d, g)
BY DEF Keeps

LEMMA SteppedKeeps ==
    ASSUME NEW d, DictOK(d)
    PROVE  Keeps(d, Stepped(d))
BY RehashKeeps DEF Stepped, Keeps

\* The sizes that calls and cron ask for.
LEMMA SizesAsked ==
    ASSUME NEW d, DictOK(d)
    PROVE  LET sizes == 0 .. 2 * Cardinality(Keys) + DICT_HT_INITIAL_SIZE
           IN  /\ DICT_HT_INITIAL_SIZE \in sizes
               /\ d.ht0.used \in sizes
               /\ d.ht0.used * 2 \in sizes
<1>1. /\ d.ht0.used \in Nat /\ Cardinality(Keys) \in Nat
      /\ d.ht0.used <= Cardinality(Keys)
  BY UsedBound, DictParts
<1>2. DICT_HT_INITIAL_SIZE \in Nat
  BY DictAssumption
<1> QED BY <1>1, <1>2

LEMMA ExpandIfNeededKeeps ==
    ASSUME NEW d, DictOK(d)
    PROVE  Keeps(d, _dictExpandIfNeeded(d))
<1>1. /\ Keeps(d, dictExpand(d, DICT_HT_INITIAL_SIZE))
      /\ Keeps(d, dictExpand(d, d.ht0.used * 2))
      /\ Keeps(d, d)
  BY SizesAsked, ExpandKeeps DEF Keeps
<1> QED BY <1>1 DEF _dictExpandIfNeeded

LEMMA ResizeKeeps ==
    ASSUME NEW d, DictOK(d)
    PROVE  Keeps(d, dictResize(d))
BY SizesAsked, ExpandKeeps DEF dictResize

\* There is a table to add to.
LEMMA ExpandIfNeededHasTable ==
    ASSUME NEW d, DictOK(d)
    PROVE  _dictExpandIfNeeded(d).ht0.size # 0
<1>1. CASE dictIsRehashing(d)
  BY <1>1, DictParts DEF _dictExpandIfNeeded
<1>2. CASE ~dictIsRehashing(d) /\ d.ht0.size = 0
  <2>1. d.ht0.used = 0
    <3>1. Contents(d.ht0) = {}
      BY <1>2 DEF Contents
    <3> QED BY <3>1, DictParts, FS_EmptySet DEF Good
  <2>2. ~(d.ht0.used > DICT_HT_INITIAL_SIZE)
    BY <2>1, DictAssumption
  <2>3. _dictExpandIfNeeded(d).ht0 = NewTable(_dictNextPower(DICT_HT_INITIAL_SIZE))
    BY <1>2, <2>2 DEF _dictExpandIfNeeded, dictExpand, DictOK
  <2>4. _dictNextPower(DICT_HT_INITIAL_SIZE) \in Nat \ {0}
    BY SizesAsked, NextPowerType
  <2> QED BY <2>3, <2>4, NewTableGood
<1>3. CASE ~dictIsRehashing(d) /\ d.ht0.size # 0
  BY <1>3 DEF _dictExpandIfNeeded, dictExpand, DictOK
<1> QED BY <1>1, <1>2, <1>3

LEMMA PreparedKeeps ==
    ASSUME NEW d, DictOK(d)
    PROVE  Keeps(d, Prepared(d)) /\ Prepared(d).ht0.size # 0
<1>1. Keeps(d, Stepped(d)) /\ DictOK(Stepped(d))
  BY SteppedKeeps DEF Keeps
<1>2. Keeps(Stepped(d), Prepared(d))
  BY <1>1, ExpandIfNeededKeeps DEF Prepared
<1>3. Prepared(d).ht0.size # 0
  BY <1>1, ExpandIfNeededHasTable DEF Prepared
<1> QED BY <1>1, <1>2, <1>3, KeepsTransitive

-----------------------------------------------------------------------------
(* Lookups see every entry.                                                *)

LEMMA HasSeesAll ==
    ASSUME NEW d, DictOK(d), NEW k \in Keys
    PROVE  /\ InFirst(d, k) <=> \E e \in Contents(d.ht0) : e.key = k
           /\ InSecond(d, k) <=> \E e \in Contents(d.ht1) : e.key = k
           /\ Has(d, k) <=> \E e \in All(d) : e.key = k
<1>1. Good(d.ht0) /\ Good(d.ht1)
  BY DictParts
<1>2. InFirst(d, k) <=> \E e \in Contents(d.ht0) : e.key = k
  <2>1. CASE d.ht0.size = 0
    BY <2>1 DEF InFirst, Contents
  <2>2. CASE d.ht0.size # 0
    <3>1. Chain(d.ht0, k) = {e \in Contents(d.ht0) : e.key = k}
      BY <1>1, <2>2, ChainFindsAll DEF Good
    <3> QED BY <2>2, <3>1 DEF InFirst
  <2> QED BY <2>1, <2>2
<1>3. InSecond(d, k) <=> \E e \in Contents(d.ht1) : e.key = k
  <2>1. CASE ~dictIsRehashing(d)
    BY <2>1, DictParts DEF InSecond
  <2>2. CASE dictIsRehashing(d)
    <3>1. d.ht1.size # 0
      BY <2>2, DictParts
    <3>2. Chain(d.ht1, k) = {e \in Contents(d.ht1) : e.key = k}
      BY <1>1, <3>1, ChainFindsAll DEF Good
    <3> QED BY <2>2, <3>2 DEF InSecond
  <2> QED BY <2>1, <2>2
<1> QED BY <1>2, <1>3 DEF Has, All

\* The entry found is the key's only one.
LEMMA EntryFound ==
    ASSUME NEW d, DictOK(d), NEW k \in Keys, Has(d, k)
    PROVE  LET e == EntryOf(d, k)
           IN  /\ e \in All(d) /\ e \in Entry /\ e.key = k
               /\ InFirst(d, k) => e \in Contents(d.ht0) /\ e \notin Contents(d.ht1)
               /\ ~InFirst(d, k) => e \in Contents(d.ht1) /\ e \notin Contents(d.ht0)
               /\ \A f \in All(d) : f.key = k => f = e
<1> DEFINE e == EntryOf(d, k)
<1>1. Good(d.ht0) /\ Good(d.ht1)
  BY DictParts
<1>2. CASE InFirst(d, k)
  <2>1. Chain(d.ht0, k) = {f \in Contents(d.ht0) : f.key = k}
    BY <1>1, <1>2, ChainFindsAll DEF Good, InFirst
  <2>2. e \in Chain(d.ht0, k)
    BY <1>2 DEF EntryOf, InFirst
  <2> HIDE DEF e
  <2>3. e \in Contents(d.ht0) /\ e.key = k
    BY <2>1, <2>2
  <2> QED BY <1>2, <2>3, DictParts DEF All, UniqueKeys, e
<1>3. CASE ~InFirst(d, k)
  <2>1. dictIsRehashing(d) /\ d.ht1.size # 0 /\ Chain(d.ht1, k) # {}
    BY <1>3, DictParts DEF Has, InSecond
  <2>2. Chain(d.ht1, k) = {f \in Contents(d.ht1) : f.key = k}
    BY <1>1, <2>1, ChainFindsAll DEF Good
  <2>3. e \in Chain(d.ht1, k)
    BY <1>3, <2>1 DEF EntryOf
  <2> HIDE DEF e
  <2>4. e \in Contents(d.ht1) /\ e.key = k
    BY <2>2, <2>3
  <2> QED BY <1>3, <2>4, DictParts DEF All, UniqueKeys, e
<1> QED BY <1>2, <1>3


-----------------------------------------------------------------------------
(* Changes.                                                                *)

LEMMA AddedOK ==
    ASSUME NEW d, DictOK(d), d.ht0.size # 0, NEW e \in Entry, ~Has(d, e.key)
    PROVE  DictOK(Added(d, e)) /\ All(Added(d, e)) = All(d) \cup {e}
<1>1. e \notin All(d) /\ \A f \in All(d) : f.key # e.key
  BY HasSeesAll DEF Entry
<1>2. UniqueKeys(All(d) \cup {e})
  BY <1>1, DictParts DEF UniqueKeys
<1>3. CASE dictIsRehashing(d)
  <2> DEFINE u == Insert(d.ht1, e)
  <2>1. Added(d, e) = Rehashing(d.ht0, u, d.rehashidx)
    BY <1>3 DEF Added, Rehashing, DictOK
  <2>2. /\ Good(d.ht0) /\ Good(d.ht1) /\ d.ht1.size # 0 /\ d.ht1.size > 0
        /\ d.ht0.size > 0 /\ d.rehashidx \in 0 .. d.ht0.size
        /\ \A f \in Contents(d.ht0) : Index(d.ht0, f.key) >= d.rehashidx
        /\ Contents(d.ht0) \cap Contents(d.ht1) = {}
    BY <1>3, DictParts
  <2>3. Good(u) /\ Contents(u) = Contents(d.ht1) \cup {e} /\ u.size = d.ht1.size
    BY <1>1, <2>2, InsertGood DEF All
  <2> HIDE DEF u
  <2>4. /\ Contents(d.ht0) \cup Contents(u) = All(d) \cup {e}
        /\ Contents(d.ht0) \cap Contents(u) = {}
    BY <1>1, <2>2, <2>3 DEF All
  <2> QED BY <1>2, <2>1, <2>2, <2>3, <2>4, RehashingMade
<1>4. CASE ~dictIsRehashing(d)
  <2> DEFINE u == Insert(d.ht0, e)
  <2>1. Added(d, e) = Plain(u)
    BY <1>4 DEF Added, Plain, DictOK, dictIsRehashing
  <2>2. Good(d.ht0) /\ All(d) = Contents(d.ht0)
    BY <1>4, DictParts DEF All
  <2>3. Good(u) /\ Contents(u) = Contents(d.ht0) \cup {e}
    BY <1>1, <2>2, InsertGood
  <2> HIDE DEF u
  <2> QED BY <1>2, <2>1, <2>2, <2>3, PlainMade
<1> QED BY <1>3, <1>4

\* A dict with one of its tables changed, in a way that keeps keys where
\* they were.
LEMMA FirstChanged ==
    ASSUME NEW d, DictOK(d), NEW u, Good(u), u.size = d.ht0.size,
           \A f \in Contents(u) : \E e \in Contents(d.ht0) : e.key = f.key,
           UniqueKeys(Contents(u) \cup Contents(d.ht1)),
           Contents(u) \cap Contents(d.ht1) = {}
    PROVE  LET f == [d EXCEPT !.ht0 = u]
           IN  DictOK(f) /\ All(f) = Contents(u) \cup Contents(d.ht1)
<1>1. [d EXCEPT !.ht0 = u] = Rehashing(u, d.ht1, d.rehashidx)
  BY DEF DictOK, Rehashing
<1>2. CASE dictIsRehashing(d)
  <2>1. /\ Good(d.ht1) /\ u.size > 0 /\ d.ht1.size > 0 /\ d.rehashidx \in 0 .. u.size
        /\ \A e \in Contents(d.ht0) : Index(d.ht0, e.key) >= d.rehashidx
    BY <1>2, DictParts
  <2>2. \A f \in Contents(u) : Index(u, f.key) >= d.rehashidx
    BY <2>1 DEF Index
  <2> QED BY <1>1, <2>1, <2>2, RehashingMade
<1>3. CASE ~dictIsRehashing(d)
  <2>1. Rehashing(u, d.ht1, d.rehashidx) = Plain(u) /\ Contents(d.ht1) = {}
    BY <1>3, DictParts DEF Rehashing, Plain, dictIsRehashing
  <2> QED BY <1>1, <2>1, PlainMade
<1> QED BY <1>2, <1>3

LEMMA SecondChanged ==
    ASSUME NEW d, DictOK(d), dictIsRehashing(d), NEW u, Good(u), u.size = d.ht1.size,
           UniqueKeys(Contents(d.ht0) \cup Contents(u)),
           Contents(d.ht0) \cap Contents(u) = {}
    PROVE  LET f == [d EXCEPT !.ht1 = u]
           IN  DictOK(f) /\ All(f) = Contents(d.ht0) \cup Contents(u)
<1>1. [d EXCEPT !.ht1 = u] = Rehashing(d.ht0, u, d.rehashidx)
  BY DEF DictOK, Rehashing
<1>2. /\ Good(d.ht0) /\ d.ht0.size > 0 /\ u.size > 0 /\ d.rehashidx \in 0 .. d.ht0.size
      /\ \A e \in Contents(d.ht0) : Index(d.ht0, e.key) >= d.rehashidx
  BY DictParts
<1> QED BY <1>1, <1>2, RehashingMade

LEMMA RemovedOK ==
    ASSUME NEW d, DictOK(d), NEW k \in Keys, Has(d, k)
    PROVE  DictOK(Removed(d, k)) /\ All(Removed(d, k)) = All(d) \ {EntryOf(d, k)}
<1> DEFINE e == EntryOf(d, k)
<1>1. /\ Good(d.ht0) /\ Good(d.ht1) /\ UniqueKeys(All(d))
      /\ Contents(d.ht0) \cap Contents(d.ht1) = {}
  BY DictParts
<1>2. CASE InFirst(d, k)
  <2> DEFINE u == Unlink(d.ht0, e)
  <2>1. e \in Contents(d.ht0) /\ e \notin Contents(d.ht1)
    BY <1>2, EntryFound
  <2>2. Removed(d, k) = [d EXCEPT !.ht0 = u]
    BY <1>2 DEF Removed
  <2> HIDE DEF e
  <2>3. Good(u) /\ Contents(u) = Contents(d.ht0) \ {e} /\ u.size = d.ht0.size
    BY <1>1, <2>1, UnlinkGood
  <2> HIDE DEF u
  <2>4. /\ \A f \in Contents(u) : \E g \in Contents(d.ht0) : g.key = f.key
        /\ Contents(u) \cup Contents(d.ht1) = All(d) \ {e}
        /\ UniqueKeys(All(d) \ {e})
        /\ Contents(u) \cap Contents(d.ht1) = {}
    BY <1>1, <2>1, <2>3 DEF All, UniqueKeys
  <2> QED BY <2>2, <2>3, <2>4, FirstChanged DEF e
<1>3. CASE ~InFirst(d, k)
  <2> DEFINE u == Unlink(d.ht1, e)
  <2>1. e \in Contents(d.ht1) /\ e \notin Contents(d.ht0) /\ dictIsRehashing(d)
    BY <1>3, EntryFound DEF Has, InSecond
  <2>2. Removed(d, k) = [d EXCEPT !.ht1 = u]
    BY <1>3 DEF Removed
  <2> HIDE DEF e
  <2>3. Good(u) /\ Contents(u) = Contents(d.ht1) \ {e} /\ u.size = d.ht1.size
    BY <1>1, <2>1, UnlinkGood
  <2> HIDE DEF u
  <2>4. /\ Contents(d.ht0) \cup Contents(u) = All(d) \ {e}
        /\ UniqueKeys(All(d) \ {e})
        /\ Contents(d.ht0) \cap Contents(u) = {}
    BY <1>1, <2>1, <2>3 DEF All, UniqueKeys
  <2> QED BY <2>1, <2>2, <2>3, <2>4, SecondChanged DEF e
<1> QED BY <1>2, <1>3

LEMMA OverwrittenOK ==
    ASSUME NEW d, DictOK(d), NEW k \in Keys, Has(d, k), NEW v \in Vals
    PROVE  /\ DictOK(Overwritten(d, k, v))
           /\ All(Overwritten(d, k, v))
                = (All(d) \ {EntryOf(d, k)}) \cup {[key |-> k, val |-> v]}
<1> DEFINE e == EntryOf(d, k)
           f == [key |-> k, val |-> v]
<1>1. /\ Good(d.ht0) /\ Good(d.ht1) /\ UniqueKeys(All(d))
      /\ UniqueKeys(Contents(d.ht0)) /\ UniqueKeys(Contents(d.ht1))
      /\ Contents(d.ht0) \cap Contents(d.ht1) = {}
  BY DictParts DEF All, UniqueKeys
<1>2. e.key = k /\ f.key = k /\ \A g \in All(d) : g.key = k => g = e
  BY EntryFound
<1>3. UniqueKeys((All(d) \ {e}) \cup {f})
  <2> HIDE DEF e, f
  <2> QED BY <1>1, <1>2 DEF UniqueKeys
<1>4. CASE InFirst(d, k)
  <2> DEFINE u == SetVal(d.ht0, e, v)
  <2>1. e \in Contents(d.ht0) /\ e \notin Contents(d.ht1)
    BY <1>4, EntryFound
  <2>2. Overwritten(d, k, v) = [d EXCEPT !.ht0 = u]
    BY <1>4 DEF Overwritten
  <2>3. f = [key |-> e.key, val |-> v]
    BY <1>2
  <2> HIDE DEF e, f
  <2>4. Good(u) /\ Contents(u) = (Contents(d.ht0) \ {e}) \cup {f} /\ u.size = d.ht0.size
    BY <1>1, <2>1, <2>3, SetValGood
  <2> HIDE DEF u
  <2>5. \A h \in Contents(u) : \E g \in Contents(d.ht0) : g.key = h.key
    BY <1>2, <2>1, <2>4
  <2>6. Contents(u) \cup Contents(d.ht1) = (All(d) \ {e}) \cup {f}
    BY <2>1, <2>4 DEF All
  <2>7. Contents(u) \cap Contents(d.ht1) = {}
    BY <1>1, <1>2, <2>1, <2>4 DEF All
  <2> QED BY <1>3, <2>2, <2>4, <2>5, <2>6, <2>7, FirstChanged DEF e, f
<1>5. CASE ~InFirst(d, k)
  <2> DEFINE u == SetVal(d.ht1, e, v)
  <2>1. e \in Contents(d.ht1) /\ e \notin Contents(d.ht0) /\ dictIsRehashing(d)
    BY <1>5, EntryFound DEF Has, InSecond
  <2>2. Overwritten(d, k, v) = [d EXCEPT !.ht1 = u]
    BY <1>5 DEF Overwritten
  <2>3. f = [key |-> e.key, val |-> v]
    BY <1>2
  <2> HIDE DEF e, f
  <2>4. Good(u) /\ Contents(u) = (Contents(d.ht1) \ {e}) \cup {f} /\ u.size = d.ht1.size
    BY <1>1, <2>1, <2>3, SetValGood
  <2> HIDE DEF u
  <2>6. Contents(d.ht0) \cup Contents(u) = (All(d) \ {e}) \cup {f}
    BY <2>1, <2>4 DEF All
  <2>7. Contents(d.ht0) \cap Contents(u) = {}
    BY <1>1, <1>2, <2>1, <2>4 DEF All
  <2> QED BY <1>3, <2>1, <2>2, <2>4, <2>6, <2>7, SecondChanged DEF e, f
<1> QED BY <1>4, <1>5


-----------------------------------------------------------------------------
(* The inductive invariant.                                                *)

IInv == DictOK(dict)

LEMMA NewEntry ==
    ASSUME NEW k \in Keys, NEW v \in Vals
    PROVE  [key |-> k, val |-> v] \in Entry
BY DEF Entry

\* What the dict is after each call, and what it holds: the same entries, or
\* one more, one less, one with another value, or none.
LEMMA AddOK ==
    ASSUME IInv, NEW k \in Keys, NEW v \in Vals, dictAdd(k, v)
    PROVE  IInv'
<1> DEFINE d == Prepared(dict)
           e == [key |-> k, val |-> v]
<1>1. DictOK(d) /\ d.ht0.size # 0
  BY PreparedKeeps DEF IInv, Keeps
<1>2. e \in Entry /\ e.key = k
  BY NewEntry
<1>3. \/ ~Has(d, k) /\ dict' = Added(d, e)
      \/ dict' = d
  BY DEF dictAdd
<1> HIDE DEF d, e
<1> QED BY <1>1, <1>2, <1>3, AddedOK DEF IInv

\* dictReplace finds again, after the step of its own lookup, the key that
\* its dictAdd met.
LEMMA FoundAgain ==
    ASSUME NEW d, DictOK(d), NEW k \in Keys
    PROVE  /\ DictOK(Stepped(d)) /\ All(Stepped(d)) = All(d)
           /\ Has(Stepped(d), k) <=> Has(d, k)
<1>1. DictOK(Stepped(d)) /\ All(Stepped(d)) = All(d)
  BY SteppedKeeps DEF Keeps
<1> QED BY <1>1, HasSeesAll

LEMMA ReplaceOK ==
    ASSUME IInv, NEW k \in Keys, NEW v \in Vals, dictReplace(k, v)
    PROVE  IInv'
<1> DEFINE d == Prepared(dict)
           e == [key |-> k, val |-> v]
<1>1. DictOK(d) /\ d.ht0.size # 0
  BY PreparedKeeps DEF IInv, Keeps
<1>2. e \in Entry /\ e.key = k
  BY NewEntry
<1>3. \/ ~Has(d, k) /\ dict' = Added(d, e)
      \/ Has(d, k) /\ dict' = Overwritten(Stepped(d), k, v)
  BY DEF dictReplace
<1> HIDE DEF d, e
<1>4. CASE ~Has(d, k) /\ dict' = Added(d, e)
  BY <1>1, <1>2, <1>4, AddedOK DEF IInv
<1>5. CASE Has(d, k) /\ dict' = Overwritten(Stepped(d), k, v)
  BY <1>1, <1>5, FoundAgain, OverwrittenOK DEF IInv
<1> QED BY <1>3, <1>4, <1>5

LEMMA DeleteOK ==
    ASSUME IInv, NEW k \in Keys, dictDelete(k)
    PROVE  IInv'
<1> DEFINE d == Stepped(dict)
<1>1. DictOK(d)
  BY SteppedKeeps DEF IInv, Keeps
<1>2. \/ dict' = d
      \/ Has(d, k) /\ dict' = Removed(d, k)
  BY DEF dictDelete
<1> HIDE DEF d
<1> QED BY <1>1, <1>2, RemovedOK DEF IInv

LEMMA LookupsOK ==
    ASSUME IInv, dictGetRandomKey \/ \E k \in Keys : dictFind(k)
    PROVE  IInv'
BY SteppedKeeps DEF IInv, Keeps, dictFind, dictGetRandomKey

LEMMA CronOK ==
    ASSUME IInv, tryResizeHashTables \/ incrementallyRehash
    PROVE  IInv'
BY ResizeKeeps, RehashKeeps DEF IInv, Keeps, tryResizeHashTables, incrementallyRehash

LEMMA EmptyOK ==
    /\ DictOK(Plain(_dictReset)) /\ All(Plain(_dictReset)) = {}
    /\ dictEmpty => dict' = Plain(_dictReset)
    /\ Init => dict = Plain(_dictReset)
BY ResetGood, PlainMade DEF UniqueKeys, dictEmpty, Init, Plain

LEMMA InitOK == Init => IInv
BY EmptyOK DEF IInv

LEMMA NextOK == IInv /\ [Next]_vars => IInv'
<1> SUFFICES ASSUME IInv, [Next]_vars
             PROVE  IInv'
  OBVIOUS
<1>1. CASE \E k \in Keys, v \in Vals : dictAdd(k, v) \/ dictReplace(k, v)
  BY <1>1, AddOK, ReplaceOK
<1>2. CASE \E k \in Keys : dictDelete(k) \/ dictFind(k)
  BY <1>2, DeleteOK, LookupsOK
<1>3. CASE dictGetRandomKey
  BY <1>3, LookupsOK
<1>4. CASE dictEmpty
  BY <1>4, EmptyOK DEF IInv
<1>5. CASE tryResizeHashTables \/ incrementallyRehash
  BY <1>5, CronOK
<1>6. CASE UNCHANGED vars
  BY <1>6 DEF vars, IInv
<1> QED BY <1>1, <1>2, <1>3, <1>4, <1>5, <1>6 DEF Next

LEMMA AlwaysOK == Spec => []IInv
BY InitOK, NextOK, PTL DEF Spec

-----------------------------------------------------------------------------
(* The theorems.                                                           *)

\* Whatever calls are made, both tables hold entries only, no used count
\* goes below zero and rehashidx stays within the first table (TypeOK).
THEOREM TypeCorrect == Spec => []TypeOK
<1>1. IInv => TypeOK
  BY DictParts DEF IInv, TypeOK, Good
<1> QED BY <1>1, AlwaysOK, PTL

\* Every entry stays in the bucket its key hashes to, through every resize
\* and every step of a rehashing (EntriesInPlace).
THEOREM EntriesAlwaysInPlace == Spec => []EntriesInPlace
<1>1. IInv => EntriesInPlace
  BY DictParts DEF IInv, EntriesInPlace, Good
<1> QED BY <1>1, AlwaysOK, PTL

\* A key never has two entries, in one table or in both (NoDuplicates).
THEOREM NeverDuplicates == Spec => []NoDuplicates
<1>1. IInv => NoDuplicates
  BY DictParts DEF IInv, NoDuplicates, UniqueKeys, All
<1> QED BY <1>1, AlwaysOK, PTL

\* The used counts count the entries (UsedCounts).
THEOREM UsedAlwaysCounts == Spec => []UsedCounts
<1>1. IInv => UsedCounts
  BY DictParts DEF IInv, UsedCounts, Good
<1> QED BY <1>1, AlwaysOK, PTL

\* The search for the next bucket to move ends inside the table, which the
\* code only asserts in a comment (RehashIndexSane).
THEOREM RehashIndexAlwaysSane == Spec => []RehashIndexSane
<1>1. IInv => RehashIndexSane
  BY DictParts DEF IInv, RehashIndexSane
<1> QED BY <1>1, AlwaysOK, PTL


-----------------------------------------------------------------------------
(* A dict implements a map.                                                *)

\* The map depends on what is held, not on where it is held.
LEMMA SameMap ==
    ASSUME NEW d, NEW f, All(f) = All(d)
    PROVE  MapOf(f) = MapOf(d)
BY DEF MapOf, All

LEMMA MapValue ==
    ASSUME NEW d, UniqueKeys(All(d)), NEW k \in Keys
    PROVE  /\ \A e \in All(d) : e.key = k => MapOf(d)[k] = e.val
           /\ (\A e \in All(d) : e.key # k) => MapOf(d)[k] = None
           /\ MapOf(d) = [x \in Keys |-> MapOf(d)[x]]
BY DEF MapOf, All, UniqueKeys

LEMMA MapHas ==
    ASSUME NEW d, DictOK(d), NEW k \in Keys
    PROVE  /\ Has(d, k) => MapOf(d)[k] = EntryOf(d, k).val /\ MapOf(d)[k] \in Vals
           /\ ~Has(d, k) => MapOf(d)[k] = None
<1>1. UniqueKeys(All(d))
  BY DictParts
<1>2. CASE Has(d, k)
  <2>1. /\ EntryOf(d, k) \in All(d) /\ EntryOf(d, k) \in Entry
        /\ EntryOf(d, k).key = k
    BY <1>2, EntryFound
  <2> QED BY <1>1, <1>2, <2>1, MapValue DEF Entry
<1>3. CASE ~Has(d, k)
  BY <1>1, <1>3, HasSeesAll, MapValue
<1> QED BY <1>2, <1>3

\* One key's value is written or removed.
LEMMA MapWritten ==
    ASSUME NEW d, NEW f, DictOK(d), DictOK(f), NEW k \in Keys, NEW v,
           \A e \in All(f) : e.key # k => e \in All(d),
           \A e \in All(d) : e.key # k => e \in All(f),
           \/ \E e \in All(f) : e.key = k /\ e.val = v
           \/ v = None /\ \A e \in All(f) : e.key # k
    PROVE  MapOf(f) = [MapOf(d) EXCEPT ![k] = v]
<1>1. UniqueKeys(All(d)) /\ UniqueKeys(All(f))
  BY DictParts
<1>2. MapOf(f)[k] = v
  BY <1>1, MapValue
<1>3. ASSUME NEW x \in Keys, x # k
      PROVE  MapOf(f)[x] = MapOf(d)[x]
  <2>1. CASE \E e \in All(d) : e.key = x
    <3>1. PICK e \in All(d) : e.key = x
      BY <2>1
    <3>2. e \in All(f)
      BY <1>3, <3>1
    <3> QED BY <1>1, <3>1, <3>2, MapValue
  <2>2. CASE \A e \in All(d) : e.key # x
    <3>1. \A e \in All(f) : e.key # x
      BY <1>3, <2>2
    <3> QED BY <1>1, <2>2, <3>1, MapValue
  <2> QED BY <2>1, <2>2
<1>4. MapOf(f) = [x \in Keys |-> MapOf(f)[x]] /\ MapOf(d) = [x \in Keys |-> MapOf(d)[x]]
  BY <1>1, MapValue
<1> HIDE DEF MapOf
<1> QED BY <1>2, <1>3, <1>4

LEMMA AddedMap ==
    ASSUME NEW d, DictOK(d), d.ht0.size # 0, NEW k \in Keys, NEW v \in Vals, ~Has(d, k)
    PROVE  MapOf(Added(d, [key |-> k, val |-> v])) = [MapOf(d) EXCEPT ![k] = v]
<1> DEFINE e == [key |-> k, val |-> v]
           f == Added(d, e)
<1>1. e \in Entry /\ e.key = k /\ e.val = v
  BY NewEntry
<1> HIDE DEF e
<1>2. DictOK(f) /\ All(f) = All(d) \cup {e}
  BY <1>1, AddedOK
<1> HIDE DEF f
<1>3. MapOf(f) = [MapOf(d) EXCEPT ![k] = v]
  BY <1>1, <1>2, MapWritten
<1> QED BY <1>3 DEF f, e

LEMMA OverwrittenMap ==
    ASSUME NEW d, DictOK(d), NEW k \in Keys, NEW v \in Vals, Has(d, k)
    PROVE  MapOf(Overwritten(d, k, v)) = [MapOf(d) EXCEPT ![k] = v]
<1> DEFINE e == [key |-> k, val |-> v]
           f == Overwritten(d, k, v)
           g == EntryOf(d, k)
<1>1. e \in Entry /\ e.key = k /\ e.val = v
  BY NewEntry
<1>2. g.key = k
  BY EntryFound
<1>3. DictOK(f) /\ All(f) = (All(d) \ {g}) \cup {e}
  BY OverwrittenOK
<1> HIDE DEF e, f, g
<1>4. MapOf(f) = [MapOf(d) EXCEPT ![k] = v]
  BY <1>1, <1>2, <1>3, MapWritten
<1> QED BY <1>4 DEF f

LEMMA RemovedMap ==
    ASSUME NEW d, DictOK(d), NEW k \in Keys, Has(d, k)
    PROVE  MapOf(Removed(d, k)) = [MapOf(d) EXCEPT ![k] = None]
<1> DEFINE f == Removed(d, k)
           g == EntryOf(d, k)
<1>1. g.key = k /\ \A e \in All(d) : e.key = k => e = g
  BY EntryFound
<1>2. DictOK(f) /\ All(f) = All(d) \ {g}
  BY RemovedOK
<1> HIDE DEF f, g
<1>3. MapOf(f) = [MapOf(d) EXCEPT ![k] = None]
  BY <1>1, <1>2, MapWritten
<1> QED BY <1>3 DEF f

\* Every step of the dict is the map's step of the same call, or none.
LEMMA AddIsAdd ==
    ASSUME IInv, NEW k \in Keys, NEW v \in Vals, dictAdd(k, v)
    PROVE  Map!Add(k, v)
<1> DEFINE d == Prepared(dict)
           e == [key |-> k, val |-> v]
<1>1. DictOK(d) /\ d.ht0.size # 0 /\ MapOf(d) = MapOf(dict)
  BY PreparedKeeps, SameMap DEF IInv, Keeps
<1>2. \/ ~Has(d, k) /\ dict' = Added(d, e) /\ Returns("dictAdd", k, TRUE)
      \/ Has(d, k) /\ dict' = d /\ Returns("dictAdd", k, FALSE)
  BY DEF dictAdd
<1>3. (MapOf(d)[k] = None) <=> ~Has(d, k)
  BY <1>1, MapHas, DictAssumption
<1>4. MapOf(dict)' = MapOf(dict')
  BY DEF MapOf, Contents
<1>5. CASE ~Has(d, k) /\ dict' = Added(d, e) /\ Returns("dictAdd", k, TRUE)
  <2>1. MapOf(dict') = [MapOf(d) EXCEPT ![k] = v]
    BY <1>1, <1>5, AddedMap
  <2> HIDE DEF d, e
  <2> QED BY <1>1, <1>3, <1>4, <1>5, <2>1 DEF Map!Add, Map!Returns, Returns
<1>6. CASE Has(d, k) /\ dict' = d /\ Returns("dictAdd", k, FALSE)
  <2> HIDE DEF d, e
  <2> QED BY <1>1, <1>3, <1>4, <1>6 DEF Map!Add, Map!Returns, Returns
<1> QED BY <1>2, <1>5, <1>6


LEMMA ReplaceIsReplace ==
    ASSUME IInv, NEW k \in Keys, NEW v \in Vals, dictReplace(k, v)
    PROVE  Map!Replace(k, v)
<1> DEFINE d == Prepared(dict)
           e == [key |-> k, val |-> v]
           m == MapOf(dict)
<1>1. DictOK(d) /\ d.ht0.size # 0 /\ MapOf(d) = m
  BY PreparedKeeps, SameMap DEF IInv, Keeps
<1>2. \/ ~Has(d, k) /\ dict' = Added(d, e) /\ Returns("dictReplace", k, TRUE)
      \/ Has(d, k) /\ dict' = Overwritten(Stepped(d), k, v)
         /\ Returns("dictReplace", k, FALSE)
  BY DEF dictReplace
<1>3. (m[k] = None) <=> ~Has(d, k)
  BY <1>1, MapHas, DictAssumption
<1>4. MapOf(dict)' = MapOf(dict')
  BY DEF MapOf, Contents
<1> SUFFICES MapOf(dict)' = [m EXCEPT ![k] = v] /\ Returns("dictReplace", k, m[k] = None)
  BY DEF Map!Replace, Map!Returns, Returns
<1>5. CASE ~Has(d, k) /\ dict' = Added(d, e) /\ Returns("dictReplace", k, TRUE)
  <2>1. MapOf(dict') = [m EXCEPT ![k] = v]
    BY <1>1, <1>5, AddedMap
  <2>2. (m[k] = None) = TRUE
    BY <1>3, <1>5
  <2> HIDE DEF d, e, m
  <2> QED BY <1>4, <1>5, <2>1, <2>2
<1>6. CASE /\ Has(d, k) /\ dict' = Overwritten(Stepped(d), k, v)
           /\ Returns("dictReplace", k, FALSE)
  <2> DEFINE f == Stepped(d)
  <2> HIDE DEF d
  <2>1. DictOK(f) /\ Has(f, k) /\ MapOf(f) = m
    BY <1>1, <1>6, FoundAgain, SameMap
  <2> HIDE DEF f, m
  <2>2. MapOf(dict') = [m EXCEPT ![k] = v]
    BY <1>6, <2>1, OverwrittenMap DEF f
  <2>3. (m[k] = None) = FALSE
    BY <1>3, <1>6
  <2> QED BY <1>4, <1>6, <2>2, <2>3
<1> QED BY <1>2, <1>5, <1>6

LEMMA DeleteIsDelete ==
    ASSUME IInv, NEW k \in Keys, dictDelete(k)
    PROVE  Map!Delete(k)
<1> DEFINE d == Stepped(dict)
           m == MapOf(dict)
<1>1. DictOK(d) /\ MapOf(d) = m
  BY SteppedKeeps, SameMap DEF IInv, Keeps
<1>2. \/ ~Has(d, k) /\ dict' = d /\ Returns("dictDelete", k, FALSE)
      \/ Has(d, k) /\ dict' = Removed(d, k) /\ Returns("dictDelete", k, TRUE)
  BY DEF dictDelete
<1>3. (m[k] = None) <=> ~Has(d, k)
  BY <1>1, MapHas, DictAssumption
<1>4. MapOf(dict)' = MapOf(dict')
  BY DEF MapOf, Contents
<1> SUFFICES MapOf(dict)' = [m EXCEPT ![k] = None] /\ Returns("dictDelete", k, m[k] # None)
  BY DEF Map!Delete, Map!Returns, Returns
<1>5. CASE ~Has(d, k) /\ dict' = d /\ Returns("dictDelete", k, FALSE)
  <2>1. m = [m EXCEPT ![k] = None]
    BY <1>3, <1>5 DEF MapOf
  <2>2. (m[k] # None) = FALSE
    BY <1>3, <1>5
  <2> HIDE DEF d, m
  <2> QED BY <1>1, <1>4, <1>5, <2>1, <2>2
<1>6. CASE Has(d, k) /\ dict' = Removed(d, k) /\ Returns("dictDelete", k, TRUE)
  <2>1. MapOf(dict') = [m EXCEPT ![k] = None]
    BY <1>1, <1>6, RemovedMap
  <2>2. (m[k] # None) = TRUE
    BY <1>3, <1>6
  <2> HIDE DEF d, m
  <2> QED BY <1>4, <1>6, <2>1, <2>2
<1> QED BY <1>2, <1>5, <1>6

LEMMA FindIsFind ==
    ASSUME IInv, NEW k \in Keys, dictFind(k)
    PROVE  Map!Find(k)
<1> DEFINE d == Stepped(dict)
           m == MapOf(dict)
<1>1. DictOK(d) /\ MapOf(d) = m
  BY SteppedKeeps, SameMap DEF IInv, Keeps
<1>2. dict' = d /\ Returns("dictFind", k, IF Has(d, k) THEN EntryOf(d, k).val ELSE None)
  BY DEF dictFind
<1>3. m[k] = IF Has(d, k) THEN EntryOf(d, k).val ELSE None
  BY <1>1, MapHas
<1>4. MapOf(dict)' = MapOf(dict')
  BY DEF MapOf, Contents
<1> HIDE DEF d, m
<1> QED BY <1>1, <1>2, <1>3, <1>4 DEF Map!Find, Map!Returns, Returns, m

LEMMA RandomIsRandom ==
    ASSUME IInv, dictGetRandomKey
    PROVE  Map!GetRandomKey
<1> DEFINE m == MapOf(dict)
<1>1. MapOf(dict)' = MapOf(dict')
  BY DEF MapOf, Contents
<1>2. UniqueKeys(All(dict)) /\ All(dict) \subseteq Entry
  BY DictParts DEF IInv
<1>3. CASE /\ dictSize(dict) = 0 /\ UNCHANGED dict
           /\ Returns("dictGetRandomKey", None, None)
  <2>1. dict.ht0.used = 0 /\ dict.ht1.used = 0
    BY <1>3, DictParts DEF IInv, dictSize
  <2>2. All(dict) = {}
    BY <2>1, DictParts, FS_EmptySet DEF IInv, Good, All
  <2>3. \A k \in Keys : m[k] = None
    BY <1>2, <2>2, MapValue
  <2> HIDE DEF m
  <2> QED BY <1>1, <1>3, <2>3 DEF Map!GetRandomKey, Map!Returns, Returns, m
<1>4. CASE /\ dict' = Stepped(dict)
           /\ \E e \in Contents(Stepped(dict).ht0) \cup Contents(Stepped(dict).ht1) :
                 Returns("dictGetRandomKey", e.key, e.val)
  <2>1. All(Stepped(dict)) = All(dict)
    BY SteppedKeeps DEF IInv, Keeps
  <2>2. PICK e \in All(dict) : Returns("dictGetRandomKey", e.key, e.val)
    BY <1>4, <2>1 DEF All
  <2>3. MapOf(dict') = m
    BY <1>4, <2>1, SameMap
  <2>4. e.key \in Keys /\ m[e.key] = e.val /\ e.val # None
    BY <1>2, MapValue, DictAssumption DEF Entry
  <2> HIDE DEF m
  <2> QED BY <1>1, <2>2, <2>3, <2>4 DEF Map!GetRandomKey, Map!Returns, Returns, m
<1> QED BY <1>3, <1>4 DEF dictGetRandomKey

LEMMA EmptyMap == MapOf(Plain(_dictReset)) = [k \in Keys |-> None]
BY EmptyOK DEF MapOf, All

LEMMA EmptyIsClear == dictEmpty => Map!Clear
<1>1. MapOf(dict)' = MapOf(dict')
  BY DEF MapOf, Contents
<1> QED BY <1>1, EmptyOK, EmptyMap DEF Map!Clear, dictEmpty

\* What cron does cannot be seen.
LEMMA CronIsStutter ==
    ASSUME IInv, tryResizeHashTables \/ incrementallyRehash
    PROVE  UNCHANGED <<MapOf(dict), reply>>
<1>1. MapOf(dict)' = MapOf(dict')
  BY DEF MapOf, Contents
<1>2. All(dict') = All(dict) /\ UNCHANGED reply
  BY ResizeKeeps, RehashKeeps DEF IInv, Keeps, tryResizeHashTables, incrementallyRehash
<1> QED BY <1>1, <1>2, SameMap

LEMMA NextIsNext == IInv /\ [Next]_vars => [Map!Next]_(Map!vars)
<1> SUFFICES ASSUME IInv, [Next]_vars
             PROVE  Map!Next \/ UNCHANGED Map!vars
  OBVIOUS
<1>1. CASE \E k \in Keys, v \in Vals : dictAdd(k, v) \/ dictReplace(k, v)
  BY <1>1, AddIsAdd, ReplaceIsReplace DEF Map!Next
<1>2. CASE \E k \in Keys : dictDelete(k) \/ dictFind(k)
  BY <1>2, DeleteIsDelete, FindIsFind DEF Map!Next
<1>3. CASE dictGetRandomKey
  BY <1>3, RandomIsRandom DEF Map!Next
<1>4. CASE dictEmpty
  BY <1>4, EmptyIsClear DEF Map!Next
<1>5. CASE tryResizeHashTables \/ incrementallyRehash
  BY <1>5, CronIsStutter DEF Map!vars
<1>6. CASE UNCHANGED vars
  BY <1>6 DEF vars, Map!vars, MapOf, Contents
<1> QED BY <1>1, <1>2, <1>3, <1>4, <1>5, <1>6 DEF Next

\* A dict answers every call as the map it stands for would, at every point
\* of a rehashing, and cron's work on it cannot be seen (ImplementsMap).
THEOREM DictImplementsMap == Spec => ImplementsMap
<1>1. Init => Map!Init
  BY EmptyOK, EmptyMap DEF Init, Map!Init
<1> QED BY <1>1, AlwaysOK, NextIsNext, PTL DEF Spec, ImplementsMap, Map!Spec

=============================================================================
