--------------------------- MODULE Memory_proofs ---------------------------
(***************************************************************************)
(* What Memory promises, for every number of databases, every set of keys  *)
(* with their sizes, every limit and every policy.                         *)
(*                                                                         *)
(* IInv adds three things to the properties.  An entry's clock is never    *)
(* ahead of its database's and the keys to remove cover the stale ones:    *)
(* without this the count could wrap.  The place of the command knows what *)
(* led there: without this a refusal could not be traced to a turn of the  *)
(* loop that found nothing.  The server's limit and the policy are those   *)
(* of the configuration, and no loop over all databases runs without one:  *)
(* without this a key could be counted for another database than its own.  *)
(***************************************************************************)
EXTENDS Memory, Recursion_proofs

Places == {"dbLimit", "stale", "evict", "check", "call", "OK", "REACH_MAXMEMORY"}

StoreOK ==
    /\ dict \in [Dbs -> [Keys -> Entry \cup {Absent}]]
    /\ logiclock \in [Dbs -> 1 .. ClockMax]
    /\ needRemove \in [Dbs -> 0 .. Cardinality(Keys)]
    /\ \A j \in Dbs : \A k \in Stored(j) : dict[j][k].clk <= logiclock[j]
    /\ \A j \in Dbs : Cardinality(Stale(j)) <= needRemove[j]

CountersOK ==
    /\ used \in Int /\ dbUsed \in [Dbs -> 0 .. SizeMax]
    /\ CountersAddUp

RunOK ==
    /\ config \in Configs
    /\ run \in [at : Places, db : Dbs, denyoom : BOOLEAN, j : 0 .. DbCount, freed : BOOLEAN]
    /\ At("stale") \/ At("evict") \/ At("check") => config.server > 0
    /\ At("evict") =>
          /\ config.policy # "NO_EVICTION"
          /\ ~run.freed => \A i \in Dbs : i < run.j => Candidates(i) = {}
    /\ At("check") /\ ServerOver /\ config.policy # "NO_EVICTION" =>
          \A i \in Dbs : Candidates(i) = {}

IInv == StoreOK /\ CountersOK /\ RunOK

-----------------------------------------------------------------------------
(* Sizes.                                                                  *)

\* What the keys of a value of dict need.
SizeIn(h, k) == IF h[k] = Absent THEN 0 ELSE KeySize[k]
SizesOf(h) == [k \in Keys |-> SizeIn(h, k)]

\* What the assumptions say of the constants, in one place.
LEMMA Constants ==
    /\ DbCount \in Nat \ {0} /\ SizeMax \in Nat /\ ClockMax \in Nat \ {0}
    /\ IsFiniteSet(Keys) /\ \A k \in Keys : KeySize[k] \in Nat \ {0}
    /\ IsFiniteSet(Dbs) /\ Cardinality(Dbs) = DbCount /\ 0 \in Dbs
    /\ SumFunctionOnSet(KeySize, Keys) \in Nat
    /\ DbCount * SumFunctionOnSet(KeySize, Keys) <= SizeMax
    /\ SumFunctionOnSet(KeySize, Keys) <= SizeMax
    /\ Cardinality(Keys) \in Nat /\ Cardinality(Keys) <= SizeMax
<1>1. /\ DbCount \in Nat \ {0} /\ SizeMax \in Nat /\ ClockMax \in Nat \ {0}
      /\ IsFiniteSet(Keys) /\ \A k \in Keys : KeySize[k] \in Nat \ {0}
  BY MemoryAssumption
<1>2. IsFiniteSet(Dbs) /\ Cardinality(Dbs) = DbCount /\ 0 \in Dbs
  BY <1>1, FS_Interval DEF Dbs
<1> DEFINE total == SumFunctionOnSet(KeySize, Keys)
<1>3. total \in Nat
  BY <1>1, SumNat
<1>4. DbCount * total <= SizeMax
  <2>1. DOMAIN KeySize = Keys
    BY MemoryAssumption
  <2> QED BY <2>1, MemoryAssumption DEF SumFunction
<1>5. total <= DbCount * total
  <2> HIDE DEF total
  <2>1. \A n, t \in Nat : t <= (n + 1) * t
    OBVIOUS
  <2>2. DbCount - 1 \in Nat /\ (DbCount - 1) + 1 = DbCount
    BY <1>1
  <2> QED BY <1>3, <2>1, <2>2
<1>6. Cardinality(Keys) \in Nat /\ Cardinality(Keys) <= total
  <2> DEFINE one == [k \in Keys |-> 1]
  <2>1. SumFunctionOnSet(one, Keys) = Cardinality(Keys) * 1
    BY <1>1, SumConstant
  <2>2. SumFunctionOnSet(one, Keys) <= total
    BY <1>1, SumMonotone
  <2>3. Cardinality(Keys) \in Nat
    BY <1>1, FS_CardinalityType
  <2> HIDE DEF one, total
  <2> QED BY <2>1, <2>2, <2>3
<1> HIDE DEF total
<1>7. DbCount * total \in Nat
  BY <1>1, <1>3
<1>8. total <= SizeMax /\ Cardinality(Keys) <= SizeMax
  BY <1>1, <1>3, <1>4, <1>5, <1>6, <1>7
<1> QED BY <1>1, <1>2, <1>3, <1>4, <1>6, <1>8 DEF total

\* What the entries of a database need is a sum over its keys.
LEMMA SizeOfIs ==
    ASSUME NEW j
    PROVE  SizeOf(j) = SumFunctionOnSet(SizesOf(dict[j]), Keys)
BY DEF SizeOf, SumFunction, SizesOf, SizeIn, EntrySize

\* A database's keys need no more than all keys.
LEMMA SizeBound ==
    ASSUME NEW h
    PROVE  SumFunctionOnSet(SizesOf(h), Keys) \in 0 .. SumFunctionOnSet(KeySize, Keys)
<1>1. \A k \in Keys : SizesOf(h)[k] \in Nat /\ SizesOf(h)[k] <= KeySize[k]
  BY Constants DEF SizesOf, SizeIn
<1>2. SumFunctionOnSet(SizesOf(h), Keys) \in Nat
  BY <1>1, Constants, SumNat
<1>3. SumFunctionOnSet(SizesOf(h), Keys) <= SumFunctionOnSet(KeySize, Keys)
  BY <1>1, Constants, SumMonotone
<1> QED BY <1>2, <1>3, Constants

\* Another entry under one key changes the size by the difference of the two.
LEMMA SizeChange ==
    ASSUME NEW h, NEW g, NEW k \in Keys, \A i \in Keys : i # k => h[i] = g[i]
    PROVE  SumFunctionOnSet(SizesOf(g), Keys) =
              SumFunctionOnSet(SizesOf(h), Keys) + (SizeIn(g, k) - SizeIn(h, k))
<1>1. \A i \in Keys : /\ SizesOf(g)[i] \in Int /\ SizesOf(h)[i] \in Int
                      /\ i # k => SizesOf(g)[i] = SizesOf(h)[i]
  BY Constants DEF SizesOf, SizeIn
<1>2. SizesOf(g)[k] = SizeIn(g, k) /\ SizesOf(h)[k] = SizeIn(h, k)
  BY DEF SizesOf
<1>3. SumFunctionOnSet(SizesOf(g), Keys) =
         SumFunctionOnSet(SizesOf(h), Keys) +
            (IF k \in Keys THEN SizesOf(g)[k] - SizesOf(h)[k] ELSE 0)
  BY <1>1, Constants, SumChange
<1> QED BY <1>2, <1>3

-----------------------------------------------------------------------------
(* The width of a size_t.                                                  *)

\* Remainders of a size_t.
LEMMA ModFacts ==
    ASSUME NEW a \in Int, NEW m \in Nat \ {0}
    PROVE  /\ a % m \in 0 .. m - 1
           /\ a \div m \in Int /\ a = m * (a \div m) + (a % m)
           /\ a \in 0 .. m - 1 => a % m = a
OBVIOUS

\* Two numbers below a modulus that differ by a multiple of it are equal.
LEMMA NoMultipleBetween ==
    ASSUME NEW m \in Nat \ {0}, NEW q \in Int,
           NEW r \in 0 .. m - 1, NEW s \in 0 .. m - 1, r = s + m * q
    PROVE  r = s
<1>1. ~ q >= 1
  <2> SUFFICES ASSUME q >= 1 PROVE FALSE
    OBVIOUS
  <2>1. m * q = m + m * (q - 1)
    OBVIOUS
  <2>2. m * (q - 1) >= 0
    <3>1. q - 1 \in Nat
      OBVIOUS
    <3> QED BY <3>1
  <2> QED BY <2>1, <2>2
<1>2. ~ q <= -1
  <2> SUFFICES ASSUME q <= -1 PROVE FALSE
    OBVIOUS
  <2>1. m * q = -m - m * (-q - 1)
    OBVIOUS
  <2>2. m * (-q - 1) >= 0
    <3>1. -q - 1 \in Nat
      OBVIOUS
    <3> QED BY <3>1
  <2> QED BY <2>1, <2>2
<1>3. q = 0
  BY <1>1, <1>2
<1>4. m * 0 = 0
  OBVIOUS
<1> QED BY <1>3, <1>4

\* Numbers a multiple of the width apart are one size_t.
LEMMA ModOfMultiple ==
    ASSUME NEW a \in Int, NEW b \in Int, NEW m \in Nat \ {0},
           \E q \in Int : a = b + m * q
    PROVE  a % m = b % m
<1>0. PICK q \in Int : a = b + m * q
  OBVIOUS
<1> DEFINE x == a \div m
           y == b \div m
           r == a % m
           s == b % m
<1>1. r \in 0 .. m - 1 /\ s \in 0 .. m - 1
  BY ModFacts
<1>2. a = m * x + r /\ b = m * y + s /\ x \in Int /\ y \in Int
  BY ModFacts
<1> HIDE DEF x, y, r, s
<1>3. r = s + m * (y + q - x)
  <2>1. m * (y + q - x) = m * y + m * q - m * x
    BY <1>2
  <2>2. m * y \in Int /\ m * q \in Int /\ m * x \in Int /\ r \in Int /\ s \in Int
    BY <1>1, <1>2
  <2> QED BY <1>0, <1>2, <2>1, <2>2
<1>4. y + q - x \in Int
  BY <1>2
<1>5. r = s
  BY <1>1, <1>3, <1>4, NoMultipleBetween
<1> QED BY <1>5 DEF r, s

\* And the other way round.
LEMMA ModEqual ==
    ASSUME NEW a \in Int, NEW b \in Int, NEW m \in Nat \ {0}, a % m = b % m
    PROVE  \E q \in Int : a = b + m * q
<1> DEFINE x == a \div m
           y == b \div m
<1>1. a = m * x + (a % m) /\ b = m * y + (b % m) /\ x \in Int /\ y \in Int
      /\ a % m \in Int
  BY ModFacts
<1> HIDE DEF x, y
<1>2. m * (x - y) = m * x - m * y /\ m * x \in Int /\ m * y \in Int
  BY <1>1
<1>3. a = b + m * (x - y)
  BY <1>1, <1>2
<1>4. x - y \in Int
  BY <1>1
<1> QED BY <1>3, <1>4

-----------------------------------------------------------------------------
(* The counters.                                                           *)

SizeWith(k, e) == IF e = Absent THEN 0 ELSE KeySize[k]

\* The sum and the counters that CountersAddUp compares.
LEMMA AddUp ==
    CountersAddUp <=>
        /\ used = SumFunctionOnSet([j \in Dbs |-> SizeOf(j)], Dbs)
        /\ used % (SizeMax + 1) = SumFunctionOnSet(dbUsed, DOMAIN dbUsed) % (SizeMax + 1)
        /\ config.server = 0 => \A j \in Dbs : dbUsed[j] = SizeOf(j)
<1>1. DOMAIN [j \in Dbs |-> SizeOf(j)] = Dbs
  OBVIOUS
<1> QED BY <1>1 DEF CountersAddUp, SumFunction

\* What a database needs fits a size_t.
LEMMA SizeOfType == \A j : SizeOf(j) \in 0 .. SizeMax
<1>1. \A j : SizeOf(j) \in 0 .. SumFunctionOnSet(KeySize, Keys)
  BY SizeOfIs, SizeBound
<1> QED BY <1>1, Constants

\* An entry is written or removed under one key, and counted for some
\* database: with a limit of the server any, without one its own.
LEMMA CountersStep ==
    ASSUME dict \in [Dbs -> [Keys -> Entry \cup {Absent}]], CountersOK,
           NEW d \in Dbs, NEW j \in Dbs, NEW k \in Keys, NEW e,
           dict' = [dict EXCEPT ![j][k] = e],
           Counted(d, SizeWith(k, e) - EntrySize(j, k)),
           config' = config, config.server = 0 => d = j
    PROVE  CountersOK'
<1> DEFINE n == SizeWith(k, e) - EntrySize(j, k)
           M == SizeMax + 1
           sizes == [i \in Dbs |-> SizeOf(i)]
           sizes1 == [i \in Dbs |-> SizeOf(i)']
<1>1. M \in Nat \ {0} /\ M - 1 = SizeMax /\ n \in Int
  BY Constants DEF SizeWith, EntrySize
<1>2. /\ used' = used + n
      /\ dbUsed' = [dbUsed EXCEPT ![d] = (dbUsed[d] + n) % M]
  BY DEF Counted
<1>3. /\ SizeOf(j)' = SizeOf(j) + n
      /\ \A i \in Dbs : i # j => SizeOf(i)' = SizeOf(i)
      /\ SizeOf(j)' \in 0 .. SizeMax
  <2>1. \A i : SizeOf(i)' = SumFunctionOnSet(SizesOf(dict'[i]), Keys)
    BY DEF SizeOf, SumFunction, SizesOf, SizeIn, EntrySize
  <2>2. /\ \A i \in Dbs : i # j => dict'[i] = dict[i]
        /\ \A i \in Keys : i # k => dict[j][i] = dict'[j][i]
        /\ dict'[j][k] = e
    OBVIOUS
  <2>3. SizeIn(dict'[j], k) - SizeIn(dict[j], k) = n
    BY <2>2 DEF SizeIn, SizeWith, EntrySize
  <2>4. SumFunctionOnSet(SizesOf(dict'[j]), Keys) =
           SumFunctionOnSet(SizesOf(dict[j]), Keys) + (SizeIn(dict'[j], k) - SizeIn(dict[j], k))
    <3> DEFINE h == dict[j]
               g == dict'[j]
    <3>1. \A i \in Keys : i # k => h[i] = g[i]
      BY <2>2
    <3> HIDE DEF h, g
    <3>2. SumFunctionOnSet(SizesOf(g), Keys) =
             SumFunctionOnSet(SizesOf(h), Keys) + (SizeIn(g, k) - SizeIn(h, k))
      BY <3>1, SizeChange
    <3> QED BY <3>2 DEF g, h
  <2>5. SizeOf(j)' \in 0 .. SizeMax
    BY <2>1, SizeBound, Constants
  <2> HIDE DEF n
  <2> QED BY <2>1, <2>2, <2>3, <2>4, <2>5, SizeOfIs
<1> HIDE DEF n
<1>4. \A i \in Dbs : SizeOf(i) \in Int /\ SizeOf(i)' \in Int
  BY <1>1, <1>3, SizeOfType
<1>5. used' = SumFunctionOnSet(sizes1, Dbs)
  <2>1. used = SumFunctionOnSet(sizes, Dbs)
    BY AddUp DEF CountersOK
  <2>2. \A i \in Dbs : /\ sizes[i] \in Int /\ sizes1[i] \in Int
                       /\ i # j => sizes1[i] = sizes[i]
    BY <1>3, <1>4
  <2>3. sizes1[j] - sizes[j] = n
    BY <1>1, <1>3, <1>4
  <2> HIDE DEF sizes, sizes1
  <2>4. SumFunctionOnSet(sizes1, Dbs) = SumFunctionOnSet(sizes, Dbs) +
           (IF j \in Dbs THEN sizes1[j] - sizes[j] ELSE 0)
    BY <2>2, Constants, SumChange
  <2> QED BY <1>2, <2>1, <2>3, <2>4
<1>6. /\ used \in Int /\ dbUsed \in [Dbs -> 0 .. SizeMax]
      /\ DOMAIN dbUsed = Dbs /\ \A i \in Dbs : dbUsed[i] \in Int
  BY DEF CountersOK
<1>7. /\ used' \in Int /\ dbUsed' \in [Dbs -> 0 .. SizeMax]
      /\ DOMAIN dbUsed' = Dbs /\ \A i \in Dbs : dbUsed'[i] \in Int
  <2>1. dbUsed[d] + n \in Int
    BY <1>1, <1>6
  <2>2. (dbUsed[d] + n) % M \in 0 .. M - 1
    BY <1>1, <2>1, ModFacts
  <2>3. used' \in Int /\ dbUsed' \in [Dbs -> 0 .. SizeMax]
    BY <1>1, <1>2, <1>6, <2>2
  <2>4. \A m \in 0 .. SizeMax : m \in Int
    BY Constants
  <2> QED BY <2>3, <2>4
<1> DEFINE sum == SumFunctionOnSet(dbUsed, Dbs)
           sum1 == SumFunctionOnSet(dbUsed', Dbs)
<1>8. sum \in Int /\ sum1 \in Int
  BY <1>6, <1>7, Constants, SumType
<1>9. sum1 = sum + (dbUsed'[d] - dbUsed[d])
  <2>1. \A i \in Dbs : /\ dbUsed'[i] \in Int /\ dbUsed[i] \in Int
                       /\ i # d => dbUsed'[i] = dbUsed[i]
    BY <1>2, <1>6, <1>7
  <2>2. sum1 = sum + (IF d \in Dbs THEN dbUsed'[d] - dbUsed[d] ELSE 0)
    BY <2>1, Constants, SumChange
  <2> QED BY <2>2
<1>10. PICK q \in Int : dbUsed[d] + n = dbUsed'[d] + M * q
  <2>1. dbUsed[d] + n \in Int
    BY <1>1, <1>6
  <2>2. dbUsed'[d] = (dbUsed[d] + n) % M
    BY <1>2, <1>6
  <2> DEFINE a == dbUsed[d] + n
  <2>3. a \in Int
    BY <2>1
  <2> HIDE DEF M, a
  <2>4. a \div M \in Int /\ a = M * (a \div M) + (a % M) /\ a % M \in Int
    BY <1>1, <2>3, ModFacts
  <2>5. a = dbUsed'[d] + M * (a \div M)
    BY <1>1, <2>2, <2>4 DEF a
  <2> QED BY <2>4, <2>5 DEF a
<1>11. PICK p \in Int : used = sum + M * p
  <2>1. used % M = sum % M
    BY <1>6, AddUp DEF CountersOK
  <2>2. used \in Int /\ sum \in Int /\ M \in Nat \ {0}
    BY <1>1, <1>6, <1>8
  <2> HIDE DEF M, sum
  <2> QED BY ONLY <2>1, <2>2, ModEqual
<1>12. used' % M = sum1 % M
  <2>1. M * (p + q) = M * p + M * q /\ M * p \in Int /\ M * q \in Int
    BY <1>1
  <2> HIDE DEF M, sum, sum1
  <2>2. used' = sum1 + M * (p + q)
    BY <1>1, <1>2, <1>6, <1>7, <1>8, <1>9, <1>10, <1>11, <2>1
  <2>3. \E r \in Int : used' = sum1 + M * r
    BY <2>2
  <2> QED BY <1>1, <1>7, <1>8, <2>3, ModOfMultiple
<1>13. ASSUME config.server = 0, NEW i \in Dbs
       PROVE  dbUsed'[i] = SizeOf(i)'
  <2>1. d = j /\ dbUsed[i] = SizeOf(i) /\ dbUsed[j] = SizeOf(j)
    BY <1>13, AddUp DEF CountersOK
  <2>2. CASE i = j
    <3> DEFINE size == SizeOf(j)'
    <3>1. dbUsed'[j] = size % M
      BY <1>2, <1>3, <1>6, <2>1
    <3>2. size \in 0 .. M - 1 /\ size \in Int
      BY <1>1, <1>3
    <3> HIDE DEF M, size
    <3>3. size % M = size
      BY <1>1, <3>2, ModFacts
    <3> QED BY <2>2, <3>1, <3>3 DEF size
  <2>3. CASE i # j
    BY <1>2, <1>3, <1>6, <2>1, <2>3
  <2> QED BY <2>2, <2>3
<1>14. CountersAddUp'
  <2>1. CountersAddUp' <=>
           /\ used' = SumFunctionOnSet(sizes1, Dbs)
           /\ used' % M = SumFunctionOnSet(dbUsed', DOMAIN dbUsed') % M
           /\ config'.server = 0 => \A i \in Dbs : dbUsed'[i] = SizeOf(i)'
    <3>1. DOMAIN sizes1 = Dbs
      OBVIOUS
    <3> QED BY <3>1 DEF CountersAddUp, SumFunction
  <2> HIDE DEF M, sizes1
  <2> QED BY <1>5, <1>7, <1>12, <1>13, <2>1
<1> QED BY <1>7, <1>14 DEF CountersOK
-----------------------------------------------------------------------------
(* The store.                                                              *)

\* The stored and the stale keys of a database are finitely many.
LEMMA StoreFinite ==
    ASSUME NEW j
    PROVE  /\ Stored(j) \subseteq Keys /\ Stale(j) \subseteq Stored(j)
           /\ IsFiniteSet(Stored(j)) /\ IsFiniteSet(Stale(j))
           /\ Cardinality(Stored(j)) \in 0 .. Cardinality(Keys)
           /\ Cardinality(Stale(j)) \in Nat
<1>1. Stored(j) \subseteq Keys /\ Stale(j) \subseteq Stored(j)
  BY DEF Stored, Stale
<1>2. IsFiniteSet(Stored(j)) /\ Cardinality(Stored(j)) <= Cardinality(Keys)
  BY <1>1, Constants, FS_Subset
<1>3. IsFiniteSet(Stale(j))
  BY <1>1, <1>2, FS_Subset
<1>4. Cardinality(Stored(j)) \in Nat /\ Cardinality(Stale(j)) \in Nat
  BY <1>2, <1>3, FS_CardinalityType
<1> QED BY <1>1, <1>2, <1>3, <1>4, Constants

\* An entry of the current clock is written or one removed; a stale key that
\* goes is one less to find, or is forgotten to be counted (DEL).
LEMMA StoreStep ==
    ASSUME StoreOK, NEW j \in Dbs, NEW k \in Keys, NEW e \in Entry \cup {Absent},
           e # Absent => e.clk = logiclock[j],
           dict' = [dict EXCEPT ![j][k] = e], logiclock' = logiclock,
           \/ needRemove' = needRemove
           \/ needRemove' = [needRemove EXCEPT ![j] =
                                IF k \in Stale(j) THEN (@ - 1) % (SizeMax + 1) ELSE @]
    PROVE  StoreOK'
<1>1. /\ dict \in [Dbs -> [Keys -> Entry \cup {Absent}]]
      /\ logiclock \in [Dbs -> 1 .. ClockMax]
      /\ needRemove \in [Dbs -> 0 .. Cardinality(Keys)]
      /\ \A i \in Dbs : needRemove[i] \in 0 .. Cardinality(Keys)
      /\ \A i \in Dbs : \A x \in Stored(i) : dict[i][x].clk <= logiclock[i]
      /\ \A i \in Dbs : Cardinality(Stale(i)) <= needRemove[i]
  BY DEF StoreOK
<1>2. dict' \in [Dbs -> [Keys -> Entry \cup {Absent}]]
  BY <1>1
<1>3. /\ dict'[j][k] = e
      /\ \A i \in Dbs, x \in Keys : i # j \/ x # k => dict'[i][x] = dict[i][x]
  BY <1>1
<1>4. \A i \in Dbs : \A x \in Stored(i)' : dict'[i][x].clk <= logiclock[i]
  <2>1. \A i \in Dbs : logiclock[i] <= logiclock[i]
    BY <1>1, Constants
  <2> QED BY <1>1, <1>3, <2>1 DEF Stored
<1>5. Stale(j)' = Stale(j) \ {k}
  <2>1. e # Absent => ~ logiclock[j] > e.clk
    BY <1>1, Constants
  <2> QED BY <1>3, <2>1 DEF Stale, Stored
<1>6. \A i \in Dbs : i # j => Stale(i)' = Stale(i)
  BY <1>3 DEF Stale, Stored
<1>7. \A i \in Dbs : i # j => needRemove'[i] = needRemove[i]
  BY <1>1
<1>8. /\ IsFiniteSet(Stale(j)) /\ Cardinality(Stale(j)) \in Nat
      /\ Cardinality(Stale(j) \ {k}) =
            IF k \in Stale(j) THEN Cardinality(Stale(j)) - 1 ELSE Cardinality(Stale(j))
  BY StoreFinite, FS_RemoveElement
<1>9. /\ needRemove'[j] \in 0 .. Cardinality(Keys)
      /\ Cardinality(Stale(j)') <= needRemove'[j]
  <2>1. CASE needRemove' = needRemove
    BY <1>1, <1>5, <1>8, <2>1, Constants
  <2>2. CASE needRemove' = [needRemove EXCEPT ![j] =
                               IF k \in Stale(j) THEN (@ - 1) % (SizeMax + 1) ELSE @]
    <3> DEFINE c == Cardinality(Stale(j))
               n == needRemove[j]
    <3>1. needRemove'[j] = IF k \in Stale(j) THEN (n - 1) % (SizeMax + 1) ELSE n
      BY <1>1, <2>2
    <3>2. n \in 0 .. Cardinality(Keys) /\ c <= n /\ c \in Nat
      BY <1>1, <1>8
    <3>3. CASE k \in Stale(j)
      <4>1. c >= 1
        <5>1. Cardinality(Stale(j) \ {k}) \in Nat
          BY <1>8, FS_Subset, FS_CardinalityType
        <5> QED BY <1>8, <3>3, <5>1
      <4> HIDE DEF c, n
      <4>2. n - 1 \in 0 .. SizeMax
        BY <3>2, <4>1, Constants
      <4> DEFINE m == SizeMax + 1
                 a == n - 1
      <4>3. m \in Nat \ {0} /\ a \in 0 .. m - 1 /\ a \in Int
        BY <4>2, Constants
      <4> HIDE DEF m, a
      <4>4. a % m = a
        BY <4>3, ModFacts
      <4>5. needRemove'[j] = n - 1
        BY <3>1, <3>3, <4>4 DEF m, a
      <4>6. Cardinality(Stale(j)') = c - 1
        BY <1>5, <1>8, <3>3 DEF c
      <4> QED BY <3>2, <4>1, <4>5, <4>6, Constants
    <3>4. CASE k \notin Stale(j)
      BY <1>5, <1>8, <3>1, <3>2, <3>4
    <3> QED BY <3>3, <3>4
  <2> QED BY <2>1, <2>2
<1>10. needRemove' \in [Dbs -> 0 .. Cardinality(Keys)]
  <2>1. needRemove' = [i \in Dbs |-> needRemove'[i]]
    BY <1>1
  <2> QED BY <1>1, <1>7, <1>9, <2>1
<1>11. \A i \in Dbs : Cardinality(Stale(i)') <= needRemove'[i]
  BY <1>1, <1>6, <1>7, <1>9
<1> QED BY <1>1, <1>2, <1>4, <1>10, <1>11 DEF StoreOK

\* dbDelete, whoever calls it.
LEMMA DeleteStep ==
    ASSUME StoreOK, CountersOK, NEW d \in Dbs, NEW j \in Dbs, NEW k \in Keys,
           Delete(d, j, k), logiclock' = logiclock, config' = config,
           config.server = 0 => d = j
    PROVE  StoreOK' /\ CountersOK'
<1>1. /\ dict' = [dict EXCEPT ![j][k] = Absent]
      /\ Counted(d, -EntrySize(j, k))
      /\ needRemove' = [needRemove EXCEPT ![j] =
                           IF k \in Stale(j) THEN (@ - 1) % (SizeMax + 1) ELSE @]
  BY DEF Delete
<1>2. StoreOK'
  BY <1>1, StoreStep
<1>3. SizeWith(k, Absent) - EntrySize(j, k) = -EntrySize(j, k)
  BY Constants DEF SizeWith, EntrySize
<1>4. dict \in [Dbs -> [Keys -> Entry \cup {Absent}]]
  BY DEF StoreOK
<1>5. CountersOK'
  BY <1>1, <1>3, <1>4, CountersStep
<1> QED BY <1>2, <1>5

\* A step that touches neither entries nor counters.
LEMMA SameStore ==
    ASSUME StoreOK, CountersOK, UNCHANGED <<store, counters>>, config' = config
    PROVE  StoreOK' /\ CountersOK'
<1>1. UNCHANGED <<dict, logiclock, needRemove, used, dbUsed>>
  BY DEF store, counters
<1>2. StoreOK'
  BY <1>1 DEF StoreOK, Stored, Stale
<1>3. CountersOK'
  BY <1>1 DEF CountersOK, CountersAddUp, SizeOf, EntrySize
<1> QED BY <1>2, <1>3
-----------------------------------------------------------------------------
(* The invariant.                                                          *)

\* It holds at the start, of empty databases and counters at zero.
LEMMA InitIInv == Init => IInv
<1> SUFFICES ASSUME Init PROVE IInv
  OBVIOUS
<1>1. /\ dict = [j \in Dbs |-> [k \in Keys |-> Absent]]
      /\ logiclock = [j \in Dbs |-> 1] /\ needRemove = [j \in Dbs |-> 0]
      /\ used = 0 /\ dbUsed = [j \in Dbs |-> 0]
      /\ config \in Configs /\ run = Returned("OK")
  BY DEF Init
<1>2. \A j \in Dbs : Stored(j) = {} /\ Stale(j) = {}
  BY <1>1 DEF Stored, Stale
<1>3. StoreOK
  <2>1. Cardinality({}) = 0
    BY FS_EmptySet
  <2>2. \A j \in Dbs : Cardinality(Stale(j)) <= needRemove[j]
    BY <1>1, <1>2, <2>1
  <2> QED BY <1>1, <1>2, <2>2, Constants DEF StoreOK
<1>4. \A j \in Dbs : SizeOf(j) = 0
  <2> TAKE j \in Dbs
  <2>1. \A k \in Keys : SizesOf(dict[j])[k] = 0
    BY <1>1 DEF SizesOf, SizeIn
  <2>2. SumFunctionOnSet(SizesOf(dict[j]), Keys) = Cardinality(Keys) * 0
    BY <2>1, Constants, SumConstant
  <2> QED BY <2>2, SizeOfIs, Constants
<1>5. CountersOK
  <2>1. \A j \in Dbs : [i \in Dbs |-> SizeOf(i)][j] = 0 /\ dbUsed[j] = 0
    BY <1>1, <1>4
  <2>2. /\ SumFunctionOnSet([i \in Dbs |-> SizeOf(i)], Dbs) = Cardinality(Dbs) * 0
        /\ SumFunctionOnSet(dbUsed, Dbs) = Cardinality(Dbs) * 0
    BY <2>1, Constants, SumConstant
  <2>3. Cardinality(Dbs) * 0 = 0 /\ DOMAIN dbUsed = Dbs
    BY <1>1, Constants
  <2>4. CountersAddUp
    BY <1>1, <1>4, <2>2, <2>3, AddUp
  <2> QED BY <1>1, <2>4, Constants DEF CountersOK
<1>6. RunOK
  BY <1>1, Constants DEF RunOK, Returned, At, Places
<1> QED BY <1>3, <1>5, <1>6 DEF IInv

\* What of run a command's steps write and read.
LEMMA RunFacts ==
    ASSUME RunOK
    PROVE  /\ run.db \in Dbs /\ run.j \in 0 .. DbCount
           /\ run.j < DbCount => run.j \in Dbs
           /\ config.server \in Nat
<1>1. run.db \in Dbs /\ run.j \in 0 .. DbCount
  BY DEF RunOK
<1>2. run.j < DbCount => run.j \in Dbs
  BY <1>1, Constants DEF Dbs
<1>3. config.server \in Nat
  BY MemoryAssumption DEF RunOK
<1> QED BY <1>1, <1>2, <1>3 DEF RunOK

\* A loop's turn writes three fields of run.
LEMMA TurnFacts ==
    ASSUME RunOK, NEW place \in Places, NEW i \in 0 .. DbCount, NEW freed \in BOOLEAN,
           Turn(place, i, freed), config' = config
    PROVE  /\ run'.at = place /\ run'.j = i /\ run'.freed = freed
           /\ run' \in [at : Places, db : Dbs, denyoom : BOOLEAN, j : 0 .. DbCount,
                        freed : BOOLEAN]
           /\ config' \in Configs
BY DEF RunOK, Turn

\* The same where a loop begins.
LEMMA BeginFacts ==
    ASSUME RunOK, NEW place \in Places, Turn(place, 0, FALSE), config' = config
    PROVE  /\ run'.at = place /\ run'.j = 0 /\ run'.freed = FALSE
           /\ run' \in [at : Places, db : Dbs, denyoom : BOOLEAN, j : 0 .. DbCount,
                        freed : BOOLEAN]
           /\ config' \in Configs
<1>1. 0 \in 0 .. DbCount
  BY Constants
<1> QED BY <1>1 DEF RunOK, Turn

\* Every step preserves it.
LEMMA NextIInv == IInv /\ [Next]_vars => IInv'
<1> SUFFICES ASSUME IInv, [Next]_vars PROVE IInv'
  OBVIOUS
<1> USE DEF IInv
<1>1. CASE UNCHANGED vars
  <2>1. UNCHANGED <<store, counters>> /\ UNCHANGED config /\ UNCHANGED run /\ UNCHANGED dict
    BY <1>1 DEF vars, store, counters
  <2>2. UNCHANGED <<used>>
    BY <1>1 DEF vars
  <2>3. RunOK'
    BY <2>1, <2>2 DEF RunOK, At, Candidates, Stored, Volatile, ServerOver
  <2> QED BY <2>1, <2>3, SameStore
<1>2. ASSUME NEW j \in Dbs, NEW denyoom \in BOOLEAN, Start(j, denyoom)
      PROVE  IInv'
  <2>1. UNCHANGED <<store, counters>> /\ config' = config
    BY <1>2 DEF Start, limits
  <2>2. RunOK'
    BY <1>2, <2>1, Constants DEF Start, RunOK, At, Places
  <2> QED BY <2>1, <2>2, SameStore
<1>3. CASE freeDBMemory
  <2>1. PICK k \in Stored(run.db) : Delete(run.db, run.db, k)
    BY <1>3 DEF freeDBMemory, dbnum, Volatile
  <2>2. k \in Keys /\ logiclock' = logiclock /\ config' = config /\ run' = run /\ At("dbLimit")
    BY <1>3 DEF freeDBMemory, limits, Stored
  <2>3. StoreOK' /\ CountersOK'
    BY <2>1, <2>2, RunFacts, DeleteStep
  <2>4. RunOK'
    BY <2>2 DEF RunOK, At
  <2> QED BY <2>3, <2>4
<1>4. CASE RefusedByDb
  <2>1. UNCHANGED <<store, counters>> /\ config' = config
    BY <1>4 DEF RefusedByDb, limits
  <2>2. RunOK'
    BY <1>4, <2>1, Constants DEF RefusedByDb, Returns, Returned, RunOK, At, Places
  <2> QED BY <2>1, <2>2, SameStore
<1>5. CASE DbLimitHolds
  <2>1. UNCHANGED <<store, counters>> /\ config' = config
    BY <1>5 DEF DbLimitHolds, limits
  <2>2. RunOK'
    <3>1. CASE config.server > 0 /\ Turn("stale", 0, FALSE)
      BY <2>1, <3>1, BeginFacts DEF RunOK, At, Places
    <3>2. CASE Turn("call", 0, FALSE)
      BY <2>1, <3>2, BeginFacts DEF RunOK, At, Places
    <3> QED BY <1>5, <3>1, <3>2 DEF DbLimitHolds
  <2> QED BY <2>1, <2>2, SameStore
<1>6. CASE RemoveStale
  <2>1. /\ At("stale") /\ run.j < DbCount /\ logiclock' = logiclock /\ config' = config
        /\ Turn("stale", run.j + 1, FALSE)
    BY <1>6 DEF RemoveStale, limits
  <2>2. run.j \in Dbs /\ config.server > 0 /\ config.server # 0
    BY <2>1, RunFacts DEF RunOK
  <2>3. ASSUME \E k \in Stale(run.j) : Delete(dbnum, run.j, k)
        PROVE  StoreOK' /\ CountersOK'
    <3>1. PICK k \in Keys : Delete(run.db, run.j, k)
      BY <2>3, StoreFinite DEF dbnum
    <3> QED BY <2>1, <2>2, <3>1, RunFacts, DeleteStep
  <2>4. ASSUME UNCHANGED <<dict, needRemove, counters>>
        PROVE  StoreOK' /\ CountersOK'
    BY <2>1, <2>4, SameStore DEF store
  <2>5. StoreOK' /\ CountersOK'
    BY <1>6, <2>3, <2>4 DEF RemoveStale
  <2>6. RunOK'
    <3>1. run.j + 1 \in 0 .. DbCount
      BY <2>1, RunFacts, Constants
    <3> QED BY <2>1, <2>2, <3>1, TurnFacts DEF RunOK, At, Places
  <2> QED BY <2>5, <2>6
<1>7. CASE StaleDone
  <2>1. UNCHANGED <<store, counters>> /\ config' = config /\ used' = used
    BY <1>7 DEF StaleDone, limits, counters
  <2>2. CASE config.policy # "NO_EVICTION" /\ ServerOver /\ Turn("evict", 0, FALSE)
    <3>1. \A i \in Dbs : ~ i < 0
      BY Constants DEF Dbs
    <3>2. At("stale") /\ config.server > 0
      BY <1>7 DEF StaleDone, RunOK
    <3>3. RunOK'
      BY <2>1, <2>2, <3>1, <3>2, BeginFacts DEF RunOK, At, Places
    <3> QED BY <2>1, <3>3, SameStore
  <2>3. CASE ~ (config.policy # "NO_EVICTION" /\ ServerOver) /\ Turn("check", 0, FALSE)
    <3>1. ServerOver' <=> ServerOver
      BY <2>1 DEF ServerOver
    <3>2. RunOK'
      <4>1. At("stale") /\ config.server > 0
        BY <1>7 DEF StaleDone, RunOK
      <4> QED BY <2>1, <2>3, <3>1, <4>1, BeginFacts DEF RunOK, At, Places
    <3> QED BY <2>1, <3>2, SameStore
  <2> QED BY <1>7, <2>2, <2>3 DEF StaleDone
<1>8. CASE EvictOne
  <2>1. At("evict") /\ run.j < DbCount /\ logiclock' = logiclock /\ config' = config
    BY <1>8 DEF EvictOne, limits
  <2>2. run.j \in Dbs /\ config.server > 0 /\ config.server # 0
    BY <2>1, RunFacts DEF RunOK
  <2>3. CASE /\ \E k \in Candidates(run.j) : Delete(dbnum, run.j, k)
             /\ Turn("evict", run.j + 1, TRUE)
    <3>1. PICK k \in Keys : Delete(run.db, run.j, k)
      BY <2>3 DEF dbnum, Candidates, Stored, Volatile
    <3>2. StoreOK' /\ CountersOK'
      BY <2>1, <2>2, <3>1, RunFacts, DeleteStep
    <3>3. RunOK'
      <4>1. run.j + 1 \in 0 .. DbCount
        BY <2>1, RunFacts, Constants
      <4> QED BY <2>1, <2>2, <2>3, <4>1, TurnFacts DEF RunOK, At, Places
    <3> QED BY <3>2, <3>3
  <2>4. CASE /\ Candidates(run.j) = {} /\ UNCHANGED <<dict, needRemove, counters>>
             /\ Turn("evict", run.j + 1, run.freed)
    <3>1. StoreOK' /\ CountersOK'
      BY <2>1, <2>4, SameStore DEF store
    <3>2. \A i \in Dbs : Candidates(i)' = Candidates(i)
      BY <2>1, <2>4 DEF Candidates, Stored, Volatile
    <3>3. \A i \in Dbs : i < run.j + 1 => i < run.j \/ i = run.j
      BY RunFacts, Constants DEF Dbs
    <3>4. RunOK'
      <4>1. run.j + 1 \in 0 .. DbCount /\ run.freed \in BOOLEAN
        BY <2>1, RunFacts, Constants DEF RunOK
      <4>2. /\ run'.at = "evict" /\ run'.j = run.j + 1 /\ run'.freed = run.freed
            /\ run' \in [at : Places, db : Dbs, denyoom : BOOLEAN, j : 0 .. DbCount,
                         freed : BOOLEAN]
            /\ config' \in Configs
        BY <2>1, <2>4, <4>1, TurnFacts DEF Places
      <4>3. ~ run.freed => \A i \in Dbs : i < run.j + 1 => Candidates(i)' = {}
        BY <2>1, <2>4, <3>2, <3>3 DEF RunOK
      <4> QED BY <2>1, <2>2, <4>2, <4>3 DEF RunOK, At
    <3> QED BY <3>1, <3>4
  <2> QED BY <1>8, <2>3, <2>4 DEF EvictOne
<1>9. CASE EvictTurn
  <2>1. /\ UNCHANGED <<store, counters>> /\ config' = config /\ used' = used /\ dict' = dict
        /\ At("evict") /\ run.j = DbCount
    BY <1>9 DEF EvictTurn, limits, counters, store
  <2>2. \A i \in Dbs : ~ i < 0 /\ i < DbCount
    BY Constants DEF Dbs
  <2>3. ServerOver' <=> ServerOver
    BY <2>1 DEF ServerOver
  <2>4. \A i \in Dbs : Candidates(i)' = Candidates(i)
    BY <2>1 DEF Candidates, Stored, Volatile
  <2>5. RunOK'
    <3>1. config.server > 0 /\ config.policy # "NO_EVICTION"
      BY <2>1 DEF RunOK
    <3>2. CASE Turn("evict", 0, FALSE)
      BY <2>1, <2>2, <3>1, <3>2, BeginFacts DEF RunOK, At, Places
    <3>3. CASE ~ (run.freed /\ ServerOver) /\ Turn("check", 0, FALSE)
      <4>1. ServerOver => \A i \in Dbs : Candidates(i)' = {}
        BY <2>1, <2>2, <2>4, <3>3 DEF RunOK
      <4>2. /\ run'.at = "check"
            /\ run' \in [at : Places, db : Dbs, denyoom : BOOLEAN, j : 0 .. DbCount,
                         freed : BOOLEAN]
            /\ config' \in Configs
        BY <2>1, <3>3, BeginFacts DEF Places
      <4> QED BY <2>1, <2>3, <3>1, <4>1, <4>2 DEF RunOK, At
    <3> QED BY <1>9, <3>2, <3>3 DEF EvictTurn
  <2> QED BY <2>1, <2>5, SameStore
<1>10. CASE RefusedByServer
  <2>1. UNCHANGED <<store, counters>> /\ config' = config
    BY <1>10 DEF RefusedByServer, limits
  <2>2. RunOK'
    BY <1>10, <2>1, Constants DEF RefusedByServer, Returns, Returned, RunOK, At, Places
  <2> QED BY <2>1, <2>2, SameStore
<1>11. CASE ServerLimitHolds
  <2>1. UNCHANGED <<store, counters>> /\ config' = config
    BY <1>11 DEF ServerLimitHolds, limits
  <2>2. RunOK'
    <3>1. Turn("call", 0, FALSE)
      BY <1>11 DEF ServerLimitHolds
    <3> QED BY <2>1, <3>1, BeginFacts DEF RunOK, At, Places
  <2> QED BY <2>1, <2>2, SameStore
<1>12. ASSUME NEW k \in Keys, NEW volatile \in BOOLEAN, CallWrite(k, volatile)
       PROVE  IInv'
  <2> DEFINE e == [volatile |-> volatile, clk |-> logiclock[run.db]]
  <2>1. /\ dict' = [dict EXCEPT ![run.db][k] = e]
        /\ needRemove' = [needRemove EXCEPT ![run.db] =
                             IF k \in Stale(run.db) THEN (@ - 1) % (SizeMax + 1) ELSE @]
        /\ Counted(run.db, KeySize[k] - EntrySize(run.db, k))
        /\ logiclock' = logiclock /\ config' = config /\ Returns("OK")
    BY <1>12 DEF CallWrite, dbnum, limits
  <2>2. e \in Entry /\ e # Absent /\ e.clk = logiclock[run.db]
    BY RunFacts, AbsentAssumption DEF Entry, StoreOK
  <2> HIDE DEF e
  <2>3. SizeWith(k, e) = KeySize[k]
    BY <2>2 DEF SizeWith
  <2>4. StoreOK'
    BY <2>1, <2>2, RunFacts, StoreStep
  <2>5. CountersOK'
    BY <2>1, <2>3, RunFacts, CountersStep DEF StoreOK
  <2>6. RunOK'
    BY <2>1, Constants DEF Returns, Returned, RunOK, At, Places
  <2> QED BY <2>4, <2>5, <2>6
<1>13. ASSUME NEW k \in Keys, CallRead(k)
       PROVE  IInv'
  <2>1. logiclock' = logiclock /\ config' = config /\ Returns("OK")
    BY <1>13 DEF CallRead, limits
  <2>2. ASSUME Delete(run.db, run.db, k)
        PROVE  StoreOK' /\ CountersOK'
    BY <2>1, <2>2, RunFacts, DeleteStep
  <2>3. ASSUME UNCHANGED <<dict, needRemove, counters>>
        PROVE  StoreOK' /\ CountersOK'
    BY <2>1, <2>3, SameStore DEF store
  <2>4. StoreOK' /\ CountersOK'
    BY <1>13, <2>2, <2>3 DEF CallRead, dbnum
  <2>5. RunOK'
    BY <2>1, Constants DEF Returns, Returned, RunOK, At, Places
  <2> QED BY <2>4, <2>5
<1>14. ASSUME NEW k \in Keys, CallDel(k)
       PROVE  IInv'
  <2>1. /\ dict' = [dict EXCEPT ![run.db][k] = Absent]
        /\ Counted(run.db, -EntrySize(run.db, k)) /\ needRemove' = needRemove
        /\ logiclock' = logiclock /\ config' = config /\ Returns("OK")
    BY <1>14 DEF CallDel, dbnum, limits
  <2>2. SizeWith(k, Absent) - EntrySize(run.db, k) = -EntrySize(run.db, k)
    BY Constants DEF SizeWith, EntrySize
  <2>3. StoreOK'
    BY <2>1, RunFacts, StoreStep
  <2>4. CountersOK'
    <3>1. Counted(run.db, SizeWith(k, Absent) - EntrySize(run.db, k))
      BY <2>1, <2>2
    <3>2. dict \in [Dbs -> [Keys -> Entry \cup {Absent}]] /\ run.db \in Dbs
      BY RunFacts DEF StoreOK
    <3> QED BY <2>1, <3>1, <3>2, CountersStep
  <2>5. RunOK'
    BY <2>1, Constants DEF Returns, Returned, RunOK, At, Places
  <2> QED BY <2>3, <2>4, <2>5
<1>15. ASSUME NEW j \in Dbs, NEW k \in Keys, activeExpireCycle(j, k)
       PROVE  IInv'
  <2>1. Delete(j, j, k) /\ Idle /\ logiclock' = logiclock /\ config' = config /\ run' = run
    BY <1>15 DEF activeExpireCycle, limits
  <2>2. RunOK'
    BY <2>1 DEF RunOK, Idle, Returned, At
  <2> QED BY <2>1, <2>2, DeleteStep
<1>16. ASSUME NEW j \in Dbs, Clear(j)
       PROVE  IInv'
  <2>1. /\ Idle /\ logiclock[j] < ClockMax /\ logiclock' = [logiclock EXCEPT ![j] = @ + 1]
        /\ needRemove' = [needRemove EXCEPT ![j] = Cardinality(Stored(j))]
        /\ dict' = dict /\ used' = used /\ dbUsed' = dbUsed /\ config' = config /\ run' = run
    BY <1>16 DEF Clear, counters, limits
  <2>2. RunOK'
    BY <2>1 DEF RunOK, Idle, Returned, At
  <2>3. CountersOK'
    BY <2>1 DEF CountersOK, CountersAddUp, SizeOf, EntrySize
  <2>4. StoreOK'
    <3>1. /\ logiclock' \in [Dbs -> 1 .. ClockMax]
          /\ \A i \in Dbs : logiclock[i] <= logiclock'[i] /\ (i # j => logiclock'[i] = logiclock[i])
      BY <2>1, Constants DEF StoreOK
    <3>2. needRemove' \in [Dbs -> 0 .. Cardinality(Keys)]
      BY <2>1, StoreFinite DEF StoreOK
    <3>3. \A i \in Dbs : Stored(i)' = Stored(i)
      BY <2>1 DEF Stored
    <3>4. \A i \in Dbs : \A x \in Stored(i) : dict[i][x].clk <= logiclock'[i]
      <4> TAKE i \in Dbs
      <4> TAKE x \in Stored(i)
      <4>1. dict[i][x].clk <= logiclock[i] /\ dict[i][x].clk \in Int
        BY DEF StoreOK, Stored, Entry
      <4>2. logiclock[i] <= logiclock'[i] /\ logiclock[i] \in Int /\ logiclock'[i] \in Int
        BY <3>1, Constants DEF StoreOK
      <4> QED BY <4>1, <4>2
    <3>5. \A i \in Dbs : Cardinality(Stale(i)') <= needRemove'[i]
      <4> TAKE i \in Dbs
      <4>1. CASE i = j
        <5>1. Stale(j)' \subseteq Stored(j)
          BY <3>3 DEF Stale
        <5>2. needRemove'[j] = Cardinality(Stored(j))
          BY <2>1 DEF StoreOK
        <5> QED BY <4>1, <5>1, <5>2, StoreFinite, FS_Subset
      <4>2. CASE i # j
        <5>1. Stale(i)' = Stale(i) /\ needRemove'[i] = needRemove[i]
          BY <2>1, <3>1, <4>2 DEF Stale, Stored, StoreOK
        <5> QED BY <5>1 DEF StoreOK
      <4> QED BY <4>1, <4>2
    <3> QED BY <2>1, <3>1, <3>2, <3>3, <3>4, <3>5 DEF StoreOK
  <2> QED BY <2>2, <2>3, <2>4
<1>17. ASSUME NEW j \in Dbs, NEW max \in DbLimits, setDBMaxmemory(j, max)
       PROVE  IInv'
  <2>1. UNCHANGED <<store, counters>> /\ config' = config /\ Idle /\ run' = run
    BY <1>17 DEF setDBMaxmemory
  <2>2. RunOK'
    BY <2>1 DEF RunOK, Idle, Returned, At
  <2> QED BY <2>1, <2>2, SameStore
<1> QED BY <1>1, <1>2, <1>3, <1>4, <1>5, <1>6, <1>7, <1>8, <1>9, <1>10, <1>11, <1>12,
           <1>13, <1>14, <1>15, <1>16, <1>17 DEF Next, Proceed
-----------------------------------------------------------------------------
(* The theorems.                                                           *)

\* The invariant, of every state a behaviour reaches.
LEMMA Invariance == Spec => []IInv
BY InitIInv, NextIInv, PTL DEF Spec

\* The memory in use fits a size_t: no command, loop or collection takes more
\* than the keys need, or gives back what it did not take.
LEMMA UsedBound == IInv => used \in 0 .. SizeMax
<1> SUFFICES ASSUME IInv PROVE used \in 0 .. SizeMax
  OBVIOUS
<1> DEFINE sizes == [j \in Dbs |-> SizeOf(j)]
           total == SumFunctionOnSet(KeySize, Keys)
           all == [j \in Dbs |-> total]
<1>1. used = SumFunctionOnSet(sizes, Dbs)
  BY AddUp DEF IInv, CountersOK
<1>2. \A j \in Dbs : sizes[j] \in Nat /\ all[j] = total /\ sizes[j] <= total
  BY SizeOfIs, SizeBound, Constants
<1>3. SumFunctionOnSet(sizes, Dbs) \in Nat
  BY <1>2, Constants, SumNat
<1> HIDE DEF sizes, total
<1>4. total \in Nat /\ DbCount * total <= SizeMax
  BY Constants DEF total
<1> HIDE DEF all
<1>5. SumFunctionOnSet(sizes, Dbs) <= SumFunctionOnSet(all, Dbs)
  BY <1>2, <1>4, Constants, SumMonotone
<1>6. SumFunctionOnSet(all, Dbs) = DbCount * total
  BY <1>2, <1>4, Constants, SumConstant
<1>7. DbCount * total \in Nat
  BY <1>4, Constants
<1> HIDE DEF total
<1> QED BY <1>1, <1>3, <1>4, <1>5, <1>6, <1>7, Constants

\* No counter of keys or bytes wraps, whatever is cleared, collected or
\* evicted, for whichever database it is counted.
THEOREM MemoryTypes == Spec => []TypeOK
<1>1. IInv => TypeOK
  <2> SUFFICES ASSUME IInv PROVE TypeOK
    OBVIOUS
  <2>1. used \in 0 .. SizeMax
    BY UsedBound
  <2> QED BY <2>1 DEF IInv, StoreOK, CountersOK, TypeOK
<1> QED BY <1>1, Invariance, PTL

\* zmalloc's total is what the stored keys need and its counters add up to
\* it; without a limit of the server each counter is its database's.
THEOREM MemoryAddsUp == Spec => []CountersAddUp
<1>1. IInv => CountersAddUp
  BY DEF IInv, CountersOK
<1> QED BY <1>1, Invariance, PTL

\* A refusal by processCommand comes after the last key that may be taken.
THEOREM MemoryRefusesLast == Spec => RefusedAtLast
<1> DEFINE A == (~ Idle /\ Returns("REACH_MAXMEMORY")) =>
                   \/ DbOver /\ Stored(run.db) = {}
                   \/ /\ ServerOver
                      /\ config.policy # "NO_EVICTION" => \A j \in Dbs : Candidates(j) = {}
<1>1. ASSUME IInv, Next
      PROVE  A
  <2> SUFFICES ASSUME ~ Idle, run' = Returned("REACH_MAXMEMORY")
               PROVE  \/ DbOver /\ Stored(run.db) = {}
                      \/ /\ ServerOver
                         /\ config.policy # "NO_EVICTION" => \A j \in Dbs : Candidates(j) = {}
    BY DEF Returns
  <2>1. run'.at = "REACH_MAXMEMORY"
    BY DEF Returned
  <2>2. run \in [at : Places, db : Dbs, denyoom : BOOLEAN, j : 0 .. DbCount, freed : BOOLEAN]
    BY <1>1 DEF IInv, RunOK
  <2>3. \A place, i, freed : Turn(place, i, freed) => run'.at = place
    BY <2>2 DEF Turn
  <2>4. ~ Returns("OK")
    BY <2>1 DEF Returns, Returned
  <2>5. ~ freeDBMemory
    BY <2>1 DEF freeDBMemory, At
  <2>6. ~ (DbLimitHolds \/ RemoveStale \/ StaleDone \/ EvictOne \/ EvictTurn \/ ServerLimitHolds)
    BY <2>1, <2>3 DEF DbLimitHolds, RemoveStale, StaleDone, EvictOne, EvictTurn, ServerLimitHolds
  <2>7. \A k \in Keys : ~ (\/ \E volatile \in BOOLEAN : CallWrite(k, volatile)
                           \/ CallRead(k) \/ CallDel(k))
    BY <2>4 DEF CallWrite, CallRead, CallDel
  <2>8. ~ \E j \in Dbs : \/ \E denyoom \in BOOLEAN : Start(j, denyoom)
                         \/ \E k \in Keys : activeExpireCycle(j, k)
                         \/ Clear(j)
                         \/ \E max \in DbLimits : setDBMaxmemory(j, max)
    BY DEF Start, activeExpireCycle, Clear, setDBMaxmemory
  <2>9. RefusedByDb \/ RefusedByServer
    BY <1>1, <2>5, <2>6, <2>7, <2>8 DEF Next, Proceed
  <2>10. CASE RefusedByDb
    BY <2>10 DEF RefusedByDb
  <2>11. CASE RefusedByServer
    BY <1>1, <2>11 DEF RefusedByServer, IInv, RunOK
  <2> QED BY <2>9, <2>10, <2>11
<1>2. IInv /\ [Next]_vars => [A]_vars
  BY <1>1
<1> QED BY <1>2, Invariance, PTL DEF Spec, RefusedAtLast

\* A live key without a deadline goes by its own DEL, for its own database's
\* limit, or by allkeys eviction.
THEOREM MemoryKeepsKeys == Spec => KeysGoForAReason
<1> DEFINE Reason(j) ==
              \/ At("call") /\ run.db = j
              \/ At("dbLimit") /\ run.db = j /\ DbOver
              \/ At("evict") /\ config.policy = "ALLKEYS" /\ config.server > 0
           A == \A j \in Dbs, k \in Keys : (Kept(j, k) /\ dict'[j][k] = Absent) => Reason(j)
<1>1. ASSUME IInv, Next
      PROVE  A
  <2> SUFFICES ASSUME NEW j \in Dbs, NEW k \in Keys, Kept(j, k), dict'[j][k] = Absent
               PROVE  Reason(j)
    OBVIOUS
  <2>1. dict \in [Dbs -> [Keys -> Entry \cup {Absent}]]
    BY <1>1 DEF IInv, StoreOK
  <2>2. dict[j][k] # Absent /\ k \notin Stale(j) /\ k \notin Volatile(j)
    BY DEF Kept, Stored
  <2>3. dict' # dict
    BY <2>2
  <2>4. ASSUME NEW d, NEW i \in Dbs, NEW x, Delete(d, i, x)
        PROVE  i = j /\ x = k
    <3>1. dict' = [dict EXCEPT ![i][x] = Absent]
      BY <2>4 DEF Delete
    <3> QED BY <2>1, <2>2, <3>1
  <2>5. run.db \in Dbs /\ (run.j < DbCount => run.j \in Dbs)
    BY <1>1, RunFacts DEF IInv
  <2>6. CASE freeDBMemory
    <3>1. PICK x : Delete(dbnum, run.db, x)
      BY <2>6 DEF freeDBMemory
    <3> QED BY <2>4, <2>5, <2>6, <3>1 DEF freeDBMemory
  <2>7. CASE RemoveStale
    <3>1. PICK x \in Stale(run.j) : Delete(dbnum, run.j, x)
      BY <2>3, <2>7 DEF RemoveStale
    <3>2. run.j < DbCount
      BY <2>7 DEF RemoveStale
    <3> QED BY <2>2, <2>4, <2>5, <3>1, <3>2
  <2>8. CASE EvictOne
    <3>1. PICK x \in Candidates(run.j) : Delete(dbnum, run.j, x)
      BY <2>3, <2>8 DEF EvictOne
    <3>2. run.j < DbCount /\ At("evict")
      BY <2>8 DEF EvictOne
    <3>3. k \in Candidates(j)
      BY <2>4, <2>5, <3>1, <3>2
    <3>4. config.policy = "ALLKEYS"
      BY <2>2, <3>3 DEF Candidates
    <3>5. config.server > 0
      BY <1>1, <3>2 DEF IInv, RunOK
    <3> QED BY <3>2, <3>4, <3>5
  <2>9. CASE RefusedByDb \/ DbLimitHolds \/ StaleDone \/ EvictTurn \/ RefusedByServer \/ ServerLimitHolds
    BY <2>3, <2>9
    DEF RefusedByDb, DbLimitHolds, StaleDone, EvictTurn, RefusedByServer, ServerLimitHolds, store
  <2>10. ASSUME NEW x \in Keys, NEW volatile \in BOOLEAN, CallWrite(x, volatile)
         PROVE  Reason(j)
    <3>1. At("call") /\ dict' = [dict EXCEPT ![run.db][x] =
                                    [volatile |-> volatile, clk |-> logiclock[run.db]]]
      BY <2>10 DEF CallWrite
    <3>2. run.db = j
      BY <2>1, <2>2, <2>5, <3>1
    <3> QED BY <3>1, <3>2
  <2>11. ASSUME NEW x \in Keys, CallRead(x)
         PROVE  Reason(j)
    <3>1. At("call") /\ Delete(dbnum, run.db, x)
      BY <2>3, <2>11 DEF CallRead
    <3> QED BY <2>4, <2>5, <3>1
  <2>12. ASSUME NEW x \in Keys, CallDel(x)
         PROVE  Reason(j)
    <3>1. At("call") /\ dict' = [dict EXCEPT ![run.db][x] = Absent]
      BY <2>12 DEF CallDel
    <3>2. run.db = j
      BY <2>1, <2>2, <2>5, <3>1
    <3> QED BY <3>1, <3>2
  <2>13. ASSUME NEW i \in Dbs, NEW x \in Keys, activeExpireCycle(i, x)
         PROVE  Reason(j)
    <3>1. Delete(i, i, x) /\ (x \in Stale(i) \/ x \in Volatile(i))
      BY <2>13 DEF activeExpireCycle
    <3> QED BY <2>2, <2>4, <3>1
  <2>14. ASSUME NEW i \in Dbs,
                \/ \E denyoom \in BOOLEAN : Start(i, denyoom)
                \/ Clear(i)
                \/ \E max \in DbLimits : setDBMaxmemory(i, max)
         PROVE  Reason(j)
    BY <2>3, <2>14 DEF Start, Clear, setDBMaxmemory, store
  <2> QED BY <1>1, <2>6, <2>7, <2>8, <2>9, <2>10, <2>11, <2>12, <2>13, <2>14 DEF Next, Proceed
<1>2. ASSUME IInv, UNCHANGED vars
      PROVE  [A]_vars
  BY <1>2
<1>3. IInv /\ [Next]_vars => [A]_vars
  BY <1>1, <1>2
<1> QED BY <1>3, Invariance, PTL DEF Spec, KeysGoForAReason

=============================================================================
