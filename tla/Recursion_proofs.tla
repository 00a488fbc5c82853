-------------------------- MODULE Recursion_proofs --------------------------
(***************************************************************************)
(* Recursive functions: that there is one, and what the fold that sums a   *)
(* function over a finite domain computes.                                 *)
(*                                                                         *)
(* A definition that looks at its function at points of smaller measure    *)
(* only has a solution on every part of the domain below a measure, and    *)
(* the solutions agree where they meet.                                    *)
(*                                                                         *)
(* The fold takes its elements in the order of CHOOSE, and the order is    *)
(* the same for every function of one domain; so no fact here needs the    *)
(* sum to be commutative.                                                  *)
(*                                                                         *)
(* Induction is the existence of a smallest counterexample: among the      *)
(* measures, or among the finite subsets of the domain.                    *)
(***************************************************************************)
EXTENDS Integers, Functions, FiniteSetTheorems, WellFoundedInduction,
        NaturalsInduction, TLAPS

\* A set of naturals that is not empty has a least element.
LEMMA LeastNat ==
    ASSUME NEW B \in SUBSET Nat, B # {}
    PROVE  \E n \in B : \A m \in B : n <= m
<1>1. \E n \in B : \A m \in B : ~ <<m, n>> \in OpToRel(<, Nat)
  BY NatLessThanWellFounded, WFMin
<1>2. \A m, n \in B : ~ <<m, n>> \in OpToRel(<, Nat) => n <= m
  BY DEF OpToRel
<1> QED BY <1>1, <1>2

\* f solves the equations of F at the points of measure below n.
Solves(D, F, m, f, n) == \A x \in D : m[x] < n => f[x] = F[<<x, f>>]

\* F looks at its function at points of smaller measure only.
Descends(D, A, F, m) ==
    /\ F \in [D \X [D -> A] -> A] /\ m \in [D -> Nat]
    /\ \A x \in D : \A g, h \in [D -> A] :
          (\A y \in D : m[y] < m[x] => g[y] = h[y]) => F[<<x, g>>] = F[<<x, h>>]

\* There are solutions up to every measure.
LEMMA SolutionsUpTo ==
    ASSUME NEW D, NEW A, NEW F, NEW m, Descends(D, A, F, m), [D -> A] # {}
    PROVE  \A n \in Nat : \E f \in [D -> A] : Solves(D, F, m, f, n)
<1> F \in [D \X [D -> A] -> A] /\ m \in [D -> Nat]
  BY DEF Descends
<1> DEFINE B == {n \in Nat : ~ \E f \in [D -> A] : Solves(D, F, m, f, n)}
<1>1. SUFFICES ASSUME B # {} PROVE FALSE
  OBVIOUS
<1>2. PICK n \in B : \A k \in B : n <= k
  <2> HIDE DEF B
  <2>1. B \in SUBSET Nat
    BY DEF B
  <2> QED BY <1>1, <2>1, LeastNat
<1>3. n # 0
  BY DEF Solves
<1>4. n - 1 \in Nat /\ n - 1 \notin B
  BY <1>2, <1>3
<1>5. PICK g \in [D -> A] : Solves(D, F, m, g, n - 1)
  BY <1>4
<1> DEFINE f == [x \in D |-> F[<<x, g>>]]
<1>6. f \in [D -> A]
  OBVIOUS
<1>7. ASSUME NEW x \in D, m[x] < n PROVE f[x] = F[<<x, f>>]
  <2>1. \A y \in D : m[y] < m[x] => f[y] = g[y]
    BY <1>2, <1>5, <1>7 DEF Solves
  <2>2. F[<<x, f>>] = F[<<x, g>>]
    <3> HIDE DEF f
    <3> QED BY <1>6, <2>1 DEF Descends
  <2> QED BY <2>2
<1>8. Solves(D, F, m, f, n)
  <2> HIDE DEF f
  <2> QED BY <1>7 DEF Solves
<1> QED BY <1>2, <1>6, <1>8

\* Two of them agree.
LEMMA SolutionsAgree ==
    ASSUME NEW D, NEW A, NEW F, NEW m, Descends(D, A, F, m)
    PROVE  \A k \in Nat : \A f, g \in [D -> A] :
              Solves(D, F, m, f, k) /\ Solves(D, F, m, g, k) =>
                  \A x \in D : m[x] < k => f[x] = g[x]
<1> SUFFICES ASSUME NEW k \in Nat, NEW f \in [D -> A], NEW g \in [D -> A],
                    Solves(D, F, m, f, k), Solves(D, F, m, g, k)
             PROVE  \A x \in D : m[x] < k => f[x] = g[x]
  OBVIOUS
<1> F \in [D \X [D -> A] -> A] /\ m \in [D -> Nat]
  BY DEF Descends
<1> DEFINE B == {m[x] : x \in {y \in D : m[y] < k /\ f[y] # g[y]}}
<1>1. SUFFICES ASSUME B # {} PROVE FALSE
  OBVIOUS
<1>2. PICK n \in B : \A i \in B : n <= i
  <2>1. B \in SUBSET Nat
    OBVIOUS
  <2> HIDE DEF B
  <2> QED BY <1>1, <2>1, LeastNat
<1>3. PICK x \in D : m[x] = n /\ m[x] < k /\ f[x] # g[x]
  BY <1>2
<1>4. \A y \in D : m[y] < m[x] => f[y] = g[y]
  <2> SUFFICES ASSUME NEW y \in D, m[y] < m[x], f[y] # g[y] PROVE FALSE
    OBVIOUS
  <2>1. m[y] < k /\ m[y] \in Nat /\ m[x] \in Nat
    BY <1>3
  <2>2. m[y] \in B
    BY <2>1
  <2> HIDE DEF B
  <2>3. m[x] <= m[y]
    BY <1>2, <1>3, <2>2
  <2> QED BY <2>1, <2>3
<1>5. F[<<x, f>>] = F[<<x, g>>]
  BY <1>4 DEF Descends
<1> QED BY <1>3, <1>5 DEF Solves

\* A recursive definition that looks at points of smaller measure only has a
\* solution.
LEMMA RecursionSolved ==
    ASSUME NEW D, NEW A, NEW F, NEW m, Descends(D, A, F, m), [D -> A] # {}
    PROVE  \E f \in [D -> A] : f = [x \in D |-> F[<<x, f>>]]
<1> F \in [D \X [D -> A] -> A] /\ m \in [D -> Nat]
  BY DEF Descends
<1>a. \A k \in Nat : \A g, h \in [D -> A] :
         Solves(D, F, m, g, k) /\ Solves(D, F, m, h, k) =>
            \A x \in D : m[x] < k => g[x] = h[x]
  BY SolutionsAgree
<1> DEFINE upTo(n) == CHOOSE f \in [D -> A] : Solves(D, F, m, f, n)
           f == [x \in D |-> upTo(m[x] + 1)[x]]
<1>1. \A n \in Nat : upTo(n) \in [D -> A] /\ Solves(D, F, m, upTo(n), n)
  BY SolutionsUpTo
<1> HIDE DEF upTo
<1>2. f \in [D -> A]
  <2> SUFFICES ASSUME NEW x \in D PROVE upTo(m[x] + 1)[x] \in A
    OBVIOUS
  <2>1. m[x] + 1 \in Nat
    OBVIOUS
  <2> QED BY <1>1, <2>1
<1>3. ASSUME NEW x \in D PROVE f[x] = F[<<x, f>>]
  <2>1. m[x] + 1 \in Nat
    OBVIOUS
  <2> DEFINE g == upTo(m[x] + 1)
  <2>2. f[x] = g[x]
    OBVIOUS
  <2>5. g \in [D -> A] /\ Solves(D, F, m, g, m[x] + 1) /\ m[x] < m[x] + 1
    BY <1>1, <2>1
  <2>6. g[x] = F[<<x, g>>]
    <3> HIDE DEF g
    <3> QED BY <2>5 DEF Solves
  <2>3. ASSUME NEW y \in D, m[y] < m[x] PROVE f[y] = g[y]
    <3>1. m[y] + 1 \in Nat /\ m[y] + 1 <= m[x] + 1 /\ m[y] < m[y] + 1
      BY <2>3
    <3> DEFINE h == upTo(m[y] + 1)
    <3>2. h \in [D -> A] /\ Solves(D, F, m, h, m[y] + 1)
      BY <1>1, <3>1
    <3>a. f[y] = h[y]
      OBVIOUS
    <3>3. Solves(D, F, m, g, m[y] + 1)
      <4> HIDE DEF g, f, h
      <4>1. \A z \in D : m[z] < m[y] + 1 => m[z] < m[x] + 1
        BY <2>3
      <4> QED BY <2>5, <4>1 DEF Solves
    <3> HIDE DEF g, h, f
    <3>4. \A z \in D : m[z] < m[y] + 1 => h[z] = g[z]
      BY <1>a, <2>5, <3>1, <3>2, <3>3
    <3> QED BY <3>1, <3>a, <3>4
  <2> HIDE DEF f, g
  <2>4. F[<<x, f>>] = F[<<x, g>>]
    BY <1>2, <2>5, <2>3 DEF Descends
  <2> QED BY <2>2, <2>6, <2>4
<1> QED BY <1>2, <1>3

\* A function each of whose values is made from the one before.
StepBy(F, a, N, h) == h[0] = a /\ \A n \in 1 .. N : h[n] = F[n][h[n - 1]]

\* There is one, whatever makes the values.
LEMMA StepsSolved ==
    ASSUME NEW N, N \in Nat, NEW A, NEW a, a \in A, NEW F, F \in [1 .. N -> [A -> A]]
    PROVE  \E h \in [0 .. N -> A] : StepBy(F, a, N, h)
<1> DEFINE D == 0 .. N
           Made(h, n) == IF n = 0 THEN a ELSE F[n][h[n - 1]]
           G == [p \in D \X [D -> A] |-> Made(p[2], p[1])]
           m == [n \in D |-> n]
<1>1. G \in [D \X [D -> A] -> A]
  <2> SUFFICES ASSUME NEW n \in D, NEW h \in [D -> A] PROVE Made(h, n) \in A
    OBVIOUS
  <2>1. n # 0 => n \in 1 .. N /\ n - 1 \in D
    OBVIOUS
  <2>2. n # 0 => h[n - 1] \in A
    BY <2>1
  <2>3. n # 0 => F[n][h[n - 1]] \in A
    BY <2>1, <2>2
  <2> QED BY <2>3
<1>2. Descends(D, A, G, m)
  <2>1. m \in [D -> Nat]
    OBVIOUS
  <2>2. ASSUME NEW n \in D, NEW g \in [D -> A], NEW h \in [D -> A],
               \A y \in D : m[y] < m[n] => g[y] = h[y]
        PROVE  G[<<n, g>>] = G[<<n, h>>]
    <3>1. G[<<n, g>>] = Made(g, n) /\ G[<<n, h>>] = Made(h, n)
      OBVIOUS
    <3>2. n # 0 => n - 1 \in D /\ m[n - 1] < m[n]
      OBVIOUS
    <3> HIDE DEF D, m, G
    <3> QED BY <2>2, <3>1, <3>2
  <2> HIDE DEF D, m, G
  <2> QED BY <1>1, <2>1, <2>2 DEF Descends
<1>3. [D -> A] # {}
  <2>1. [n \in D |-> a] \in [D -> A]
    OBVIOUS
  <2> QED BY <2>1
<1>4. PICK h \in [D -> A] : h = [n \in D |-> G[<<n, h>>]]
  <2> HIDE DEF D, G, m
  <2> QED BY <1>2, <1>3, RecursionSolved
<1>5. \A n \in D : G[<<n, h>>] = Made(h, n)
  OBVIOUS
<1>6. \A n \in D : h[n] = Made(h, n)
  <2> HIDE DEF G, Made
  <2> QED BY <1>4, <1>5
<1>7. 0 \in D /\ \A n \in 1 .. N : n \in D /\ n # 0
  OBVIOUS
<1>8. h[0] = a
  BY <1>6, <1>7
<1>9. \A n \in 1 .. N : h[n] = F[n][h[n - 1]]
  BY <1>6, <1>7
<1>10. StepBy(F, a, N, h)
  BY <1>8, <1>9 DEF StepBy
<1> QED BY <1>10

\* What holds at 0 and from each number to the next holds of all of them.
LEMMA Upwards ==
    ASSUME NEW D \in SUBSET Nat, \A n \in D \ {0} : n - 1 \in D,
           NEW B, 0 \in D => 0 \in B, \A n \in D \ {0} : n - 1 \in B => n \in B
    PROVE  \A n \in D : n \in B
<1> DEFINE W == {n \in D : n \notin B}
<1>1. SUFFICES ASSUME W # {} PROVE FALSE
  OBVIOUS
<1>2. PICK n \in W : \A m \in W : n <= m
  <2>1. W \in SUBSET Nat
    OBVIOUS
  <2> HIDE DEF W
  <2> QED BY <1>1, <2>1, LeastNat
<1>3. n # 0 /\ n \in D /\ n \in Nat /\ n - 1 \in D /\ n \notin B
  BY <1>2
<1>4. n - 1 \notin W
  <2> HIDE DEF W
  <2> QED BY <1>2, <1>3
<1> QED BY <1>3, <1>4

\* A loop over D: from a, turn n makes of a value G[n] of it.
Loop(D, a, G, h) == h = [n \in D |-> IF n = 0 THEN a ELSE G[n][h[n - 1]]]

\* Each of its turns finds what the one before leaves, whatever I says of it.
Turning(D, I, a, G) ==
    a \in I[0] /\ \A n \in D \ {0} : \A x \in I[n - 1] : G[n][x] \in I[n]

\* It has values then, and they are what I says.
LEMMA LoopSolved ==
    ASSUME NEW D, D \in SUBSET Nat, 0 \in D, \A n \in D \ {0} : n - 1 \in D,
           NEW I, NEW a, NEW G, Turning(D, I, a, G)
    PROVE  \E h : Loop(D, a, G, h) /\ \A n \in D : h[n] \in I[n]
<1> a \in I[0] /\ \A n \in D \ {0} : \A x \in I[n - 1] : G[n][x] \in I[n]
  BY DEF Turning
<1> DEFINE A == UNION {I[n] : n \in D}
           Made(h, n) == IF n = 0 THEN a
                         ELSE IF h[n - 1] \in I[n - 1] THEN G[n][h[n - 1]] ELSE a
           F == [p \in D \X [D -> A] |-> Made(p[2], p[1])]
           m == [n \in D |-> n]
<1>1. a \in A
  OBVIOUS
<1>2. F \in [D \X [D -> A] -> A]
  <2> SUFFICES ASSUME NEW n \in D, NEW h \in [D -> A] PROVE Made(h, n) \in A
    OBVIOUS
  <2>1. CASE n # 0 /\ h[n - 1] \in I[n - 1]
    <3>1. G[n][h[n - 1]] \in I[n]
      BY <2>1
    <3> QED BY <2>1, <3>1
  <2> QED BY <1>1, <2>1
<1>3. Descends(D, A, F, m)
  <2>1. m \in [D -> Nat]
    OBVIOUS
  <2>2. ASSUME NEW n \in D, NEW g \in [D -> A], NEW h \in [D -> A],
               \A y \in D : m[y] < m[n] => g[y] = h[y]
        PROVE  F[<<n, g>>] = F[<<n, h>>]
    <3>1. F[<<n, g>>] = Made(g, n) /\ F[<<n, h>>] = Made(h, n)
      OBVIOUS
    <3>2. n # 0 => n - 1 \in D /\ m[n - 1] < m[n]
      OBVIOUS
    <3> HIDE DEF A, m, F
    <3> QED BY <2>2, <3>1, <3>2
  <2> HIDE DEF A, m, F
  <2> QED BY <1>2, <2>1, <2>2 DEF Descends
<1>4. [D -> A] # {}
  <2>1. [n \in D |-> a] \in [D -> A]
    BY <1>1
  <2> QED BY <2>1
<1>5. PICK h \in [D -> A] : h = [n \in D |-> F[<<n, h>>]]
  <2> HIDE DEF A, F, m, Made
  <2> QED BY ONLY <1>3, <1>4, RecursionSolved
<1>6. \A n \in D : F[<<n, h>>] = Made(h, n)
  OBVIOUS
<1>7. h = [n \in D |-> Made(h, n)]
  <2> HIDE DEF F, Made, A
  <2> QED BY <1>5, <1>6
<1>8. \A n \in D : h[n] = Made(h, n)
  <2> HIDE DEF Made
  <2> QED BY <1>7
<1> DEFINE B == {n \in D : h[n] \in I[n]}
<1>9. \A n \in D : n \in B
  <2>1. 0 \in B
    BY <1>8
  <2>2. ASSUME NEW n \in D \ {0}, n - 1 \in B PROVE n \in B
    <3>1. h[n] = G[n][h[n - 1]] /\ h[n - 1] \in I[n - 1]
      BY <1>8, <2>2
    <3> QED BY <3>1
  <2> HIDE DEF B
  <2> QED BY <2>1, <2>2, Upwards
<1>10. \A n \in D : h[n] \in I[n]
  BY <1>9
<1>11. \A n \in D : n # 0 => n - 1 \in D /\ n \in D \ {0}
  OBVIOUS
<1>12. \A n \in D : Made(h, n) = IF n = 0 THEN a ELSE G[n][h[n - 1]]
  BY <1>10, <1>11
<1>13. h = [n \in D |-> IF n = 0 THEN a ELSE G[n][h[n - 1]]]
  <2> HIDE DEF Made, B
  <2> QED BY <1>7, <1>12
<1> QED BY <1>10, <1>13 DEF Loop

-----------------------------------------------------------------------------
(* The sum of a function over a finite domain.                             *)

\* The next element the fold takes, and one unfolding of it.
Pick(s) == CHOOSE x \in s : TRUE
Step(f, it, s) == IF s = {} THEN 0 ELSE f[Pick(s)] + it[s \ {Pick(s)}]
Partial(f, it, s) == it = [t \in SUBSET s |-> Step(f, it, t)]

\* The least-element principle for the subsets of a finite set.
LEMMA SmallestSubset ==
    ASSUME NEW S, IsFiniteSet(S), NEW B \in SUBSET SUBSET S, B # {}
    PROVE  \E s \in B : \A t \in B : t \subseteq s => t = s
<1> DEFINE R == StrictSubsetOrdering(S)
<1>1. IsWellFoundedOn(R, SUBSET S)
  BY FS_StrictSubsetOrderingWellFounded, FS_FiniteSubsetsOfFinite
<1>2. \A t, s \in SUBSET S : t \subseteq s /\ t # s => <<t, s>> \in R
  BY DEF StrictSubsetOrdering
<1> HIDE DEF R
<1>3. \E s \in B : \A t \in B : ~ <<t, s>> \in R
  BY <1>1, WFMin
<1> QED BY <1>2, <1>3

\* The fold's choice of an element is one.
LEMMA PickIn == ASSUME NEW s, s # {} PROVE Pick(s) \in s
BY DEF Pick

\* The fold, one element at a time.
LEMMA PartialAt ==
    ASSUME NEW f, NEW it, NEW s, Partial(f, it, s), NEW t \in SUBSET s
    PROVE  it[t] = Step(f, it, t)
<1>1. it = [u \in SUBSET s |-> Step(f, it, u)]
  BY DEF Partial
<1> QED BY <1>1

\* Two unfoldings agree where both are defined.
LEMMA PartialUnique ==
    ASSUME NEW S, IsFiniteSet(S), NEW f, NEW g, NEW h, NEW s \in SUBSET S, NEW u \in SUBSET S,
           Partial(f, g, s), Partial(f, h, u)
    PROVE  \A t \in SUBSET (s \cap u) : g[t] = h[t]
<1> DEFINE B == {t \in SUBSET (s \cap u) : g[t] # h[t]}
<1>1. SUFFICES ASSUME B # {} PROVE FALSE
  OBVIOUS
<1>2. B \in SUBSET SUBSET S
  OBVIOUS
<1>3. PICK t \in B : \A v \in B : v \subseteq t => v = t
  <2> HIDE DEF B
  <2> QED BY <1>1, <1>2, SmallestSubset
<1>4. g[t] = Step(f, g, t) /\ h[t] = Step(f, h, t)
  BY PartialAt
<1>5. CASE t = {}
  BY <1>3, <1>4, <1>5 DEF Step
<1>6. CASE t # {}
  <2>1. Pick(t) \in t
    BY <1>6, PickIn
  <2>2. t \ {Pick(t)} \notin B
    BY <1>3, <2>1
  <2>3. g[t \ {Pick(t)}] = h[t \ {Pick(t)}]
    BY <2>2
  <2> QED BY <1>3, <1>4, <1>6, <2>3 DEF Step
<1> QED BY <1>5, <1>6

\* The recursion has a solution.
LEMMA PartialExists ==
    ASSUME NEW S, IsFiniteSet(S), NEW f
    PROVE  \E it : Partial(f, it, S)
<1> DEFINE B == {s \in SUBSET S : ~ \E it : Partial(f, it, s)}
<1>1. SUFFICES ASSUME B # {} PROVE FALSE
  OBVIOUS
<1>2. B \in SUBSET SUBSET S
  OBVIOUS
<1>3. PICK s \in B : \A v \in B : v \subseteq s => v = s
  <2> HIDE DEF B
  <2> QED BY <1>1, <1>2, SmallestSubset
<1> DEFINE Of(t) == CHOOSE it : Partial(f, it, t)
           G == [t \in SUBSET s |-> Of(t)[t]]
           h == [t \in SUBSET s |-> Step(f, G, t)]
<1>4. ASSUME NEW t \in SUBSET s, t # s
      PROVE  Partial(f, Of(t), t)
  <2>1. \E it : Partial(f, it, t)
    BY <1>3, <1>4
  <2> QED BY <2>1
<1> HIDE DEF Of
<1>5. ASSUME NEW t \in SUBSET s, t # s
      PROVE  G[t] = Step(f, G, t)
  <2>1. G[t] = Step(f, Of(t), t)
    BY <1>4, <1>5, PartialAt
  <2>2. CASE t = {}
    BY <2>1, <2>2 DEF Step
  <2>3. CASE t # {}
    <3> DEFINE v == t \ {Pick(t)}
    <3>1. Pick(t) \in t
      BY <2>3, PickIn
    <3>2. v \in SUBSET s /\ v # s /\ v \in SUBSET (v \cap t)
      BY <3>1
    <3>3. s \in SUBSET S /\ t \in SUBSET S /\ v \in SUBSET S
      BY <1>2, <1>3
    <3>4. Of(v)[v] = Of(t)[v]
      BY <1>4, <1>5, <3>2, <3>3, PartialUnique
    <3>5. G[v] = Of(t)[v]
      BY <3>2, <3>4
    <3> QED BY <2>1, <2>3, <3>5 DEF Step
  <2> QED BY <2>2, <2>3
<1>6. ASSUME NEW t \in SUBSET s
      PROVE  h[t] = Step(f, h, t)
  <2>1. CASE t = {}
    BY <2>1 DEF Step
  <2>2. CASE t # {}
    <3> DEFINE v == t \ {Pick(t)}
    <3>1. v \in SUBSET s /\ v # s
      BY <2>2, PickIn
    <3>2. h[v] = G[v]
      BY <1>5, <3>1
    <3>3. h[t] = Step(f, G, t)
      OBVIOUS
    <3> QED BY <2>2, <3>2, <3>3 DEF Step
  <2> QED BY <2>1, <2>2
<1>7. Partial(f, h, s)
  <2>1. h = [t \in SUBSET s |-> h[t]]
    OBVIOUS
  <2> HIDE DEF h
  <2> QED BY <1>6, <2>1 DEF Partial
<1> QED BY <1>3, <1>7

\* SumFunctionOnSet is such a solution, and the sum of a smaller set is the
\* value it has there.
LEMMA SumIsPartial ==
    ASSUME NEW S, IsFiniteSet(S), NEW f
    PROVE  \E it : Partial(f, it, S) /\ SumFunctionOnSet(f, S) = it[S]
<1> DEFINE P(it) == it = [s \in SUBSET S |->
                             IF s = {} THEN 0
                             ELSE f[CHOOSE x \in s : TRUE] + it[s \ {CHOOSE x \in s : TRUE}]]
           sum == CHOOSE it : P(it)
<1>1. \A it : Partial(f, it, S) <=> P(it)
  BY DEF Partial, Step, Pick
<1>2. P(sum)
  <2> HIDE DEF P
  <2>1. \E it : P(it)
    BY <1>1, PartialExists
  <2> QED BY <2>1
<1>3. SumFunctionOnSet(f, S) = sum[S]
  BY DEF SumFunctionOnSet, FoldFunctionOnSet, MapThenFoldSet
<1> HIDE DEF P
<1> QED BY <1>1, <1>2, <1>3

\* SumFunctionOnSet is the recursion that defines it.
LEMMA SumUnfolds ==
    ASSUME NEW S, IsFiniteSet(S), NEW f
    PROVE  /\ SumFunctionOnSet(f, {}) = 0
           /\ S # {} => SumFunctionOnSet(f, S) =
                           f[Pick(S)] + SumFunctionOnSet(f, S \ {Pick(S)})
<1> DEFINE T == S \ {Pick(S)}
<1>1. PICK g : Partial(f, g, {}) /\ SumFunctionOnSet(f, {}) = g[{}]
  BY FS_EmptySet, SumIsPartial
<1>2. IsFiniteSet(T)
  BY FS_Subset
<1>3. PICK h : Partial(f, h, S) /\ SumFunctionOnSet(f, S) = h[S]
  BY SumIsPartial
<1>4. PICK k : Partial(f, k, T) /\ SumFunctionOnSet(f, T) = k[T]
  BY <1>2, SumIsPartial
<1>5. h[T] = k[T]
  BY <1>3, <1>4, PartialUnique
<1>6. g[{}] = 0
  BY <1>1, PartialAt DEF Step
<1>7. S # {} => h[S] = f[Pick(S)] + h[T]
  BY <1>3, PartialAt DEF Step
<1> QED BY <1>1, <1>3, <1>4, <1>5, <1>6, <1>7

\* Nothing adds up to zero.
LEMMA SumEmpty == ASSUME NEW f PROVE SumFunctionOnSet(f, {}) = 0
BY FS_EmptySet, SumUnfolds

-----------------------------------------------------------------------------
(* What the sums of the specifications need.                               *)

\* A sum of integers is an integer.
LEMMA SumType ==
    ASSUME NEW S, IsFiniteSet(S), NEW f, \A x \in S : f[x] \in Int
    PROVE  SumFunctionOnSet(f, S) \in Int
<1> DEFINE B == {s \in SUBSET S : SumFunctionOnSet(f, s) \notin Int}
<1>1. SUFFICES ASSUME B # {} PROVE FALSE
  OBVIOUS
<1>2. PICK s \in B : \A v \in B : v \subseteq s => v = s
  <2> HIDE DEF B
  <2>1. B \in SUBSET SUBSET S
    BY DEF B
  <2> QED BY <1>1, <2>1, SmallestSubset
<1>3. IsFiniteSet(s)
  BY FS_Subset
<1>4. s # {}
  <2>1. SumFunctionOnSet(f, s) \notin Int
    BY <1>2
  <2> QED BY <2>1, SumEmpty
<1>5. Pick(s) \in s
  BY <1>4, PickIn
<1>6. SumFunctionOnSet(f, s \ {Pick(s)}) \in Int
  BY <1>2, <1>5
<1>7. SumFunctionOnSet(f, s) = f[Pick(s)] + SumFunctionOnSet(f, s \ {Pick(s)})
  BY <1>3, <1>4, SumUnfolds
<1> QED BY <1>2, <1>5, <1>6, <1>7

\* The sum of f is that of g and of what f has more than g at one place.
LEMMA SumChange ==
    ASSUME NEW S, IsFiniteSet(S), NEW f, NEW g, NEW x,
           \A y \in S : f[y] \in Int /\ g[y] \in Int /\ (y # x => f[y] = g[y])
    PROVE  SumFunctionOnSet(f, S) =
              SumFunctionOnSet(g, S) + (IF x \in S THEN f[x] - g[x] ELSE 0)
<1> DEFINE More(s) == SumFunctionOnSet(g, s) + (IF x \in s THEN f[x] - g[x] ELSE 0)
           B == {s \in SUBSET S : SumFunctionOnSet(f, s) # More(s)}
<1>1. SUFFICES ASSUME B # {} PROVE FALSE
  OBVIOUS
<1>2. PICK s \in B : \A v \in B : v \subseteq s => v = s
  <2> HIDE DEF B
  <2>1. B \in SUBSET SUBSET S
    BY DEF B
  <2> QED BY <1>1, <2>1, SmallestSubset
<1>3. IsFiniteSet(s) /\ s \in SUBSET S
  BY FS_Subset
<1>4. s # {}
  <2>1. SumFunctionOnSet(f, s) # More(s)
    BY <1>2
  <2>2. SumFunctionOnSet(f, {}) = 0 /\ SumFunctionOnSet(g, {}) = 0
    BY SumEmpty
  <2>3. More({}) = 0
    BY <2>2
  <2> QED BY <2>1, <2>2, <2>3
<1> DEFINE p == Pick(s)
           t == s \ {p}
<1>5. p \in s
  BY <1>4, PickIn
<1>6. /\ SumFunctionOnSet(f, s) = f[p] + SumFunctionOnSet(f, t)
      /\ SumFunctionOnSet(g, s) = g[p] + SumFunctionOnSet(g, t)
  BY <1>3, <1>4, SumUnfolds
<1>7. SumFunctionOnSet(f, t) = More(t)
  BY <1>2, <1>5
<1>8. SumFunctionOnSet(g, t) \in Int
  BY <1>3, FS_Subset, SumType
<1> HIDE DEF p
<1>9. CASE p = x
  BY <1>2, <1>3, <1>5, <1>6, <1>7, <1>8, <1>9
<1>10. CASE p # x
  BY <1>2, <1>3, <1>5, <1>6, <1>7, <1>8, <1>10
<1> QED BY <1>9, <1>10

\* A sum is monotone in its values.
LEMMA SumMonotone ==
    ASSUME NEW S, IsFiniteSet(S), NEW f, NEW g,
           \A y \in S : f[y] \in Int /\ g[y] \in Int /\ f[y] <= g[y]
    PROVE  SumFunctionOnSet(f, S) <= SumFunctionOnSet(g, S)
<1> DEFINE B == {s \in SUBSET S : ~ SumFunctionOnSet(f, s) <= SumFunctionOnSet(g, s)}
<1>1. SUFFICES ASSUME B # {} PROVE FALSE
  OBVIOUS
<1>2. PICK s \in B : \A v \in B : v \subseteq s => v = s
  <2> HIDE DEF B
  <2>1. B \in SUBSET SUBSET S
    BY DEF B
  <2> QED BY <1>1, <2>1, SmallestSubset
<1>3. IsFiniteSet(s) /\ s \in SUBSET S
  BY FS_Subset
<1>4. s # {}
  BY <1>2, SumEmpty
<1> DEFINE p == Pick(s)
           t == s \ {p}
<1>5. p \in s
  BY <1>4, PickIn
<1>6. /\ SumFunctionOnSet(f, s) = f[p] + SumFunctionOnSet(f, t)
      /\ SumFunctionOnSet(g, s) = g[p] + SumFunctionOnSet(g, t)
  BY <1>3, <1>4, SumUnfolds
<1>7. SumFunctionOnSet(f, t) <= SumFunctionOnSet(g, t)
  BY <1>2, <1>5
<1>8. SumFunctionOnSet(g, t) \in Int /\ SumFunctionOnSet(f, t) \in Int
  BY <1>3, FS_Subset, SumType
<1> HIDE DEF p
<1> QED BY <1>2, <1>3, <1>5, <1>6, <1>7, <1>8

\* A sum of one value.
LEMMA SumConstant ==
    ASSUME NEW S, IsFiniteSet(S), NEW f, NEW c \in Int, \A y \in S : f[y] = c
    PROVE  SumFunctionOnSet(f, S) = Cardinality(S) * c
<1> DEFINE B == {s \in SUBSET S : SumFunctionOnSet(f, s) # Cardinality(s) * c}
<1>1. SUFFICES ASSUME B # {} PROVE FALSE
  OBVIOUS
<1>2. PICK s \in B : \A v \in B : v \subseteq s => v = s
  <2> HIDE DEF B
  <2>1. B \in SUBSET SUBSET S
    BY DEF B
  <2> QED BY <1>1, <2>1, SmallestSubset
<1>3. IsFiniteSet(s) /\ s \in SUBSET S
  BY FS_Subset
<1>4. s # {}
  <2>1. Cardinality({}) = 0
    BY FS_EmptySet
  <2>2. 0 * c = 0
    OBVIOUS
  <2> QED BY <1>2, <2>1, <2>2, SumEmpty
<1> DEFINE p == Pick(s)
           t == s \ {p}
<1>5. p \in s
  BY <1>4, PickIn
<1>6. SumFunctionOnSet(f, s) = f[p] + SumFunctionOnSet(f, t)
  BY <1>3, <1>4, SumUnfolds
<1>7. SumFunctionOnSet(f, t) = Cardinality(t) * c
  BY <1>2, <1>5
<1>8. Cardinality(t) = Cardinality(s) - 1 /\ Cardinality(s) \in Nat
  BY <1>3, <1>5, FS_RemoveElement, FS_CardinalityType
<1>9. \A n \in Nat : n * c = c + (n - 1) * c
  OBVIOUS
<1> HIDE DEF p
<1> QED BY <1>2, <1>3, <1>5, <1>6, <1>7, <1>8, <1>9

\* A sum of naturals is a natural.
LEMMA SumNat ==
    ASSUME NEW S, IsFiniteSet(S), NEW f, \A x \in S : f[x] \in Nat
    PROVE  SumFunctionOnSet(f, S) \in Nat
<1> DEFINE zero == [x \in S |-> 0]
<1>1. SumFunctionOnSet(zero, S) = Cardinality(S) * 0
  BY SumConstant
<1>2. Cardinality(S) * 0 = 0
  BY FS_CardinalityType
<1>3. SumFunctionOnSet(zero, S) <= SumFunctionOnSet(f, S)
  BY SumMonotone
<1>4. SumFunctionOnSet(f, S) \in Int
  BY SumType
<1> QED BY <1>1, <1>2, <1>3, <1>4

\* Two functions with the same values have the same sum.
LEMMA SumCongruent ==
    ASSUME NEW S, IsFiniteSet(S), NEW f, NEW g,
           \A y \in S : f[y] \in Int /\ f[y] = g[y]
    PROVE  SumFunctionOnSet(f, S) = SumFunctionOnSet(g, S)
<1>1. /\ SumFunctionOnSet(f, S) <= SumFunctionOnSet(g, S)
      /\ SumFunctionOnSet(g, S) <= SumFunctionOnSet(f, S)
  BY SumMonotone
<1>2. SumFunctionOnSet(f, S) \in Int /\ SumFunctionOnSet(g, S) \in Int
  BY SumType
<1> QED BY <1>1, <1>2

\* One element more, wherever it is in the order of the fold.
LEMMA SumOneMore ==
    ASSUME NEW S, IsFiniteSet(S), NEW f, \A y \in S : f[y] \in Int,
           NEW x \in S
    PROVE  SumFunctionOnSet(f, S) = SumFunctionOnSet(f, S \ {x}) + f[x]
<1> DEFINE Wrong(s, y) == SumFunctionOnSet(f, s) # SumFunctionOnSet(f, s \ {y}) + f[y]
           B == {s \in SUBSET S : \E y \in s : Wrong(s, y)}
<1>1. SUFFICES ASSUME B # {} PROVE FALSE
  <2>1. S \notin B => ~Wrong(S, x)
    OBVIOUS
  <2> QED BY <1>1, <2>1
<1>2. PICK s \in B : \A v \in B : v \subseteq s => v = s
  <2> HIDE DEF B
  <2>1. B \in SUBSET SUBSET S
    BY DEF B
  <2> QED BY <1>1, <2>1, SmallestSubset
<1>3. PICK y \in s : Wrong(s, y)
  BY <1>2
<1>4. IsFiniteSet(s) /\ s \in SUBSET S /\ s # {}
  BY <1>2, <1>3, FS_Subset
<1> DEFINE p == Pick(s)
           t == s \ {p}
<1>5. p \in s
  BY <1>4, PickIn
<1>6. SumFunctionOnSet(f, s) = f[p] + SumFunctionOnSet(f, t)
  BY <1>4, SumUnfolds
<1>7. \A u \in SUBSET s : SumFunctionOnSet(f, u) \in Int
  <2> TAKE u \in SUBSET s
  <2>1. IsFiniteSet(u) /\ u \subseteq S
    BY <1>4, FS_Subset
  <2> QED BY <2>1, SumType
<1> HIDE DEF p
<1>8. p # y
  BY <1>3, <1>4, <1>5, <1>6, <1>7
<1>9. ~Wrong(t, y) /\ ~Wrong(s \ {y}, p)
  <2>1. t \notin B /\ s \ {y} \notin B
    BY <1>2, <1>3, <1>5
  <2>2. y \in t /\ p \in s \ {y} /\ t \in SUBSET S /\ s \ {y} \in SUBSET S
    BY <1>3, <1>4, <1>5, <1>8
  <2> HIDE DEF Wrong, t
  <2> QED BY <2>1, <2>2
<1>10. SumFunctionOnSet(f, t \ {y}) = SumFunctionOnSet(f, (s \ {y}) \ {p})
  <2>1. t \ {y} = (s \ {y}) \ {p}
    OBVIOUS
  <2> HIDE DEF t
  <2> QED BY <2>1
<1>11. /\ f[p] \in Int /\ f[y] \in Int /\ SumFunctionOnSet(f, t) \in Int
       /\ SumFunctionOnSet(f, s \ {y}) \in Int /\ SumFunctionOnSet(f, t \ {y}) \in Int
  BY <1>3, <1>4, <1>5, <1>7
<1>12. f[p] + (SumFunctionOnSet(f, t \ {y}) + f[y]) # SumFunctionOnSet(f, s \ {y}) + f[y]
  <2> HIDE DEF t, B
  <2> QED BY <1>3, <1>6, <1>9
<1>13. SumFunctionOnSet(f, s \ {y}) = SumFunctionOnSet(f, t \ {y}) + f[p]
  <2> HIDE DEF t, B
  <2> QED BY <1>9, <1>10
<1> HIDE DEF t, B, Wrong
<1> QED BY <1>11, <1>12, <1>13

\* A sum over the numbers up to n.
LEMMA SumUpTo ==
    ASSUME NEW n \in Nat, NEW f, \A i \in 1 .. n + 1 : f[i] \in Int
    PROVE  /\ SumFunctionOnSet(f, 1 .. n + 1) = SumFunctionOnSet(f, 1 .. n) + f[n + 1]
           /\ SumFunctionOnSet(f, 1 .. n) \in Int
<1>1. IsFiniteSet(1 .. n + 1) /\ IsFiniteSet(1 .. n)
  BY FS_Interval
<1>2. (1 .. n + 1) \ {n + 1} = 1 .. n /\ n + 1 \in 1 .. n + 1
  OBVIOUS
<1>3. SumFunctionOnSet(f, 1 .. n + 1) = SumFunctionOnSet(f, (1 .. n + 1) \ {n + 1}) + f[n + 1]
  BY <1>1, <1>2, SumOneMore
<1>4. \A i \in 1 .. n : f[i] \in Int
  OBVIOUS
<1> QED BY <1>1, <1>2, <1>3, <1>4, SumType

\* One place less, the places behind it moved up.
LEMMA SumWithout ==
    ASSUME NEW n \in Nat, NEW f, \A i \in 1 .. n : f[i] \in Int, NEW p \in 1 .. n,
           NEW g, \A i \in 1 .. n - 1 : g[i] = IF i < p THEN f[i] ELSE f[i + 1]
    PROVE  SumFunctionOnSet(g, 1 .. n - 1) = SumFunctionOnSet(f, 1 .. n) - f[p]
<1> DEFINE F(k) == SumFunctionOnSet(f, 1 .. k)
           G(k) == SumFunctionOnSet(g, 1 .. k)
           B == {k \in p .. n : G(k - 1) # F(k) - f[p]}
<1>1. SUFFICES ASSUME B # {} PROVE FALSE
  OBVIOUS
<1>2. PICK k \in B : \A m \in B : k <= m
  <2>1. B \in SUBSET Nat
    OBVIOUS
  <2> HIDE DEF B
  <2> QED BY <1>1, <2>1, LeastNat
<1>3. k \in p .. n /\ G(k - 1) # F(k) - f[p]
  BY <1>2
<1>4. F(k) = F(k - 1) + f[k] /\ F(k - 1) \in Int
  <2>1. k - 1 \in Nat /\ k - 1 + 1 = k /\ \A i \in 1 .. k - 1 + 1 : f[i] \in Int
    BY <1>3
  <2> HIDE DEF B
  <2> QED BY <2>1, SumUpTo
<1>5. CASE k = p
  <2>1. \A i \in 1 .. p - 1 : g[i] \in Int /\ g[i] = f[i]
    OBVIOUS
  <2>2. G(p - 1) = F(p - 1)
    <3>1. IsFiniteSet(1 .. p - 1)
      BY FS_Interval
    <3> HIDE DEF B
    <3> QED BY <2>1, <3>1, SumCongruent
  <2> HIDE DEF F, G, B
  <2> QED BY <1>3, <1>4, <1>5, <2>2
<1>6. CASE k # p
  <2>1. k - 1 \in p .. n /\ k - 1 \notin B
    BY <1>2, <1>3, <1>6
  <2>2. G(k - 2) = F(k - 1) - f[p]
    BY <2>1
  <2>3. G(k - 1) = G(k - 2) + g[k - 1]
    <3>1. k - 2 \in Nat /\ k - 2 + 1 = k - 1 /\ \A i \in 1 .. k - 2 + 1 : g[i] \in Int
      BY <1>3, <2>1
    <3> HIDE DEF B
    <3> QED BY <3>1, SumUpTo
  <2>4. g[k - 1] = f[k] /\ f[k] \in Int /\ f[p] \in Int
    BY <1>3, <1>6
  <2> HIDE DEF F, G, B
  <2> QED BY <1>3, <1>4, <2>2, <2>3, <2>4
<1> QED BY <1>5, <1>6

=============================================================================
