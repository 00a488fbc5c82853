----------------------------- MODULE ZSet_proofs -----------------------------
(***************************************************************************)
(* The skip list and the dict of a sorted set stay what the runs check     *)
(* them to be.                                                             *)
(*                                                                         *)
(* A list is whole when its nodes can be numbered (pos): the header has 0, *)
(* the last node the length; a link goes to the next number that reaches   *)
(* its level, and its span is the difference; level 1 is in order of       *)
(* scores and names; back pointers and the tail agree with pos; no node is *)
(* higher than the list (Whole).                                           *)
(*                                                                         *)
(* Every search of t_zset.c crosses the first k nodes, for a k (Cut), and  *)
(* therefore ends on each level at the last node up to k that reaches it   *)
(* (SearchStops).  zslInsert and zslDeleteNode then change these nodes,    *)
(* and the list is whole with the numbers behind k moved by one.  In order *)
(* means that zslDelete finds a member, which ZADD and ZREM assert; this   *)
(* needs scores that compare, so no NaN.                                   *)
(*                                                                         *)
(* No command but the two stores can make a NaN, and these only from a     *)
(* weight that is zero or infinite (FiniteWeights).                        *)
(***************************************************************************)
EXTENDS ZSet, Recursion_proofs, SequenceTheorems

-----------------------------------------------------------------------------
(* Skip lists that are whole.                                              *)

Scores == -Inf .. Inf
Link == [forward : Elems \cup {NULL}, span : Nat]
Node == [score : Scores, backward : Elems \cup {NULL},
         level : UNION {[1 .. h -> Link] : h \in Heights}]
SkipLists == [level : Heights, length : Nat, tail : Elems \cup {NULL},
              node : UNION {[{Header} \cup S -> Node] : S \in SUBSET Elems}]

Members(z) == DOMAIN z.node \ {Header}
Up(z, x, i) == i \in DOMAIN z.node[x].level

\* pos numbers the nodes from the header, which has 0, without a gap.
Numbered(z, pos) ==
    /\ pos \in [DOMAIN z.node -> 0 .. z.length] /\ pos[Header] = 0
    /\ \A x \in Members(z) : pos[x] # 0
    /\ \A x, y \in DOMAIN z.node : pos[x] = pos[y] => x = y
    /\ \A k \in 0 .. z.length : \E x \in DOMAIN z.node : pos[x] = k

\* Every node as high as level i is at m or before.
NoneUpAfter(z, pos, m, i) == \A y \in Members(z) : Up(z, y, i) => pos[y] <= m

\* The link l of x on level i goes to the next node on it, and spans what it
\* skips; the last one spans the rest of the list.
LinkOK(z, pos, x, i, l) ==
    \/ /\ l.forward = NULL /\ l.span = z.length - pos[x]
       /\ NoneUpAfter(z, pos, pos[x], i)
    \/ /\ l.forward \in Members(z) /\ Up(z, l.forward, i)
       /\ pos[l.forward] > pos[x] /\ l.span = pos[l.forward] - pos[x]
       /\ \A y \in Members(z) : Up(z, y, i) /\ pos[y] > pos[x] => pos[l.forward] <= pos[y]

Linked(z, pos) ==
    \A x \in DOMAIN z.node : \A i \in DOMAIN z.node[x].level :
        i <= z.level => LinkOK(z, pos, x, i, z.node[x].level[i])

\* No member is higher than the list, and the header has every level.
Topped(z) ==
    /\ DOMAIN z.node[Header].level = Heights
    /\ \A i \in Heights : i > z.level => z.node[Header].level[i].forward = NULL
    /\ \A x \in Members(z) : \A i \in DOMAIN z.node[x].level : i <= z.level

Backed(z, pos) ==
    /\ \A x \in Members(z) :
          IF pos[x] = 1 THEN z.node[x].backward = NULL
          ELSE /\ z.node[x].backward \in Members(z)
               /\ pos[z.node[x].backward] = pos[x] - 1
    /\ IF z.length = 0 THEN z.tail = NULL
       ELSE z.tail \in Members(z) /\ pos[z.tail] = z.length

Ordered(z, pos) ==
    \A x, y \in Members(z) : pos[x] < pos[y] => Before(z, x, z.node[y].score, y)

Whole(z, pos) ==
    /\ z \in SkipLists
    /\ Numbered(z, pos) /\ Linked(z, pos) /\ Topped(z) /\ Backed(z, pos) /\ Ordered(z, pos)

\* What the set of skip lists says of one.
LEMMA ListIs ==
    ASSUME NEW z \in SkipLists
    PROVE  /\ z = [level |-> z.level, length |-> z.length, tail |-> z.tail, node |-> z.node]
           /\ z.level \in Heights /\ z.level \in Nat \ {0} /\ z.length \in Nat
           /\ z.tail \in Elems \cup {NULL}
           /\ z.node \in [DOMAIN z.node -> Node]
           /\ Header \in DOMAIN z.node /\ Members(z) \subseteq Elems
           /\ DOMAIN z.node = {Header} \cup Members(z)
<1>1. PICK S \in SUBSET Elems : z.node \in [{Header} \cup S -> Node]
  BY DEF SkipLists
<1>2. DOMAIN z.node = {Header} \cup S
  BY <1>1
<1>3. Members(z) = S
  BY <1>2, ZSetAssumption DEF Members
<1> QED BY <1>1, <1>2, <1>3, ZSetAssumption DEF SkipLists, Heights

\* What it says of a node.
LEMMA NodeIs ==
    ASSUME NEW n \in Node
    PROVE  /\ n = [score |-> n.score, backward |-> n.backward, level |-> n.level]
           /\ n.score \in Scores /\ n.backward \in Elems \cup {NULL}
           /\ \E h \in Heights : n.level \in [1 .. h -> Link] /\ DOMAIN n.level = 1 .. h
           /\ DOMAIN n.level \subseteq Heights /\ 1 \in DOMAIN n.level
           /\ \A i \in DOMAIN n.level :
                 /\ n.level[i] = [forward |-> n.level[i].forward, span |-> n.level[i].span]
                 /\ n.level[i].forward \in Elems \cup {NULL} /\ n.level[i].span \in Nat
           /\ \A i \in DOMAIN n.level : \A j \in 1 .. i : j \in DOMAIN n.level
<1>1. PICK h \in Heights : n.level \in [1 .. h -> Link]
  BY DEF Node
<1>2. DOMAIN n.level = 1 .. h /\ h \in Nat \ {0} /\ 1 .. h \subseteq Heights
  BY <1>1, ZSetAssumption DEF Heights
<1>3. \A i \in DOMAIN n.level : n.level[i] \in Link
  BY <1>1, <1>2
<1>4. \A l \in Link : l = [forward |-> l.forward, span |-> l.span]
                      /\ l.forward \in Elems \cup {NULL} /\ l.span \in Nat
  BY DEF Link
<1>5. n = [score |-> n.score, backward |-> n.backward, level |-> n.level]
      /\ n.score \in Scores /\ n.backward \in Elems \cup {NULL}
  BY DEF Node
<1>6. \A i \in DOMAIN n.level : \A j \in 1 .. i : j \in DOMAIN n.level
  BY <1>2
<1>7. 1 \in DOMAIN n.level
  BY <1>2
<1>8. \E g \in Heights : n.level \in [1 .. g -> Link] /\ DOMAIN n.level = 1 .. g
  BY <1>1, <1>2
<1>9. DOMAIN n.level \subseteq Heights
  BY <1>2
<1> QED BY ONLY <1>3, <1>4, <1>5, <1>6, <1>7, <1>8, <1>9

\* A link of a list that is whole.
LEMMA LinkIs ==
    ASSUME NEW z, NEW pos, Whole(z, pos), NEW x \in DOMAIN z.node, NEW i, Up(z, x, i)
    PROVE  /\ i \in Heights /\ i \in Nat \ {0}
           /\ z.node[x].level[i] = [forward |-> z.node[x].level[i].forward,
                                    span |-> z.node[x].level[i].span]
           /\ z.node[x].level[i].forward \in Elems \cup {NULL}
           /\ z.node[x].level[i].span \in Nat
           /\ i <= z.level => LinkOK(z, pos, x, i, z.node[x].level[i])
<1>1. z.node[x] \in Node
  BY ListIs DEF Whole
<1>2. i \in Heights /\ i \in Nat \ {0}
  BY <1>1, NodeIs, ZSetAssumption DEF Up, Heights
<1>3. i <= z.level => LinkOK(z, pos, x, i, z.node[x].level[i])
  BY DEF Whole, Linked, Up
<1> QED BY <1>1, <1>2, <1>3, NodeIs DEF Up

LEMMA LinkRecord ==
    ASSUME NEW z, NEW pos, Whole(z, pos), NEW x, x \in DOMAIN z.node, NEW i, Up(z, x, i),
           NEW l, l = z.node[x].level[i]
    PROVE  l = [forward |-> l.forward, span |-> l.span]
BY LinkIs

LEMMA LinkHolds ==
    ASSUME NEW z, NEW pos, Whole(z, pos), NEW x, x \in DOMAIN z.node, NEW i, Up(z, x, i),
           i <= z.level, NEW l, l = z.node[x].level[i]
    PROVE  LinkOK(z, pos, x, i, l)
BY LinkIs

\* A link of the header above every node.
LEMMA EmptyLevelHolds ==
    ASSUME NEW z, NEW pos, NEW i, z.length \in Nat, pos[Header] = 0,
           \A y \in Members(z) : ~Up(z, y, i)
    PROVE  LinkOK(z, pos, Header, i, [forward |-> NULL, span |-> z.length])
BY DEF LinkOK, NoneUpAfter

-----------------------------------------------------------------------------
(* Searches.                                                               *)

\* A search crosses the first k nodes.
Cut(z, pos, cross, k) ==
    /\ k \in 0 .. z.length
    /\ \A x \in Members(z) : cross[[node |-> x, rank |-> pos[x]]] <=> pos[x] <= k

\* A place on level i that is not behind them.
Way(z, pos, k, i, p) ==
    /\ p \in Places(z) /\ Up(z, p.node, i)
    /\ p.rank = pos[p.node] /\ pos[p.node] <= k

\* The last such place.
Stop(z, pos, k, i, p) ==
    /\ Way(z, pos, k, i, p)
    /\ \A y \in Members(z) : Up(z, y, i) /\ pos[y] <= k => pos[y] <= pos[p.node]

OnLevel(z, i) == {q \in Places(z) : i \in DOMAIN z.node[q.node].level}

\* One turn of a walk, the rest of it given.
Onward(z, i, p) == [node |-> z.node[p.node].level[i].forward,
                   rank |-> p.rank + z.node[p.node].level[i].span]
Walking(z, i, cross, f, p) ==
    IF z.node[p.node].level[i].forward # NULL /\ cross[Onward(z, i, p)]
    THEN f[Onward(z, i, p)] ELSE p
IsWalk(z, i, cross, f) == f = [p \in OnLevel(z, i) |-> Walking(z, i, cross, f, p)]

\* The walk, its recursive part named.
LEMMA AlongIs ==
    ASSUME NEW z, NEW i, NEW cross
    PROVE  Along(z, i, cross) = CHOOSE f : IsWalk(z, i, cross, f)
BY DEF Along, IsWalk, Walking, Onward, OnLevel

\* Where a walk goes on.
LEMMA OnwardIs ==
    ASSUME NEW z, NEW pos, Whole(z, pos), NEW i \in 1 .. z.level, NEW p \in OnLevel(z, i),
           z.node[p.node].level[i].forward # NULL
    PROVE  /\ Onward(z, i, p) \in OnLevel(z, i)
           /\ Onward(z, i, p).node = z.node[p.node].level[i].forward
           /\ Onward(z, i, p).node \in Members(z)
           /\ pos[Onward(z, i, p).node] > pos[p.node]
           /\ Onward(z, i, p).rank = p.rank + (pos[Onward(z, i, p).node] - pos[p.node])
           /\ \A y \in Members(z) : Up(z, y, i) /\ pos[y] > pos[p.node] =>
                 pos[Onward(z, i, p).node] <= pos[y]
<1> DEFINE x == p.node
           l == z.node[x].level[i]
<1>1. x \in DOMAIN z.node /\ p.rank \in Int /\ Up(z, x, i)
  BY DEF OnLevel, Places, Up
<1>2. LinkOK(z, pos, x, i, l)
  <2>1. z.level \in Nat
    BY ListIs DEF Whole
  <2>2. i <= z.level
    BY <2>1
  <2> QED BY <1>1, <2>2, LinkIs
<1>3. /\ l.forward \in Members(z) /\ Up(z, l.forward, i)
      /\ pos[l.forward] > pos[x] /\ l.span = pos[l.forward] - pos[x]
      /\ \A y \in Members(z) : Up(z, y, i) /\ pos[y] > pos[x] => pos[l.forward] <= pos[y]
  BY <1>2 DEF LinkOK
<1>4. l.span \in Nat
  BY <1>1, LinkIs
<1>5. Onward(z, i, p) = [node |-> l.forward, rank |-> p.rank + l.span]
  BY DEF Onward
<1>6. l.forward = z.node[p.node].level[i].forward /\ x = p.node
  OBVIOUS
<1> HIDE DEF l, x
<1>7. Onward(z, i, p) \in Places(z)
  BY <1>1, <1>3, <1>4, <1>5 DEF Places, Members
<1>8. Onward(z, i, p).node = l.forward /\ Onward(z, i, p).rank = p.rank + l.span
  BY <1>5
<1>9. Onward(z, i, p) \in OnLevel(z, i)
  BY <1>3, <1>7, <1>8 DEF OnLevel, Up
<1> QED BY <1>3, <1>6, <1>8, <1>9

\* There is a walk from each place.
LEMMA WalkExists ==
    ASSUME NEW z, NEW pos, Whole(z, pos), NEW i \in 1 .. z.level, NEW cross
    PROVE  IsWalk(z, i, cross, Along(z, i, cross))
<1> DEFINE D == OnLevel(z, i)
           m == [p \in D |-> z.length - pos[p.node]]
           F == [a \in D \X [D -> D] |-> Walking(z, i, cross, a[2], a[1])]
<1>0. \A p \in D : p.node \in DOMAIN z.node
  BY DEF OnLevel, Places
<1>1. z.length \in Nat /\ \A x \in DOMAIN z.node : pos[x] \in 0 .. z.length
  BY ListIs DEF Whole, Numbered
<1>2. m \in [D -> Nat]
  BY <1>0, <1>1
<1>3. \A p \in D : z.node[p.node].level[i].forward # NULL =>
                      Onward(z, i, p) \in D /\ m[Onward(z, i, p)] < m[p]
  <2> SUFFICES ASSUME NEW p \in D, z.node[p.node].level[i].forward # NULL
               PROVE  Onward(z, i, p) \in D /\ m[Onward(z, i, p)] < m[p]
    OBVIOUS
  <2>1. Onward(z, i, p) \in D /\ pos[Onward(z, i, p).node] > pos[p.node]
    BY OnwardIs
  <2>2. m[p] = z.length - pos[p.node]
        /\ m[Onward(z, i, p)] = z.length - pos[Onward(z, i, p).node]
    BY <2>1
  <2> HIDE DEF D, m
  <2> QED BY <1>0, <1>1, <2>1, <2>2
<1>4. F \in [D \X [D -> D] -> D]
  <2> SUFFICES ASSUME NEW p \in D, NEW h \in [D -> D]
               PROVE  Walking(z, i, cross, h, p) \in D
    OBVIOUS
  <2> HIDE DEF D, m
  <2> QED BY <1>3 DEF Walking
<1>5. Descends(D, D, F, m)
  <2>1. ASSUME NEW p \in D, NEW g \in [D -> D], NEW h \in [D -> D],
               \A y \in D : m[y] < m[p] => g[y] = h[y]
        PROVE  F[<<p, g>>] = F[<<p, h>>]
    <3>1. F[<<p, g>>] = Walking(z, i, cross, g, p) /\ F[<<p, h>>] = Walking(z, i, cross, h, p)
      OBVIOUS
    <3> HIDE DEF D, m, F
    <3> QED BY <1>3, <2>1, <3>1 DEF Walking
  <2> HIDE DEF D, m, F
  <2> QED BY <1>2, <1>4, <2>1 DEF Descends
<1>6. [D -> D] # {}
  <2>1. [p \in D |-> p] \in [D -> D]
    OBVIOUS
  <2> QED BY <2>1
<1>7. PICK h \in [D -> D] : h = [p \in D |-> F[<<p, h>>]]
  <2> HIDE DEF D, F, m
  <2> QED BY ONLY <1>5, <1>6, RecursionSolved
<1>8. \A p \in D : F[<<p, h>>] = Walking(z, i, cross, h, p)
  OBVIOUS
<1>9. IsWalk(z, i, cross, h)
  <2> HIDE DEF F
  <2> QED BY <1>7, <1>8 DEF IsWalk
<1>10. Along(z, i, cross) = CHOOSE f : IsWalk(z, i, cross, f)
  BY AlongIs
<1> HIDE DEF D, F, m
<1> QED BY <1>9, <1>10

\* A walk stops at the last place before the cut.
LEMMA WalkStops ==
    ASSUME NEW z, NEW pos, Whole(z, pos), NEW i \in 1 .. z.level,
           NEW cross, NEW k, Cut(z, pos, cross, k), NEW p, Way(z, pos, k, i, p)
    PROVE  Stop(z, pos, k, i, Along(z, i, cross)[p])
<1> DEFINE f == Along(z, i, cross)
           D == {q \in OnLevel(z, i) : Way(z, pos, k, i, q)}
           W == {z.length - pos[q.node] : q \in {r \in D : ~Stop(z, pos, k, i, f[r])}}
<1>1. z.length \in Nat /\ \A x \in DOMAIN z.node : pos[x] \in 0 .. z.length
  BY ListIs DEF Whole, Numbered
<1>2. k \in 0 .. z.length
  BY DEF Cut
<1>3. \A q \in OnLevel(z, i) : f[q] = Walking(z, i, cross, f, q)
  <2>1. f = [q \in OnLevel(z, i) |-> Walking(z, i, cross, f, q)]
    BY WalkExists DEF IsWalk
  <2> HIDE DEF f
  <2> QED BY <2>1
<1> HIDE DEF f
<1>4. p \in D
  BY DEF Way, OnLevel, Up
<1>5. ASSUME W # {} PROVE FALSE
  <2>0. \A q \in D : q.node \in DOMAIN z.node
    BY DEF OnLevel, Places
  <2>1. W \in SUBSET Nat
    BY <1>1, <2>0
  <2>2. PICK n \in W : \A m \in W : n <= m
    <3> HIDE DEF W
    <3> QED BY <1>5, <2>1, LeastNat
  <2>3. PICK q \in D : n = z.length - pos[q.node] /\ ~Stop(z, pos, k, i, f[q])
    BY <2>2
  <2>4. q \in OnLevel(z, i) /\ q.node \in DOMAIN z.node /\ Way(z, pos, k, i, q)
        /\ q.rank = pos[q.node] /\ pos[q.node] <= k /\ pos[q.node] \in 0 .. z.length
    BY <1>1, <2>0 DEF Way
  <2> DEFINE l == z.node[q.node].level[i]
             next == Onward(z, i, q)
  <2>5. f[q] = IF l.forward # NULL /\ cross[next] THEN f[next] ELSE q
    BY <1>3, <2>4 DEF Walking
  <2>6. CASE l.forward = NULL
    <3>1. LinkOK(z, pos, q.node, i, l)
      <4>1. z.level \in Nat
        BY ListIs DEF Whole
      <4>2. i <= z.level /\ Up(z, q.node, i)
        BY <2>4, <4>1 DEF OnLevel, Up
      <4> QED BY <2>4, <4>2, LinkIs
    <3>2. NoneUpAfter(z, pos, pos[q.node], i)
      <4>1. NULL \notin Members(z)
        BY ListIs, ZSetAssumption DEF Whole
      <4> QED BY <2>6, <3>1, <4>1 DEF LinkOK
    <3>3. Stop(z, pos, k, i, q)
      BY <2>4, <3>2 DEF Stop, NoneUpAfter
    <3> QED BY <2>3, <2>5, <2>6, <3>3
  <2>7. CASE l.forward # NULL
    <3>1. /\ next \in OnLevel(z, i) /\ next.node \in Members(z)
          /\ pos[next.node] > pos[q.node]
          /\ next.rank = q.rank + (pos[next.node] - pos[q.node])
          /\ \A y \in Members(z) : Up(z, y, i) /\ pos[y] > pos[q.node] => pos[next.node] <= pos[y]
      BY <2>4, <2>7, OnwardIs
    <3>2. pos[next.node] \in 0 .. z.length /\ next.rank = pos[next.node]
      BY <1>1, <2>4, <3>1 DEF Members
    <3>3. next = [node |-> next.node, rank |-> pos[next.node]]
      <4>1. next \in Places(z)
        BY <3>1 DEF OnLevel
      <4> HIDE DEF next
      <4> QED BY <3>2, <4>1 DEF Places
    <3>4. cross[next] <=> pos[next.node] <= k
      <4> HIDE DEF next
      <4> QED BY <3>1, <3>3 DEF Cut
    <3> HIDE DEF next, l
    <3>5. CASE pos[next.node] <= k
      <4>1. Way(z, pos, k, i, next)
        BY <3>1, <3>2, <3>5 DEF Way, OnLevel, Up
      <4>2. next \in D /\ z.length - pos[next.node] < n
        BY <1>1, <2>3, <2>4, <3>1, <3>2, <4>1
      <4>3. Stop(z, pos, k, i, f[next])
        <5>1. z.length - pos[next.node] \notin W
          <6> HIDE DEF W
          <6> QED BY <1>1, <2>2, <2>1, <3>2, <4>2
        <5> QED BY <4>2, <5>1
      <4> QED BY <2>3, <2>5, <2>7, <3>4, <3>5, <4>3
    <3>6. CASE ~(pos[next.node] <= k)
      <4>1. \A y \in Members(z) : Up(z, y, i) /\ pos[y] <= k => pos[y] <= pos[q.node]
        <5> SUFFICES ASSUME NEW y \in Members(z), Up(z, y, i), pos[y] <= k, pos[y] > pos[q.node]
                     PROVE  FALSE
          BY <1>1, <2>4 DEF Members
        <5>1. pos[next.node] <= pos[y] /\ pos[y] \in 0 .. z.length
          BY <1>1, <3>1 DEF Members
        <5> QED BY <1>1, <1>2, <3>2, <3>6, <5>1
      <4>2. Stop(z, pos, k, i, q)
        BY <2>4, <4>1 DEF Stop
      <4> QED BY <2>3, <2>5, <3>4, <3>6, <4>2
    <3> QED BY <3>5, <3>6
  <2> QED BY <2>6, <2>7
<1>6. Stop(z, pos, k, i, f[p])
  BY <1>4, <1>5
<1> QED BY <1>6 DEF f

\* One level of a search more, given those above.
Deeper(z, cross, n, above) ==
    LET start == IF n = 1 THEN [node |-> Header, rank |-> 0] ELSE above[1]
    IN  <<Along(z, z.level + 1 - n, cross)[start]>> \o above
IsDescent(z, cross, h) ==
    h = [n \in 0 .. z.level |-> IF n = 0 THEN <<>> ELSE Deeper(z, cross, n, h[n - 1])]

\* The search, its recursive part named.
LEMMA SearchIs ==
    ASSUME NEW z, NEW cross
    PROVE  Search(z, cross) = (CHOOSE h : IsDescent(z, cross, h))[z.level]
BY DEF Search, IsDescent, Deeper

\* The places where a search stops on the upper n levels.
Stops(z, pos, k, n) ==
    {s \in [1 .. n -> Places(z)] : \A j \in 1 .. n : Stop(z, pos, k, z.level - n + j, s[j])}

\* It goes on with the next level.
LEMMA DeeperStops ==
    ASSUME NEW z, NEW pos, Whole(z, pos), NEW cross, NEW k, Cut(z, pos, cross, k),
           NEW n \in 1 .. z.level, NEW s \in Stops(z, pos, k, n - 1)
    PROVE  Deeper(z, cross, n, s) \in Stops(z, pos, k, n)
<1> DEFINE i == z.level + 1 - n
           start == IF n = 1 THEN [node |-> Header, rank |-> 0] ELSE s[1]
           p == Along(z, i, cross)[start]
<1>1. z.level \in Heights /\ z.level \in Nat /\ i \in 1 .. z.level /\ z.length \in Nat
  BY ListIs DEF Whole
<1>2. /\ s \in [1 .. n - 1 -> Places(z)]
      /\ \A j \in 1 .. n - 1 : Stop(z, pos, k, z.level - (n - 1) + j, s[j])
  BY DEF Stops
<1>3. Way(z, pos, k, i, start)
  <2>1. CASE n = 1
    <3>1. Header \in DOMAIN z.node /\ pos[Header] = 0 /\ k \in Nat
      BY <1>1, ListIs DEF Whole, Numbered, Cut
    <3>2. i \in DOMAIN z.node[Header].level
      BY <1>1, <2>1 DEF Whole, Topped
    <3> QED BY <2>1, <3>1, <3>2 DEF Way, Places, Up
  <2>2. CASE n # 1
    <3>1. 1 \in 1 .. n - 1 /\ z.level - (n - 1) + 1 = i + 1
      BY <1>1, <2>2
    <3>2. Stop(z, pos, k, i + 1, start)
      BY <1>2, <2>2, <3>1
    <3> HIDE DEF start
    <3>3. start \in Places(z) /\ Up(z, start.node, i + 1)
      BY <3>2 DEF Stop, Way
    <3>4. z.node[start.node] \in Node
      BY <3>3, ListIs DEF Whole, Places
    <3>5. i \in 1 .. i + 1
      BY <1>1
    <3>6. Up(z, start.node, i)
      BY <3>3, <3>4, <3>5, NodeIs DEF Up
    <3> QED BY <3>2, <3>6 DEF Stop, Way
  <2> QED BY <2>1, <2>2
<1> HIDE DEF start, i
<1>4. Stop(z, pos, k, i, p)
  BY <1>1, <1>3, WalkStops
<1>5. p \in Places(z)
  BY <1>4 DEF Stop, Way
<1>6. Deeper(z, cross, n, s) = <<p>> \o s
  BY DEF Deeper, start, i
<1> HIDE DEF p
<1>7. /\ <<p>> \o s \in [1 .. n -> Places(z)]
      /\ (<<p>> \o s)[1] = p
      /\ \A j \in 2 .. n : (<<p>> \o s)[j] = s[j - 1]
  <2>1. s \in Seq(Places(z)) /\ Len(s) = n - 1 /\ <<p>> \in Seq(Places(z)) /\ Len(<<p>>) = 1
    BY <1>2, <1>5
  <2>2. /\ <<p>> \o s \in Seq(Places(z)) /\ Len(<<p>> \o s) = n
        /\ \A j \in 1 .. n : (<<p>> \o s)[j] = IF j <= 1 THEN <<p>>[j] ELSE s[j - 1]
    BY <2>1
  <2>3. <<p>> \o s \in [1 .. n -> Places(z)]
    <3> DEFINE t == <<p>> \o s
    <3>1. t \in Seq(Places(z)) /\ Len(t) = n
      BY <2>2
    <3> HIDE DEF t
    <3>2. t \in [1 .. n -> Places(z)]
      BY <3>1
    <3> QED BY <3>2 DEF t
  <2> QED BY <2>2, <2>3
<1>8. ASSUME NEW j \in 1 .. n PROVE Stop(z, pos, k, z.level - n + j, (<<p>> \o s)[j])
  <2>1. CASE j = 1
    <3>1. z.level - n + j = i
      BY <1>1, <2>1 DEF i
    <3> QED BY <1>4, <1>7, <2>1, <3>1
  <2>2. CASE j # 1
    <3>1. j - 1 \in 1 .. n - 1 /\ j \in 2 .. n /\ z.level - (n - 1) + (j - 1) = z.level - n + j
      BY <1>1, <2>2
    <3>2. Stop(z, pos, k, z.level - (n - 1) + (j - 1), s[j - 1])
      BY <1>2, <3>1
    <3> QED BY <1>7, <3>1, <3>2
  <2> QED BY <2>1, <2>2
<1> QED BY <1>6, <1>7, <1>8 DEF Stops

\* There is a descent.
LEMMA DescentExists ==
    ASSUME NEW z, NEW pos, Whole(z, pos), NEW cross, NEW k, Cut(z, pos, cross, k)
    PROVE  \E h : IsDescent(z, cross, h)
<1> DEFINE D == 0 .. z.level
           I == [n \in D |-> Stops(z, pos, k, n)]
           G == [n \in D |-> [s \in I[n - 1] |-> Deeper(z, cross, n, s)]]
<1>1. z.level \in Nat
  BY ListIs DEF Whole
<1>2. D \in SUBSET Nat /\ 0 \in D /\ \A n \in D \ {0} : n - 1 \in D /\ n \in 1 .. z.level
  BY <1>1
<1>3. <<>> \in I[0]
  <2>1. <<>> \in [1 .. 0 -> Places(z)] /\ ~ \E j : j \in 1 .. 0
    OBVIOUS
  <2> QED BY <1>2, <2>1 DEF Stops
<1>4. ASSUME NEW n \in D \ {0}, NEW s \in I[n - 1]
      PROVE  G[n][s] = Deeper(z, cross, n, s) /\ G[n][s] \in I[n]
  <2>1. I[n - 1] = Stops(z, pos, k, n - 1) /\ I[n] = Stops(z, pos, k, n)
    BY <1>2
  <2>2. G[n] = [t \in I[n - 1] |-> Deeper(z, cross, n, t)]
    OBVIOUS
  <2>3. G[n][s] = Deeper(z, cross, n, s)
    <3> HIDE DEF I, G
    <3> QED BY <2>2
  <2>4. Deeper(z, cross, n, s) \in Stops(z, pos, k, n)
    <3> HIDE DEF I, G
    <3> QED BY <1>2, <2>1, DeeperStops
  <2> QED BY <2>1, <2>3, <2>4
<1> HIDE DEF D, I, G
<1>5. Turning(D, I, <<>>, G)
  BY <1>3, <1>4 DEF Turning
<1>6. PICK h : Loop(D, <<>>, G, h) /\ \A n \in D : h[n] \in I[n]
  BY <1>2, <1>5, LoopSolved
<1>7. h = [n \in D |-> IF n = 0 THEN <<>> ELSE G[n][h[n - 1]]]
  BY <1>6 DEF Loop
<1>8. \A n \in D : n # 0 => G[n][h[n - 1]] = Deeper(z, cross, n, h[n - 1])
  BY <1>2, <1>4, <1>6
<1>9. IsDescent(z, cross, h)
  BY <1>7, <1>8 DEF IsDescent, D
<1> QED BY <1>9

\* A search stops on each level at the last node before the cut.
LEMMA SearchStops ==
    ASSUME NEW z, NEW pos, Whole(z, pos), NEW cross, NEW k, Cut(z, pos, cross, k)
    PROVE  \A i \in 1 .. z.level : Stop(z, pos, k, i, Search(z, cross)[i])
<1> DEFINE h == CHOOSE g : IsDescent(z, cross, g)
           D == 0 .. z.level
           B == {n \in D : h[n] \in Stops(z, pos, k, n)}
<1>1. z.level \in Nat
  BY ListIs DEF Whole
<1>2. IsDescent(z, cross, h)
  BY DescentExists
<1>3. Search(z, cross) = h[z.level]
  BY SearchIs
<1> HIDE DEF h
<1>4. /\ h[0] = <<>>
      /\ \A n \in 1 .. z.level : h[n] = Deeper(z, cross, n, h[n - 1])
  BY <1>1, <1>2 DEF IsDescent
<1>5. D \in SUBSET Nat /\ \A n \in D \ {0} : n - 1 \in D /\ n \in 1 .. z.level
  BY <1>1
<1>6. 0 \in B
  <2>1. <<>> \in [1 .. 0 -> Places(z)] /\ ~ \E j : j \in 1 .. 0
    OBVIOUS
  <2>2. <<>> \in Stops(z, pos, k, 0)
    BY <2>1 DEF Stops
  <2> QED BY <1>1, <1>4, <2>2
<1>7. \A n \in D \ {0} : n - 1 \in B => n \in B
  BY <1>4, <1>5, DeeperStops
<1>8. \A n \in D : n \in B
  <2> HIDE DEF D, B
  <2> QED BY <1>5, <1>6, <1>7, Upwards
<1>9. h[z.level] \in Stops(z, pos, k, z.level)
  BY <1>1, <1>8
<1>10. \A i \in 1 .. z.level : z.level - z.level + i = i
  BY <1>1
<1> QED BY <1>3, <1>9, <1>10 DEF Stops

-----------------------------------------------------------------------------
(* Where a search cuts the list.                                           *)

\* The positions of a list that is whole.
LEMMA PosIs ==
    ASSUME NEW z, NEW pos, Whole(z, pos)
    PROVE  /\ z.length \in Nat /\ z.level \in Nat \ {0} /\ z.level \in Heights
           /\ \A x \in DOMAIN z.node : pos[x] \in 0 .. z.length /\ pos[x] \in Nat
           /\ \A x \in Members(z) :
                 x \in DOMAIN z.node /\ x \in Elems /\ x \in Int /\ x # Header /\ x # NULL
                 /\ pos[x] \in 1 .. z.length
                 /\ z.node[x].score \in Scores /\ z.node[x].score \in Int
           /\ Header \in DOMAIN z.node /\ pos[Header] = 0 /\ NULL \notin DOMAIN z.node
<1>1. z \in SkipLists /\ Numbered(z, pos)
  BY DEF Whole
<1>2. /\ z.length \in Nat /\ z.level \in Nat \ {0} /\ z.level \in Heights
      /\ Header \in DOMAIN z.node /\ Members(z) \subseteq Elems
      /\ DOMAIN z.node = {Header} \cup Members(z)
      /\ z.node \in [DOMAIN z.node -> Node]
  BY <1>1, ListIs
<1>3. pos \in [DOMAIN z.node -> 0 .. z.length] /\ pos[Header] = 0
      /\ \A x \in Members(z) : pos[x] # 0
  BY <1>1 DEF Numbered
<1>4. \A x \in DOMAIN z.node : pos[x] \in 0 .. z.length /\ pos[x] \in Nat
  BY <1>2, <1>3
<1>5. Scores \subseteq Int
  BY ZSetAssumption DEF Scores
<1>6. \A x \in Members(z) : z.node[x].score \in Scores
  <2>1. \A x \in Members(z) : z.node[x] \in Node
    BY <1>2
  <2> QED BY <2>1, NodeIs
<1>7. \A x \in Members(z) : x \in DOMAIN z.node /\ x # Header
  BY DEF Members
<1>8. \A x \in Members(z) : x \in Elems /\ x \in Int /\ x # NULL
  BY <1>2, ZSetAssumption
<1>9. \A x \in Members(z) : pos[x] \in 1 .. z.length
  BY <1>2, <1>3, <1>4, <1>7
<1>10. NULL \notin DOMAIN z.node
  BY <1>2, ZSetAssumption
<1>11. \A x \in Members(z) : z.node[x].score \in Int
  BY <1>5, <1>6
<1> QED BY ONLY <1>2, <1>3, <1>4, <1>6, <1>7, <1>8, <1>9, <1>10, <1>11

\* A condition that holds of all nodes before one it holds of cuts the list.
LEMMA CutExists ==
    ASSUME NEW z, NEW pos, Whole(z, pos), NEW cross,
           \A x, y \in Members(z) : pos[x] < pos[y] /\ cross[[node |-> y, rank |-> pos[y]]] =>
                                       cross[[node |-> x, rank |-> pos[x]]]
    PROVE  \E k : Cut(z, pos, cross, k)
<1> DEFINE Crossed(x) == cross[[node |-> x, rank |-> pos[x]]]
           B == {k \in 0 .. z.length : \A x \in Members(z) : pos[x] > k => ~Crossed(x)}
<1>1. /\ z.length \in Nat
      /\ \A x \in Members(z) : pos[x] \in 1 .. z.length
  BY PosIs
<1>a. \A x, y \in Members(z) : pos[x] < pos[y] /\ Crossed(y) => Crossed(x)
  OBVIOUS
<1>b. \A x, y \in Members(z) : pos[x] = pos[y] => x = y
  BY DEF Whole, Numbered, Members
<1> HIDE DEF Crossed
<1>2. z.length \in B
  BY <1>1
<1>3. PICK k \in B : \A j \in B : k <= j
  <2>1. B \in SUBSET Nat
    BY <1>1
  <2> HIDE DEF B
  <2> QED BY <1>2, <2>1, LeastNat
<1>4. k \in 0 .. z.length /\ \A x \in Members(z) : pos[x] > k => ~Crossed(x)
  BY <1>3
<1>5. ASSUME NEW x \in Members(z), pos[x] <= k PROVE Crossed(x)
  <2>1. k - 1 \in 0 .. z.length /\ ~(k <= k - 1)
    BY <1>1, <1>4, <1>5
  <2>2. k - 1 \notin B
    <3> HIDE DEF B
    <3> QED BY <1>3, <2>1
  <2>3. PICK y \in Members(z) : pos[y] > k - 1 /\ Crossed(y)
    BY <2>1, <2>2
  <2>4. pos[y] = k
    <3>1. pos[y] \in Int /\ k \in Int
      BY <1>1, <1>4
    <3>2. ~(pos[y] > k)
      BY <1>4, <2>3
    <3> QED BY <2>3, <3>1, <3>2
  <2>5. pos[x] < pos[y] \/ pos[x] = pos[y]
    BY <1>1, <1>4, <1>5, <2>4
  <2> QED BY <1>a, <1>b, <2>3, <2>5
<1>6. Cut(z, pos, cross, k)
  <2>1. \A x \in Members(z) : Crossed(x) <=> pos[x] <= k
    BY <1>1, <1>4, <1>5
  <2> QED BY <1>4, <2>1 DEF Cut, Crossed
<1> QED BY <1>6

\* What the searches of ZADD, ZREM and the deletes by score cross.
BeforeThese(z, score, obj) == [p \in Places(z) |-> Before(z, p.node, score, obj)]
BelowThis(z, range) == [p \in Places(z) |-> BelowMin(z.node[p.node].score, range)]
BeforeRank(z, start) == [p \in Places(z) |-> p.rank < start]

LEMMA CrossedAre ==
    ASSUME NEW z, NEW pos, Whole(z, pos), NEW x \in Members(z)
    PROVE  /\ \A score, obj : BeforeThese(z, score, obj)[[node |-> x, rank |-> pos[x]]]
                                 = Before(z, x, score, obj)
           /\ \A range : BelowThis(z, range)[[node |-> x, rank |-> pos[x]]]
                                 = BelowMin(z.node[x].score, range)
           /\ \A start : BeforeRank(z, start)[[node |-> x, rank |-> pos[x]]]
                                 <=> pos[x] < start
<1>1. x \in DOMAIN z.node /\ pos[x] \in Int
  BY PosIs
<1> DEFINE p == [node |-> x, rank |-> pos[x]]
<1>2. p \in Places(z) /\ p.node = x /\ p.rank = pos[x]
  BY <1>1 DEF Places
<1> HIDE DEF p
<1>3. \A score, obj : BeforeThese(z, score, obj)[p] = Before(z, x, score, obj)
  BY <1>2 DEF BeforeThese
<1>4. \A range : BelowThis(z, range)[p] = BelowMin(z.node[x].score, range)
  BY <1>2 DEF BelowThis
<1>5. \A start : BeforeRank(z, start)[p] <=> pos[x] < start
  BY <1>2 DEF BeforeRank
<1> QED BY <1>3, <1>4, <1>5 DEF p

\* A score and an object have their place.
LEMMA BeforeCut ==
    ASSUME NEW z, NEW pos, Whole(z, pos), NEW score \in Scores, NEW obj \in Elems
    PROVE  \E k : Cut(z, pos, BeforeThese(z, score, obj), k)
<1>1. score \in Int /\ obj \in Int /\ score # NaN
  BY ZSetAssumption DEF Scores
<1>2. \A x \in Members(z) : x \in Int /\ z.node[x].score \in Int /\ z.node[x].score # NaN
  BY PosIs, ZSetAssumption
<1>3. \A x, y \in Members(z) : pos[x] < pos[y] /\ Before(z, y, score, obj) =>
                                  Before(z, x, score, obj)
  BY <1>1, <1>2 DEF Whole, Ordered, Before, Less, Equal
<1> QED BY <1>3, CrossedAre, CutExists

\* The place of a member is behind those before it.
LEMMA MemberCut ==
    ASSUME NEW z, NEW pos, Whole(z, pos), NEW obj \in Members(z)
    PROVE  Cut(z, pos, BeforeThese(z, z.node[obj].score, obj), pos[obj] - 1)
<1>1. \A x \in Members(z) : x \in Int /\ z.node[x].score \in Int /\ z.node[x].score # NaN
                            /\ pos[x] \in 1 .. z.length
  BY PosIs, ZSetAssumption
<1>2. z.length \in Nat /\ pos[obj] - 1 \in 0 .. z.length
  BY <1>1, PosIs
<1>3. ASSUME NEW x \in Members(z)
      PROVE  Before(z, x, z.node[obj].score, obj) <=> pos[x] <= pos[obj] - 1
  <2>1. pos[x] < pos[obj] => Before(z, x, z.node[obj].score, obj)
    BY DEF Whole, Ordered
  <2>2. pos[obj] < pos[x] => Before(z, obj, z.node[x].score, x)
    BY DEF Whole, Ordered
  <2>3. pos[x] = pos[obj] => x = obj
    BY DEF Whole, Numbered, Members
  <2> QED BY <1>1, <2>1, <2>2, <2>3 DEF Before, Less, Equal
<1> QED BY <1>2, <1>3, CrossedAre DEF Cut

\* So has a bound of a range of scores.
LEMMA ScoreCut ==
    ASSUME NEW z, NEW pos, Whole(z, pos), NEW range, range.min \in Scores
    PROVE  \E k : Cut(z, pos, BelowThis(z, range), k)
<1>1. range.min \in Int /\ range.min # NaN
  BY ZSetAssumption DEF Scores
<1>2. \A x \in Members(z) : x \in Int /\ z.node[x].score \in Int /\ z.node[x].score # NaN
  BY PosIs, ZSetAssumption
<1>3. \A x, y \in Members(z) : pos[x] < pos[y] /\ BelowMin(z.node[y].score, range) =>
                                  BelowMin(z.node[x].score, range)
  BY <1>1, <1>2 DEF Whole, Ordered, Before, Less, Equal, BelowMin
<1> QED BY <1>3, CrossedAre, CutExists

\* And a rank.
LEMMA RankCut ==
    ASSUME NEW z, NEW pos, Whole(z, pos), NEW start \in Int
    PROVE  \E k : Cut(z, pos, BeforeRank(z, start), k)
<1>1. \A x \in Members(z) : pos[x] \in Int
  BY PosIs
<1> DEFINE cross == BeforeRank(z, start)
<1>2. \A x \in Members(z) : cross[[node |-> x, rank |-> pos[x]]] <=> pos[x] < start
  BY CrossedAre
<1> HIDE DEF cross
<1>3. \A x, y \in Members(z) : pos[x] < pos[y] /\ cross[[node |-> y, rank |-> pos[y]]] =>
                                  cross[[node |-> x, rank |-> pos[x]]]
  BY <1>1, <1>2
<1>4. \E k : Cut(z, pos, cross, k)
  BY <1>3, CutExists
<1> QED BY <1>4 DEF cross

-----------------------------------------------------------------------------
(* Inserting.                                                              *)

LEMMA MaxIs ==
    ASSUME NEW S \in SUBSET Int, NEW m \in S, \A n \in S : n <= m
    PROVE  Max(S) = m
<1>1. \A n \in S : m >= n
  OBVIOUS
<1>2. \A x \in S : (\A n \in S : x >= n) => x = m
  <2> TAKE x \in S
  <2> HAVE \A n \in S : x >= n
  <2>1. x >= m /\ x <= m
    OBVIOUS
  <2> QED BY <2>1
<1> QED BY <1>1, <1>2 DEF Max

\* A link with another span.
LEMMA SpanIs ==
    ASSUME NEW l, l = [forward |-> l.forward, span |-> l.span], NEW s
    PROVE  /\ [l EXCEPT !.span = s] = [forward |-> l.forward, span |-> s]
           /\ [l EXCEPT !.span = s].forward = l.forward /\ [l EXCEPT !.span = s].span = s
<1> DEFINE f == l.forward
           t == l.span
<1>1. l = [forward |-> f, span |-> t]
  OBVIOUS
<1> HIDE DEF f, t
<1>2. [l EXCEPT !.span = s] = [forward |-> f, span |-> s]
  BY <1>1
<1>3. l.forward = f
  BY <1>1
<1> QED BY <1>2, <1>3

\* A node with another backward pointer and other levels.
LEMMA ChangedIs ==
    ASSUME NEW n, n = [score |-> n.score, backward |-> n.backward, level |-> n.level],
           NEW b, NEW v
    PROVE  [n EXCEPT !.backward = b, !.level = v] = [score |-> n.score, backward |-> b, level |-> v]
<1> DEFINE m == [n EXCEPT !.backward = b, !.level = v]
<1>1. n \in [score : {n.score}, backward : {n.backward}, level : {n.level}]
  <2> DEFINE s == n.score
             c == n.backward
             w == n.level
  <2>1. n = [score |-> s, backward |-> c, level |-> w]
    OBVIOUS
  <2> HIDE DEF s, c, w
  <2>2. n \in [score : {s}, backward : {c}, level : {w}]
    BY <2>1
  <2> QED BY <2>2 DEF s, c, w
<1>2. m \in [score : {n.score}, backward : {b}, level : {v}]
  BY <1>1
<1> HIDE DEF m
<1>3. m = [score |-> m.score, backward |-> m.backward, level |-> m.level]
  BY <1>2
<1>4. m.score = n.score /\ m.backward = b /\ m.level = v
  BY <1>2
<1> QED BY <1>3, <1>4 DEF m

\* n is the last node on level i of the first k, and l its link there.
Spot(z, pos, k, i, n, l) ==
    /\ n \in DOMAIN z.node /\ Up(z, n, i) /\ pos[n] <= k
    /\ \A y \in Members(z) : Up(z, y, i) /\ pos[y] <= k => pos[y] <= pos[n]
    /\ l = [forward |-> l.forward, span |-> l.span]
    /\ LinkOK(z, pos, n, i, l)

Higher(z, h) == IF z.level < h THEN h ELSE z.level

NewNode(pos, k, h, score, u, old) ==
    [score |-> score, backward |-> IF u[1] = Header THEN NULL ELSE u[1],
     level |-> [i \in 1 .. h |-> [forward |-> old[i].forward,
                                  span |-> old[i].span - (k - pos[u[i]])]]]
OldNode(z, pos, k, h, obj, u, old, n) ==
    [score |-> z.node[n].score,
     backward |-> IF n = old[1].forward THEN obj ELSE z.node[n].backward,
     level |-> [i \in DOMAIN z.node[n].level |->
                  IF i <= Higher(z, h) /\ u[i] = n
                  THEN Passed(old[i], obj, i <= h, k - pos[u[i]])
                  ELSE z.node[n].level[i]]]

\* What zslInsert makes of z: obj goes behind the first k nodes, u are the
\* nodes before it on each level and old their links.
Insertion(z, y, pos, k, h, score, obj, u, old) ==
    /\ \A i \in 1 .. Higher(z, h) : Spot(z, pos, k, i, u[i], old[i])
    /\ y = [level |-> Higher(z, h), length |-> z.length + 1,
            tail |-> IF old[1].forward = NULL THEN obj ELSE z.tail,
            node |-> [n \in DOMAIN z.node \cup {obj} |->
                        IF n = obj THEN NewNode(pos, k, h, score, u, old)
                        ELSE OldNode(z, pos, k, h, obj, u, old, n)]]

\* On level 1 a search stops at the k-th node.
LEMMA StopIsCut ==
    ASSUME NEW z, NEW pos, Whole(z, pos), NEW cross, NEW k, Cut(z, pos, cross, k),
           NEW p, Stop(z, pos, k, 1, p)
    PROVE  p.node \in DOMAIN z.node /\ pos[p.node] = k /\ p.rank = k
<1>1. k \in 0 .. z.length /\ z.length \in Nat
  BY PosIs DEF Cut
<1>2. p.node \in DOMAIN z.node /\ p.rank = pos[p.node] /\ pos[p.node] <= k
      /\ \A y \in Members(z) : Up(z, y, 1) /\ pos[y] <= k => pos[y] <= pos[p.node]
  BY DEF Stop, Way, Places
<1>3. PICK x \in DOMAIN z.node : pos[x] = k
  BY <1>1 DEF Whole, Numbered
<1>4. pos[p.node] \in Nat /\ pos[Header] = 0
  BY <1>2, PosIs
<1>5. CASE x = Header
  BY <1>1, <1>2, <1>3, <1>4, <1>5
<1>6. CASE x # Header
  <2>1. x \in Members(z) /\ z.node[x] \in Node
    BY <1>6, ListIs DEF Members, Whole
  <2>2. Up(z, x, 1)
    BY <2>1, NodeIs DEF Up
  <2>3. pos[x] <= pos[p.node]
    BY <1>1, <1>2, <1>3, <2>1, <2>2
  <2> QED BY <1>1, <1>2, <1>3, <1>4, <2>3
<1> QED BY <1>5, <1>6

LEMMA InsertIs ==
    ASSUME NEW z, NEW pos, Whole(z, pos), NEW h \in Heights, NEW score, NEW obj,
           NEW k, Cut(z, pos, BeforeThese(z, score, obj), k)
    PROVE  \E u, old : Insertion(z, zslInsert(z, h, score, obj), pos, k, h, score, obj, u, old)
<1> DEFINE at == Search(z, BeforeThese(z, score, obj))
           level == Higher(z, h)
           u == [i \in 1 .. level |-> IF i <= z.level THEN at[i].node ELSE Header]
           rank == [i \in 1 .. level |-> IF i <= z.level THEN at[i].rank ELSE 0]
           Old(i) == IF i <= z.level THEN z.node[u[i]].level[i]
                     ELSE [z.node[Header].level[i] EXCEPT !.span = z.length]
           old == [i \in 1 .. level |-> Old(i)]
           Level(n, i) == IF i <= level /\ u[i] = n
                          THEN Passed(Old(i), obj, i <= h, rank[1] - rank[i])
                          ELSE z.node[n].level[i]
           new == [score |-> score,
                   backward |-> IF u[1] = Header THEN NULL ELSE u[1],
                   level |-> [i \in 1 .. h |-> [Old(i) EXCEPT !.span = @ - (rank[1] - rank[i])]]]
           changed(n) == [z.node[n] EXCEPT
                            !.backward = IF n = Old(1).forward THEN obj ELSE @,
                            !.level = [i \in DOMAIN @ |-> Level(n, i)]]
<1>1. /\ z.level \in Nat \ {0} /\ z.level \in Heights /\ h \in Heights /\ h \in Nat \ {0}
      /\ z.length \in Nat /\ Header \in DOMAIN z.node /\ pos[Header] = 0 /\ k \in 0 .. z.length
      /\ \A x \in DOMAIN z.node : pos[x] \in Nat
  BY PosIs, ZSetAssumption DEF Heights, Cut
<1>2. level = Max({z.level, h})
  <2>1. level \in {z.level, h} /\ \A n \in {z.level, h} : n <= level
    BY <1>1 DEF Higher
  <2>2. {z.level, h} \in SUBSET Int
    BY <1>1
  <2> HIDE DEF level
  <2> QED BY <2>1, <2>2, MaxIs
<1>3. /\ level \in Heights /\ level \in Nat \ {0} /\ z.level <= level /\ h <= level
      /\ level = z.level \/ level = h
  BY <1>1 DEF Higher
<1>4. \A i \in 1 .. z.level : Stop(z, pos, k, i, at[i])
  BY SearchStops
<1>a. \A i \in 1 .. level : i \in Heights /\ i \in Nat \ {0} /\ (i <= z.level \/ i > z.level)
  BY <1>1, <1>3, ZSetAssumption DEF Heights
<1>5. zslInsert(z, h, score, obj) =
        [level |-> level, length |-> z.length + 1,
         tail |-> IF Old(1).forward = NULL THEN obj ELSE z.tail,
         node |-> [n \in DOMAIN z.node \cup {obj} |-> IF n = obj THEN new ELSE changed(n)]]
  <2>1. BeforeThese(z, score, obj) = [p \in Places(z) |-> Before(z, p.node, score, obj)]
    BY DEF BeforeThese
  <2> HIDE DEF level
  <2> QED BY <1>2, <2>1 DEF zslInsert
<1> HIDE DEF at, level
<1>6. /\ \A i \in 1 .. level : /\ u[i] = IF i <= z.level THEN at[i].node ELSE Header
                               /\ rank[i] = IF i <= z.level THEN at[i].rank ELSE 0
                               /\ old[i] = Old(i)
  OBVIOUS
<1> HIDE DEF u, rank
<1>7. \A i \in 1 .. level : u[i] \in DOMAIN z.node /\ rank[i] = pos[u[i]] /\ Up(z, u[i], i)
  <2> TAKE i \in 1 .. level
  <2>1. CASE i <= z.level
    <3>1. Stop(z, pos, k, i, at[i]) /\ u[i] = at[i].node /\ rank[i] = at[i].rank
      BY <1>1, <1>3, <1>4, <1>6, <2>1
    <3> QED BY <3>1 DEF Stop, Way, Places
  <2>2. CASE ~(i <= z.level)
    <3>1. i \in Heights
      BY <1>a
    <3> QED BY <1>1, <1>6, <2>2, <3>1 DEF Whole, Topped, Up
  <2> QED BY <2>1, <2>2
<1>8. \A i \in 1 .. level : Spot(z, pos, k, i, u[i], old[i])
  <2> TAKE i \in 1 .. level
  <2>1. u[i] \in DOMAIN z.node /\ Up(z, u[i], i)
    BY <1>7
  <2>2. CASE i <= z.level
    <3>1. Stop(z, pos, k, i, at[i]) /\ u[i] = at[i].node /\ old[i] = z.node[u[i]].level[i]
      BY <1>1, <1>3, <1>4, <1>6, <2>2
    <3>2. /\ pos[u[i]] <= k
          /\ \A y \in Members(z) : Up(z, y, i) /\ pos[y] <= k => pos[y] <= pos[u[i]]
      BY <3>1 DEF Stop, Way
    <3>3. LinkOK(z, pos, u[i], i, z.node[u[i]].level[i])
          /\ z.node[u[i]].level[i] = [forward |-> z.node[u[i]].level[i].forward,
                                      span |-> z.node[u[i]].level[i].span]
      <4> DEFINE x == u[i]
      <4>1. x \in DOMAIN z.node /\ Up(z, x, i) /\ Whole(z, pos) /\ i <= z.level
        BY <2>1, <2>2
      <4> HIDE DEF x
      <4> DEFINE l == z.node[x].level[i]
      <4>4. l = z.node[x].level[i]
        OBVIOUS
      <4> HIDE DEF l
      <4>2. LinkOK(z, pos, x, i, l)
        BY ONLY <4>1, <4>4, LinkHolds
      <4>3. l = [forward |-> l.forward, span |-> l.span]
        BY ONLY <4>1, <4>4, LinkRecord
      <4> QED BY ONLY <4>2, <4>3, <4>4 DEF x
    <3> QED BY <2>1, <3>1, <3>2, <3>3 DEF Spot
  <2>3. CASE ~(i <= z.level)
    <3> DEFINE l == z.node[Header].level[i]
    <3>1. u[i] = Header /\ old[i] = [l EXCEPT !.span = z.length]
      <4>1. u[i] = Header /\ old[i] = Old(i)
        BY <1>6, <2>3
      <4> HIDE DEF old
      <4> QED BY <2>3, <4>1
    <3>2. i \in Heights /\ i > z.level
      BY <1>a, <2>3
    <3>3. l.forward = NULL /\ Up(z, Header, i)
      BY <3>2 DEF Whole, Topped, Up
    <3>0. l = z.node[Header].level[i] /\ Whole(z, pos) /\ Header \in DOMAIN z.node
      BY <1>1
    <3> HIDE DEF l
    <3>4. l = [forward |-> l.forward, span |-> l.span]
      BY ONLY <3>0, <3>3, LinkRecord
    <3>5. old[i] = [forward |-> NULL, span |-> z.length]
      BY <3>1, <3>3, <3>4, SpanIs
    <3>6. \A y \in Members(z) : ~Up(z, y, i)
      BY <1>1, <3>2 DEF Whole, Topped, Up
    <3>7. LinkOK(z, pos, Header, i, old[i])
      <4>1. z.length \in Nat /\ pos[Header] = 0
        BY <1>1
      <4>2. LinkOK(z, pos, Header, i, [forward |-> NULL, span |-> z.length])
        BY ONLY <3>6, <4>1, EmptyLevelHolds
      <4> QED BY ONLY <3>5, <4>2
    <3>8. old[i] = [forward |-> old[i].forward, span |-> old[i].span]
      BY <3>5
    <3>9. pos[u[i]] <= k
      BY <1>1, <3>1
    <3> QED BY <2>1, <3>1, <3>6, <3>7, <3>8, <3>9 DEF Spot
  <2> QED BY <2>2, <2>3
<1>9. 1 \in 1 .. level /\ \A i \in 1 .. h : i \in 1 .. level
  BY <1>1, <1>3
<1>10. rank[1] = k
  <2>1. Stop(z, pos, k, 1, at[1]) /\ rank[1] = at[1].rank
    BY <1>1, <1>4, <1>6, <1>9
  <2> QED BY <2>1, StopIsCut
<1>11. \A i \in 1 .. level : Old(i) = old[i] /\ rank[1] - rank[i] = k - pos[u[i]]
  BY <1>6, <1>7, <1>10
<1> HIDE DEF Old, old
<1>12. new = NewNode(pos, k, h, score, u, old)
  <2>1. \A i \in 1 .. h : [Old(i) EXCEPT !.span = @ - (rank[1] - rank[i])] =
            [forward |-> old[i].forward, span |-> old[i].span - (k - pos[u[i]])]
    <3> TAKE i \in 1 .. h
    <3>1. Old(i) = old[i] /\ rank[1] - rank[i] = k - pos[u[i]]
          /\ old[i] = [forward |-> old[i].forward, span |-> old[i].span]
      BY <1>8, <1>9, <1>11 DEF Spot
    <3> QED BY <3>1, SpanIs
  <2> QED BY <2>1 DEF NewNode
<1>13. ASSUME NEW n \in DOMAIN z.node PROVE changed(n) = OldNode(z, pos, k, h, obj, u, old, n)
  <2>1. z.node[n] = [score |-> z.node[n].score, backward |-> z.node[n].backward,
                     level |-> z.node[n].level]
        /\ DOMAIN z.node[n].level \subseteq Heights
    <3> DEFINE b == z.node[n]
    <3>1. b \in Node
      BY ListIs DEF Whole
    <3> HIDE DEF b
    <3>2. b = [score |-> b.score, backward |-> b.backward, level |-> b.level]
          /\ DOMAIN b.level \subseteq Heights
      BY ONLY <3>1, NodeIs
    <3> QED BY ONLY <3>2 DEF b
  <2>2. \A i \in DOMAIN z.node[n].level : i <= level => i \in 1 .. level
    BY <1>3, <2>1 DEF Heights
  <2>3. \A i \in DOMAIN z.node[n].level :
           Level(n, i) = IF i <= Higher(z, h) /\ u[i] = n
                         THEN Passed(old[i], obj, i <= h, k - pos[u[i]])
                         ELSE z.node[n].level[i]
    BY <1>11, <2>2 DEF level
  <2>4. Old(1) = old[1]
    BY <1>9, <1>11
  <2> HIDE DEF Level
  <2>7. changed(n) = [score |-> z.node[n].score,
                      backward |-> IF n = Old(1).forward THEN obj ELSE z.node[n].backward,
                      level |-> [i \in DOMAIN z.node[n].level |-> Level(n, i)]]
    <3> DEFINE m == z.node[n]
               b == IF n = Old(1).forward THEN obj ELSE m.backward
               v == [i \in DOMAIN m.level |-> Level(n, i)]
    <3>1. m = [score |-> m.score, backward |-> m.backward, level |-> m.level]
      BY <2>1
    <3>2. changed(n) = [m EXCEPT !.backward = b, !.level = v]
      OBVIOUS
    <3> HIDE DEF m, b, v, changed
    <3>3. changed(n) = [score |-> m.score, backward |-> b, level |-> v]
      BY ONLY <3>1, <3>2, ChangedIs
    <3> QED BY ONLY <3>3 DEF m, b, v
  <2> QED BY <2>3, <2>4, <2>7 DEF OldNode
<1> HIDE DEF new, changed
<1>14. zslInsert(z, h, score, obj) =
        [level |-> level, length |-> z.length + 1,
         tail |-> IF old[1].forward = NULL THEN obj ELSE z.tail,
         node |-> [n \in DOMAIN z.node \cup {obj} |->
                     IF n = obj THEN NewNode(pos, k, h, score, u, old)
                     ELSE OldNode(z, pos, k, h, obj, u, old, n)]]
  BY <1>5, <1>9, <1>11, <1>12, <1>13
<1>15. Insertion(z, zslInsert(z, h, score, obj), pos, k, h, score, obj, u, old)
  BY <1>8, <1>14 DEF Insertion, level
<1> QED BY <1>15

\* y has one node more than z, as high as h, behind the first k.
Grown(z, y, k, h, obj) ==
    /\ obj \in Elems /\ obj \notin DOMAIN z.node /\ k \in 0 .. z.length
    /\ y.length = z.length + 1 /\ DOMAIN y.node = DOMAIN z.node \cup {obj}
    /\ \A i : Up(y, obj, i) <=> i \in 1 .. h
    /\ \A n \in DOMAIN z.node : \A i : Up(y, n, i) <=> Up(z, n, i)

\* The nodes behind it move up.
Raised(z, pos, k, obj) ==
    [n \in DOMAIN z.node \cup {obj} |->
        IF n = obj THEN k + 1 ELSE IF pos[n] <= k THEN pos[n] ELSE pos[n] + 1]

\* Their positions.
RaisedFacts(z, y, pos, new, k, obj) ==
    /\ z.length \in Nat /\ k \in Nat
    /\ Members(y) = Members(z) \cup {obj} /\ obj \notin Members(z) /\ obj # NULL
    /\ NULL \notin Members(z)
    /\ new[obj] = k + 1
    /\ \A n \in DOMAIN z.node : new[n] = IF pos[n] <= k THEN pos[n] ELSE pos[n] + 1
    /\ \A n \in DOMAIN z.node : pos[n] \in Nat
    /\ \A n \in Members(z) : n \in DOMAIN z.node /\ n # obj /\ n # NULL

LEMMA RaisedIs ==
    ASSUME NEW z, NEW pos, Whole(z, pos), NEW y, NEW k, NEW h, NEW obj, Grown(z, y, k, h, obj)
    PROVE  RaisedFacts(z, y, pos, Raised(z, pos, k, obj), k, obj)
<1>1. /\ z.length \in Nat /\ k \in Nat /\ obj \in Elems /\ obj \notin DOMAIN z.node
      /\ DOMAIN y.node = DOMAIN z.node \cup {obj}
  BY PosIs DEF Grown
<1>2. \A n \in DOMAIN z.node : pos[n] \in Nat
  BY PosIs
<1>3. \A n \in Members(z) : n \in DOMAIN z.node /\ n # NULL
  BY PosIs
<1>4. Header \in DOMAIN z.node /\ NULL \notin DOMAIN z.node
  BY PosIs
<1>5. obj # NULL /\ obj # Header
  BY <1>1, ZSetAssumption
<1>6. Members(y) = Members(z) \cup {obj} /\ obj \notin Members(z)
  BY <1>1, <1>5 DEF Members
<1>7. /\ Raised(z, pos, k, obj)[obj] = k + 1
      /\ \A n \in DOMAIN z.node :
            Raised(z, pos, k, obj)[n] = IF pos[n] <= k THEN pos[n] ELSE pos[n] + 1
  BY <1>1 DEF Raised
<1>8. NULL \notin Members(z) /\ \A n \in Members(z) : n # obj
  BY <1>3, <1>6
<1> QED BY ONLY <1>1, <1>2, <1>3, <1>5, <1>6, <1>7, <1>8 DEF RaisedFacts

\* A link that does not cross the place of the new node.
LEMMA LinkMoves ==
    ASSUME NEW z, NEW pos, NEW y, NEW k, NEW h, NEW obj, Grown(z, y, k, h, obj),
           NEW new, RaisedFacts(z, y, pos, new, k, obj),
           NEW x \in DOMAIN z.node, NEW i, NEW l, LinkOK(z, pos, x, i, l),
           pos[x] > k \/ (l.forward # NULL /\ pos[l.forward] <= k)
    PROVE  LinkOK(y, new, x, i, l)
<1>1. CASE l.forward = NULL
  <2>1. /\ l.span = z.length - pos[x] /\ pos[x] > k /\ pos[x] \in Nat
        /\ \A n \in Members(z) : Up(z, n, i) => pos[n] <= pos[x]
    BY <1>1 DEF LinkOK, RaisedFacts, NoneUpAfter
  <2>2. l.span = y.length - new[x] /\ new[x] = pos[x] + 1
    BY <2>1 DEF Grown, RaisedFacts
  <2>3. \A n \in Members(z) : Up(y, n, i) => new[n] <= new[x]
    BY <2>1, <2>2 DEF Grown, RaisedFacts
  <2>4. new[obj] <= new[x]
    BY <2>1, <2>2 DEF RaisedFacts
  <2>5. \A n \in Members(y) : Up(y, n, i) => new[n] <= new[x]
    BY <2>3, <2>4 DEF RaisedFacts
  <2> QED BY <1>1, <2>2, <2>5 DEF LinkOK, NoneUpAfter
<1>2. CASE l.forward # NULL
  <2> DEFINE f == l.forward
  <2>1. /\ f \in Members(z) /\ Up(z, f, i) /\ pos[f] > pos[x] /\ l.span = pos[f] - pos[x]
        /\ \A n \in Members(z) : Up(z, n, i) /\ pos[n] > pos[x] => pos[f] <= pos[n]
    BY <1>2 DEF LinkOK
  <2> HIDE DEF f
  <2>2. pos[x] \in Nat /\ pos[f] \in Nat /\ f \in DOMAIN z.node
    BY <2>1 DEF RaisedFacts
  <2>3. (pos[x] > k /\ pos[f] > k) \/ (pos[x] <= k /\ pos[f] <= k)
    BY <1>2, <2>1, <2>2 DEF f, RaisedFacts
  <2>4. new[f] > new[x] /\ l.span = new[f] - new[x]
    BY <2>1, <2>2, <2>3 DEF RaisedFacts
  <2>5. ASSUME NEW n \in Members(z), Up(y, n, i), new[n] > new[x] PROVE new[f] <= new[n]
    <3>1. Up(z, n, i) /\ pos[n] \in Nat /\ n \in DOMAIN z.node
      BY <2>5 DEF Grown, RaisedFacts
    <3>2. pos[n] > pos[x]
      BY <2>2, <2>5, <3>1 DEF RaisedFacts
    <3>3. pos[f] <= pos[n]
      BY <2>1, <3>1, <3>2
    <3> QED BY <2>2, <3>1, <3>3 DEF RaisedFacts
  <2>6. new[obj] > new[x] => new[f] <= new[obj]
    BY <2>2, <2>3 DEF RaisedFacts
  <2>7. \A n \in Members(y) : Up(y, n, i) /\ new[n] > new[x] => new[f] <= new[n]
    BY <2>5, <2>6 DEF RaisedFacts
  <2>8. f \in Members(y) /\ Up(y, f, i)
    BY <2>1, <2>2 DEF Grown, RaisedFacts
  <2> QED BY <2>4, <2>7, <2>8 DEF LinkOK, f
<1> QED BY <1>1, <1>2

\* The link over a node that is not as high.
LEMMA LinkPasses ==
    ASSUME NEW z, NEW pos, NEW y, NEW k, NEW h, NEW obj, Grown(z, y, k, h, obj),
           NEW new, RaisedFacts(z, y, pos, new, k, obj),
           NEW x, NEW i \in Int, NEW l, Spot(z, pos, k, i, x, l), h \in Int, i > h
    PROVE  LinkOK(y, new, x, i, [l EXCEPT !.span = @ + 1])
<1> DEFINE f == l.forward
           m == [l EXCEPT !.span = @ + 1]
<1>1. m.forward = f /\ m.span = l.span + 1
  BY SpanIs DEF Spot
<1> HIDE DEF m
<1>2. /\ x \in DOMAIN z.node /\ pos[x] <= k /\ pos[x] \in Nat /\ LinkOK(z, pos, x, i, l)
      /\ \A n \in Members(z) : Up(z, n, i) /\ pos[n] <= k => pos[n] <= pos[x]
      /\ new[x] = pos[x] /\ ~Up(y, obj, i)
  BY DEF Spot, RaisedFacts, Grown
<1>3. CASE f = NULL
  <2>1. /\ l.span = z.length - pos[x]
        /\ \A n \in Members(z) : Up(z, n, i) => pos[n] <= pos[x]
    BY <1>2, <1>3 DEF LinkOK, NoneUpAfter, RaisedFacts
  <2>2. m.span = y.length - new[x]
    BY <1>1, <1>2, <2>1 DEF Grown, RaisedFacts
  <2>3. \A n \in Members(z) : Up(y, n, i) => new[n] <= new[x]
    BY <1>2, <2>1 DEF Grown, RaisedFacts
  <2>4. \A n \in Members(y) : Up(y, n, i) => new[n] <= new[x]
    BY <1>2, <2>3 DEF RaisedFacts
  <2> QED BY <1>1, <1>3, <2>2, <2>4 DEF LinkOK, NoneUpAfter
<1>4. CASE f # NULL
  <2>1. /\ f \in Members(z) /\ Up(z, f, i) /\ pos[f] > pos[x] /\ l.span = pos[f] - pos[x]
        /\ \A n \in Members(z) : Up(z, n, i) /\ pos[n] > pos[x] => pos[f] <= pos[n]
    BY <1>2, <1>4 DEF LinkOK
  <2> HIDE DEF f
  <2>2. f \in DOMAIN z.node /\ pos[f] \in Nat /\ k \in Nat
    BY <2>1 DEF RaisedFacts
  <2>3. pos[f] > k
    BY <1>2, <2>1, <2>2
  <2>4. new[f] = pos[f] + 1 /\ new[f] > new[x] /\ m.span = new[f] - new[x]
    BY <1>1, <1>2, <2>1, <2>2, <2>3 DEF RaisedFacts
  <2>5. ASSUME NEW n \in Members(z), Up(y, n, i), new[n] > new[x] PROVE new[f] <= new[n]
    <3>1. Up(z, n, i) /\ pos[n] \in Nat /\ n \in DOMAIN z.node
      BY <2>5 DEF Grown, RaisedFacts
    <3>2. pos[n] > pos[x]
      BY <1>2, <2>5, <3>1 DEF RaisedFacts
    <3>3. pos[f] <= pos[n]
      BY <2>1, <3>1, <3>2
    <3> QED BY <2>2, <2>3, <2>4, <3>1, <3>3 DEF RaisedFacts
  <2>6. \A n \in Members(y) : Up(y, n, i) /\ new[n] > new[x] => new[f] <= new[n]
    BY <1>2, <2>5 DEF RaisedFacts
  <2>7. f \in Members(y) /\ Up(y, f, i)
    BY <2>1, <2>2 DEF Grown, RaisedFacts
  <2> QED BY <1>1, <2>4, <2>6, <2>7 DEF LinkOK, f
<1> QED BY <1>3, <1>4 DEF m

\* The link to the new node.
LEMMA LinkTo ==
    ASSUME NEW z, NEW pos, NEW y, NEW k, NEW h, NEW obj, Grown(z, y, k, h, obj),
           NEW new, RaisedFacts(z, y, pos, new, k, obj),
           NEW x, NEW i \in 1 .. h, NEW l, Spot(z, pos, k, i, x, l)
    PROVE  LinkOK(y, new, x, i, [forward |-> obj, span |-> (k - pos[x]) + 1])
<1> DEFINE m == [forward |-> obj, span |-> (k - pos[x]) + 1]
<1>1. m.forward = obj /\ m.span = (k - pos[x]) + 1
  OBVIOUS
<1> HIDE DEF m
<1>2. /\ x \in DOMAIN z.node /\ pos[x] <= k /\ pos[x] \in Nat
      /\ \A n \in Members(z) : Up(z, n, i) /\ pos[n] <= k => pos[n] <= pos[x]
      /\ new[x] = pos[x] /\ Up(y, obj, i) /\ new[obj] = k + 1 /\ obj \in Members(y)
  BY DEF Spot, RaisedFacts, Grown
<1>3. new[obj] > new[x] /\ m.span = new[obj] - new[x]
  BY <1>1, <1>2 DEF RaisedFacts
<1>4. ASSUME NEW n \in Members(z), Up(y, n, i), new[n] > new[x] PROVE new[obj] <= new[n]
  <2>1. Up(z, n, i) /\ pos[n] \in Nat /\ n \in DOMAIN z.node
    BY <1>4 DEF Grown, RaisedFacts
  <2> QED BY <1>2, <1>4, <2>1 DEF RaisedFacts
<1>5. \A n \in Members(y) : Up(y, n, i) /\ new[n] > new[x] => new[obj] <= new[n]
  BY <1>2, <1>4 DEF RaisedFacts
<1> QED BY <1>1, <1>2, <1>3, <1>5 DEF LinkOK, m

\* The link from it.
LEMMA LinkFrom ==
    ASSUME NEW z, NEW pos, NEW y, NEW k, NEW h, NEW obj, Grown(z, y, k, h, obj),
           NEW new, RaisedFacts(z, y, pos, new, k, obj),
           NEW x, NEW i \in 1 .. h, NEW l, Spot(z, pos, k, i, x, l)
    PROVE  LinkOK(y, new, obj, i, [forward |-> l.forward, span |-> l.span - (k - pos[x])])
<1> DEFINE f == l.forward
           m == [forward |-> l.forward, span |-> l.span - (k - pos[x])]
<1>1. m.forward = f /\ m.span = l.span - (k - pos[x])
  OBVIOUS
<1> HIDE DEF m
<1>2. /\ x \in DOMAIN z.node /\ pos[x] <= k /\ pos[x] \in Nat /\ LinkOK(z, pos, x, i, l)
      /\ \A n \in Members(z) : Up(z, n, i) /\ pos[n] <= k => pos[n] <= pos[x]
      /\ new[obj] = k + 1 /\ k \in Nat
  BY DEF Spot, RaisedFacts, Grown
<1>3. CASE f = NULL
  <2>1. /\ l.span = z.length - pos[x]
        /\ \A n \in Members(z) : Up(z, n, i) => pos[n] <= pos[x]
    BY <1>2, <1>3 DEF LinkOK, NoneUpAfter, RaisedFacts
  <2>2. m.span = y.length - new[obj]
    BY <1>1, <1>2, <2>1 DEF Grown, RaisedFacts
  <2>3. \A n \in Members(z) : Up(y, n, i) => new[n] <= new[obj]
    BY <1>2, <2>1 DEF Grown, RaisedFacts
  <2>4. \A n \in Members(y) : Up(y, n, i) => new[n] <= new[obj]
    BY <1>2, <2>3 DEF RaisedFacts
  <2> QED BY <1>1, <1>3, <2>2, <2>4 DEF LinkOK, NoneUpAfter
<1>4. CASE f # NULL
  <2>1. /\ f \in Members(z) /\ Up(z, f, i) /\ pos[f] > pos[x] /\ l.span = pos[f] - pos[x]
        /\ \A n \in Members(z) : Up(z, n, i) /\ pos[n] > pos[x] => pos[f] <= pos[n]
    BY <1>2, <1>4 DEF LinkOK
  <2> HIDE DEF f
  <2>2. f \in DOMAIN z.node /\ pos[f] \in Nat /\ k \in Nat
    BY <2>1 DEF RaisedFacts
  <2>3. pos[f] > k
    BY <1>2, <2>1, <2>2
  <2>4. new[f] = pos[f] + 1 /\ new[f] > new[obj] /\ m.span = new[f] - new[obj]
    BY <1>1, <1>2, <2>1, <2>2, <2>3 DEF RaisedFacts
  <2>5. ASSUME NEW n \in Members(z), Up(y, n, i), new[n] > new[obj] PROVE new[f] <= new[n]
    <3>1. Up(z, n, i) /\ pos[n] \in Nat /\ n \in DOMAIN z.node
      BY <2>5 DEF Grown, RaisedFacts
    <3>2. pos[n] > pos[x]
      BY <1>2, <2>5, <3>1 DEF RaisedFacts
    <3>3. pos[f] <= pos[n]
      BY <2>1, <3>1, <3>2
    <3> QED BY <2>2, <2>3, <2>4, <3>1, <3>3 DEF RaisedFacts
  <2>6. \A n \in Members(y) : Up(y, n, i) /\ new[n] > new[obj] => new[f] <= new[n]
    BY <1>2, <2>4, <2>5 DEF RaisedFacts
  <2>7. f \in Members(y) /\ Up(y, f, i)
    BY <2>1, <2>2 DEF Grown, RaisedFacts
  <2> QED BY <1>1, <2>4, <2>6, <2>7 DEF LinkOK, f
<1> QED BY <1>3, <1>4 DEF m

\* What an insertion needs: a new node, its place, and a search for that.
Inserting(z, pos, k, h, score, obj) ==
    /\ Whole(z, pos) /\ h \in Heights /\ score \in Scores
    /\ obj \in Elems /\ obj \notin DOMAIN z.node
    /\ Cut(z, pos, BeforeThese(z, score, obj), k)

\* The parts of the list it makes.
InsertionFacts(z, y, pos, k, h, score, obj, u, old) ==
    /\ y.level = Higher(z, h) /\ y.length = z.length + 1
    /\ y.tail = IF old[1].forward = NULL THEN obj ELSE z.tail
    /\ DOMAIN y.node = DOMAIN z.node \cup {obj}
    /\ y.node = [n \in DOMAIN y.node |-> y.node[n]]
    /\ y.node[obj] = NewNode(pos, k, h, score, u, old)
    /\ \A n \in DOMAIN z.node : y.node[n] = OldNode(z, pos, k, h, obj, u, old, n)
    /\ Grown(z, y, k, h, obj)
    /\ Higher(z, h) \in Heights /\ Higher(z, h) \in Nat \ {0}
    /\ z.level <= Higher(z, h) /\ h <= Higher(z, h)
    /\ Higher(z, h) \in {z.level, h} /\ h \in Nat \ {0} /\ z.level \in Nat \ {0}

LEMMA InsertionIs ==
    ASSUME NEW z, NEW pos, NEW k, NEW h, NEW score, NEW obj, Inserting(z, pos, k, h, score, obj),
           NEW y, NEW u, NEW old, Insertion(z, y, pos, k, h, score, obj, u, old)
    PROVE  InsertionFacts(z, y, pos, k, h, score, obj, u, old)
<1>1. y = [level |-> Higher(z, h), length |-> z.length + 1,
            tail |-> IF old[1].forward = NULL THEN obj ELSE z.tail,
            node |-> [n \in DOMAIN z.node \cup {obj} |->
                        IF n = obj THEN NewNode(pos, k, h, score, u, old)
                        ELSE OldNode(z, pos, k, h, obj, u, old, n)]]
  BY DEF Insertion
<1>2. /\ y.level = Higher(z, h) /\ y.length = z.length + 1
      /\ y.tail = IF old[1].forward = NULL THEN obj ELSE z.tail
      /\ y.node = [n \in DOMAIN z.node \cup {obj} |->
                        IF n = obj THEN NewNode(pos, k, h, score, u, old)
                        ELSE OldNode(z, pos, k, h, obj, u, old, n)]
  BY <1>1
<1>3. obj \in Elems /\ obj \notin DOMAIN z.node
  BY DEF Inserting
<1>4. /\ DOMAIN y.node = DOMAIN z.node \cup {obj}
      /\ y.node = [n \in DOMAIN y.node |-> y.node[n]]
      /\ y.node[obj] = NewNode(pos, k, h, score, u, old)
      /\ \A n \in DOMAIN z.node : y.node[n] = OldNode(z, pos, k, h, obj, u, old, n)
  BY <1>2, <1>3
<1>5. /\ DOMAIN NewNode(pos, k, h, score, u, old).level = 1 .. h
      /\ \A n : DOMAIN OldNode(z, pos, k, h, obj, u, old, n).level = DOMAIN z.node[n].level
  BY DEF NewNode, OldNode
<1>6. Grown(z, y, k, h, obj)
  <2>1. k \in 0 .. z.length
    BY DEF Inserting, Cut
  <2>2. \A i : Up(y, obj, i) <=> i \in 1 .. h
    BY <1>4, <1>5 DEF Up
  <2>3. \A n \in DOMAIN z.node : \A i : Up(y, n, i) <=> Up(z, n, i)
    BY <1>4, <1>5 DEF Up
  <2> QED BY <1>2, <1>3, <1>4, <2>1, <2>2, <2>3 DEF Grown
<1>7. /\ z.level \in Nat \ {0} /\ z.level \in Heights /\ h \in Heights /\ h \in Nat \ {0}
  BY PosIs, ZSetAssumption DEF Heights, Inserting
<1>8. /\ Higher(z, h) \in Heights /\ Higher(z, h) \in Nat \ {0}
      /\ z.level <= Higher(z, h) /\ h <= Higher(z, h)
      /\ Higher(z, h) \in {z.level, h}
  BY <1>7 DEF Higher
<1> QED BY ONLY <1>2, <1>4, <1>6, <1>7, <1>8 DEF InsertionFacts

\* Its positions are numbers without a gap.
LEMMA InsertNumbered ==
    ASSUME NEW z, NEW pos, Whole(z, pos), NEW y, NEW k, NEW h, NEW obj, Grown(z, y, k, h, obj)
    PROVE  Numbered(y, Raised(z, pos, k, obj))
<1> DEFINE new == Raised(z, pos, k, obj)
<1>1. RaisedFacts(z, y, pos, new, k, obj)
  BY RaisedIs
<1>2. Header \in DOMAIN z.node /\ pos[Header] = 0
      /\ \A x \in DOMAIN z.node : pos[x] \in 0 .. z.length
  BY PosIs
<1>3. /\ \A x \in Members(z) : pos[x] # 0
      /\ \A a, b \in DOMAIN z.node : pos[a] = pos[b] => a = b
      /\ \A j \in 0 .. z.length : \E x \in DOMAIN z.node : pos[x] = j
  BY DEF Whole, Numbered
<1>4. /\ DOMAIN y.node = DOMAIN z.node \cup {obj} /\ y.length = z.length + 1 /\ k \in 0 .. z.length
      /\ obj \notin DOMAIN z.node
  BY DEF Grown
<1>5. new = [n \in DOMAIN y.node |-> new[n]]
  BY <1>4 DEF Raised
<1> HIDE DEF new
<1>6. \A n \in DOMAIN y.node : new[n] \in 0 .. y.length
  BY <1>1, <1>2, <1>4 DEF RaisedFacts
<1>7. new \in [DOMAIN y.node -> 0 .. y.length]
  BY <1>5, <1>6
<1>8. new[Header] = 0
  BY <1>1, <1>2 DEF RaisedFacts
<1>9. \A x \in Members(y) : new[x] # 0
  BY <1>1, <1>3 DEF RaisedFacts
<1>10. ASSUME NEW a \in DOMAIN y.node, NEW b \in DOMAIN y.node, new[a] = new[b] PROVE a = b
  <2>1. CASE a = obj /\ b # obj
    BY <1>1, <1>4, <1>10, <2>1 DEF RaisedFacts
  <2>2. CASE a # obj /\ b = obj
    BY <1>1, <1>4, <1>10, <2>2 DEF RaisedFacts
  <2>3. CASE a # obj /\ b # obj
    BY <1>1, <1>3, <1>4, <1>10, <2>3 DEF RaisedFacts
  <2> QED BY <2>1, <2>2, <2>3
<1>11. ASSUME NEW j \in 0 .. y.length PROVE \E x \in DOMAIN y.node : new[x] = j
  <2>1. z.length \in Nat /\ k \in Nat /\ k <= z.length /\ j \in Nat
    BY <1>1, <1>4, <1>11 DEF RaisedFacts
  <2>2. CASE j = k + 1
    BY <1>1, <1>4, <2>2 DEF RaisedFacts
  <2>3. CASE j <= k
    <3>1. j \in 0 .. z.length
      BY <1>4, <2>1, <2>3
    <3>2. PICK x \in DOMAIN z.node : pos[x] = j
      BY <1>3, <3>1
    <3> QED BY <1>1, <1>4, <2>3, <3>2 DEF RaisedFacts
  <2>4. CASE j > k + 1
    <3>1. j - 1 \in 0 .. z.length /\ ~(j - 1 <= k)
      BY <1>4, <2>1, <2>4
    <3>2. PICK x \in DOMAIN z.node : pos[x] = j - 1
      BY <1>3, <3>1
    <3>3. new[x] = j
      BY <1>1, <2>1, <3>1, <3>2 DEF RaisedFacts
    <3> QED BY <1>4, <3>2, <3>3
  <2> QED BY <2>1, <2>2, <2>3, <2>4
<1>12. Numbered(y, new)
  BY <1>7, <1>8, <1>9, <1>10, <1>11 DEF Numbered
<1> QED BY <1>12 DEF new

\* Its links are right.
LEMMA InsertLinked ==
    ASSUME NEW z, NEW pos, NEW k, NEW h, NEW score, NEW obj, Inserting(z, pos, k, h, score, obj),
           NEW y, NEW u, NEW old, Insertion(z, y, pos, k, h, score, obj, u, old)
    PROVE  Linked(y, Raised(z, pos, k, obj))
<1> DEFINE new == Raised(z, pos, k, obj)
           top == Higher(z, h)
<1>1. Whole(z, pos) /\ obj \notin DOMAIN z.node
  BY DEF Inserting
<1>2. /\ y.level = top /\ DOMAIN y.node = DOMAIN z.node \cup {obj}
      /\ y.node[obj] = NewNode(pos, k, h, score, u, old)
      /\ \A n \in DOMAIN z.node : y.node[n] = OldNode(z, pos, k, h, obj, u, old, n)
      /\ Grown(z, y, k, h, obj)
      /\ top \in Heights /\ top \in Nat \ {0} /\ h \in Nat \ {0} /\ z.level \in Nat
      /\ z.level <= top /\ h <= top /\ top \in {z.level, h}
  <2>1. InsertionFacts(z, y, pos, k, h, score, obj, u, old)
    BY InsertionIs
  <2> QED BY ONLY <2>1 DEF InsertionFacts
<1>3. RaisedFacts(z, y, pos, new, k, obj)
  BY <1>1, <1>2, RaisedIs
<1>4. \A i \in 1 .. top : Spot(z, pos, k, i, u[i], old[i])
  BY DEF Insertion
<1> HIDE DEF new, top
<1>5. ASSUME NEW i \in DOMAIN y.node[obj].level, i <= top
      PROVE  LinkOK(y, new, obj, i, y.node[obj].level[i])
  <2>1. i \in 1 .. h /\ i \in 1 .. top
        /\ y.node[obj].level[i] = [forward |-> old[i].forward,
                                   span |-> old[i].span - (k - pos[u[i]])]
    BY <1>2 DEF NewNode
  <2>2. Spot(z, pos, k, i, u[i], old[i])
    BY <1>4, <2>1
  <2>3. LinkOK(y, new, obj, i, [forward |-> old[i].forward,
                                span |-> old[i].span - (k - pos[u[i]])])
    BY ONLY <1>2, <1>3, <2>1, <2>2, LinkFrom
  <2> QED BY ONLY <2>1, <2>3
<1>6. ASSUME NEW n \in DOMAIN z.node, NEW i \in DOMAIN y.node[n].level, i <= top
      PROVE  LinkOK(y, new, n, i, y.node[n].level[i])
  <2>1. i \in DOMAIN z.node[n].level
        /\ y.node[n].level[i] = IF i <= top /\ u[i] = n
                                THEN Passed(old[i], obj, i <= h, k - pos[u[i]])
                                ELSE z.node[n].level[i]
    <3>1. y.node[n] = OldNode(z, pos, k, h, obj, u, old, n)
      BY <1>2
    <3>2. y.node[n].level = [j \in DOMAIN z.node[n].level |->
                               IF j <= top /\ u[j] = n
                               THEN Passed(old[j], obj, j <= h, k - pos[u[j]])
                               ELSE z.node[n].level[j]]
      BY ONLY <3>1 DEF OldNode, top
    <3> QED BY ONLY <1>6, <3>2
  <2>2. i \in Nat \ {0} /\ i \in Heights
    BY <1>1, <2>1, LinkIs DEF Up
  <2>3. i \in 1 .. top
    BY <1>2, <1>6, <2>2
  <2>4. Spot(z, pos, k, i, u[i], old[i])
    BY <1>4, <2>3
  <2>5. CASE u[i] = n /\ i <= h
    <3>1. y.node[n].level[i] = [forward |-> obj, span |-> (k - pos[n]) + 1]
      BY <1>6, <2>1, <2>5 DEF Passed
    <3>2. i \in 1 .. h
      BY <1>2, <2>2, <2>5
    <3>3. LinkOK(y, new, u[i], i, [forward |-> obj, span |-> (k - pos[u[i]]) + 1])
      BY ONLY <1>2, <1>3, <2>4, <3>2, LinkTo
    <3> QED BY ONLY <2>5, <3>1, <3>3
  <2>6. CASE u[i] = n /\ ~(i <= h)
    <3>1. y.node[n].level[i] = [old[i] EXCEPT !.span = @ + 1]
      BY <1>6, <2>1, <2>6 DEF Passed
    <3>2. i \in Int /\ h \in Int /\ i > h
      BY <1>2, <2>2, <2>6
    <3> QED BY <1>2, <1>3, <2>4, <2>6, <3>1, <3>2, LinkPasses
  <2>7. CASE u[i] # n
    <3> DEFINE l == z.node[n].level[i]
    <3>1. y.node[n].level[i] = l
      BY <2>1, <2>7
    <3>2. i <= z.level
      <4> SUFFICES ASSUME ~(i <= z.level) PROVE FALSE
        OBVIOUS
      <4>1. \A x \in DOMAIN z.node : Up(z, x, i) => x = Header
        BY <1>1 DEF Whole, Topped, Members, Up
      <4>2. Up(z, n, i) /\ Up(z, u[i], i) /\ u[i] \in DOMAIN z.node
        BY <2>1, <2>4 DEF Up, Spot
      <4> QED BY <2>7, <4>1, <4>2
    <3>3. LinkOK(z, pos, n, i, l)
      BY <1>1, <2>1, <3>2, LinkIs DEF Up
    <3>4. /\ u[i] \in DOMAIN z.node /\ Up(z, u[i], i) /\ pos[u[i]] <= k
          /\ \A x \in Members(z) : Up(z, x, i) /\ pos[x] <= k => pos[x] <= pos[u[i]]
      BY <2>4 DEF Spot
    <3>5. Up(z, n, i) /\ pos[n] \in Nat /\ pos[u[i]] \in Nat /\ k \in Nat /\ pos[n] # pos[u[i]]
          /\ pos[Header] = 0 /\ Header \in DOMAIN z.node
      <4>1. pos[n] # pos[u[i]]
        BY <1>1, <2>7, <3>4 DEF Whole, Numbered
      <4> QED BY <1>1, <1>3, <2>1, <3>4, <4>1, PosIs DEF Up, RaisedFacts
    <3> HIDE DEF l
    <3>6. pos[n] <= k => l.forward # NULL /\ pos[l.forward] <= k
      <4> SUFFICES ASSUME pos[n] <= k PROVE l.forward # NULL /\ pos[l.forward] <= k
        OBVIOUS
      <4>1. pos[n] < pos[u[i]]
        <5>1. CASE n = Header
          BY <3>5, <5>1
        <5>2. CASE n # Header
          <6>1. n \in Members(z)
            BY <5>2 DEF Members
          <6> QED BY <3>4, <3>5, <6>1
        <5> QED BY <5>1, <5>2
      <4>2. u[i] \in Members(z)
        <5>1. u[i] # Header
          BY <3>5, <4>1
        <5> QED BY <3>4, <5>1 DEF Members
      <4>3. l.forward # NULL
        <5> SUFFICES ASSUME l.forward = NULL PROVE FALSE
          OBVIOUS
        <5>1. NoneUpAfter(z, pos, pos[n], i)
          BY <1>3, <3>3 DEF LinkOK, RaisedFacts
        <5>2. pos[u[i]] <= pos[n]
          BY <3>4, <4>2, <5>1 DEF NoneUpAfter
        <5> QED BY <3>5, <4>1, <5>2
      <4>4. l.forward \in Members(z) /\ pos[l.forward] <= pos[u[i]]
        BY <3>3, <3>4, <4>1, <4>2, <4>3 DEF LinkOK
      <4>5. pos[l.forward] \in Nat
        BY <1>3, <4>4 DEF RaisedFacts
      <4> QED BY <3>4, <3>5, <4>3, <4>4, <4>5
    <3>7. pos[n] > k \/ (l.forward # NULL /\ pos[l.forward] <= k)
      BY <3>5, <3>6
    <3> QED BY <1>2, <1>3, <3>1, <3>3, <3>7, LinkMoves
  <2> QED BY <2>5, <2>6, <2>7
<1>7. Linked(y, new)
  BY <1>2, <1>5, <1>6 DEF Linked
<1> QED BY <1>7 DEF new

\* On level 1 the last of the first k nodes is the k-th.
LEMMA SpotIsCut ==
    ASSUME NEW z, NEW pos, Whole(z, pos), NEW k \in 0 .. z.length, NEW n, NEW l,
           Spot(z, pos, k, 1, n, l)
    PROVE  /\ n \in DOMAIN z.node /\ pos[n] = k
           /\ k = 0 => n = Header
           /\ k # 0 => n \in Members(z)
           /\ l.forward = NULL => k = z.length
           /\ l.forward # NULL => l.forward \in Members(z) /\ pos[l.forward] = k + 1
<1>1. /\ z.length \in Nat /\ k \in Nat /\ Header \in DOMAIN z.node /\ pos[Header] = 0
      /\ \A x \in DOMAIN z.node : pos[x] \in 0 .. z.length /\ pos[x] \in Nat
      /\ \A x \in Members(z) : x \in DOMAIN z.node /\ pos[x] \in 1 .. z.length
  BY PosIs
<1>2. /\ n \in DOMAIN z.node /\ pos[n] <= k
      /\ \A y \in Members(z) : Up(z, y, 1) /\ pos[y] <= k => pos[y] <= pos[n]
      /\ LinkOK(z, pos, n, 1, l)
  BY DEF Spot
<1>3. \A x \in Members(z) : Up(z, x, 1)
  <2>1. \A x \in Members(z) : z.node[x] \in Node
    BY <1>1, ListIs DEF Whole
  <2> QED BY <2>1, NodeIs DEF Up
<1>4. \A j \in 0 .. z.length : \E x \in DOMAIN z.node : pos[x] = j
  BY DEF Whole, Numbered
<1>5. \A x \in DOMAIN z.node : x = Header \/ x \in Members(z)
  BY DEF Members
<1>6. pos[n] = k
  <2>1. PICK x \in DOMAIN z.node : pos[x] = k
    BY <1>4
  <2>2. CASE x = Header
    BY <1>1, <1>2, <2>1, <2>2
  <2>3. CASE x \in Members(z)
    BY <1>1, <1>2, <1>3, <2>1, <2>3
  <2> QED BY <1>5, <2>2, <2>3
<1>7. ASSUME k # z.length
      PROVE  \E x \in Members(z) : pos[x] = k + 1 /\ Up(z, x, 1)
  <2>1. k + 1 \in 0 .. z.length /\ k + 1 # 0
    BY <1>1, <1>7
  <2>2. PICK x \in DOMAIN z.node : pos[x] = k + 1
    BY <1>4, <2>1
  <2> QED BY <1>1, <1>3, <1>5, <2>1, <2>2
<1>8. CASE l.forward = NULL
  <2>1. NoneUpAfter(z, pos, k, 1)
    <3>1. NULL \notin Members(z)
      BY PosIs DEF Members
    <3> QED BY <1>2, <1>6, <1>8, <3>1 DEF LinkOK
  <2>2. k = z.length
    <3> SUFFICES ASSUME k # z.length PROVE FALSE
      OBVIOUS
    <3>1. PICK x \in Members(z) : pos[x] = k + 1 /\ Up(z, x, 1)
      BY <1>7
    <3>2. pos[x] <= k
      BY <2>1, <3>1 DEF NoneUpAfter
    <3> QED BY <1>1, <3>1, <3>2
  <2> QED BY <1>1, <1>2, <1>5, <1>6, <1>8, <2>2
<1>9. CASE l.forward # NULL
  <2> DEFINE f == l.forward
  <2>1. /\ f \in Members(z) /\ pos[f] > k
        /\ \A y \in Members(z) : Up(z, y, 1) /\ pos[y] > k => pos[f] <= pos[y]
    BY <1>2, <1>6, <1>9 DEF LinkOK
  <2> HIDE DEF f
  <2>2. pos[f] \in 1 .. z.length
    BY <1>1, <2>1
  <2>3. k # z.length
    BY <1>1, <2>1, <2>2
  <2>4. PICK x \in Members(z) : pos[x] = k + 1 /\ Up(z, x, 1)
    BY <1>7, <2>3
  <2>5. pos[f] <= pos[x]
    BY <1>1, <2>1, <2>4
  <2>6. pos[f] = k + 1
    BY <1>1, <2>1, <2>2, <2>4, <2>5
  <2>7. n = Header <=> k = 0
    <3>1. \A v, w \in DOMAIN z.node : pos[v] = pos[w] => v = w
      BY DEF Whole, Numbered
    <3> QED BY <1>1, <1>2, <1>6, <3>1
  <2>8. f \in Members(z) /\ pos[f] = k + 1
    BY <2>1, <2>6
  <2> QED BY <1>2, <1>5, <1>6, <1>9, <2>3, <2>7, <2>8 DEF f
<1> QED BY <1>8, <1>9

\* What makes a node, a link, and a list.
LEMMA IsNode ==
    ASSUME NEW s \in Scores, NEW b \in Elems \cup {NULL}, NEW h \in Heights,
           NEW v \in [1 .. h -> Link]
    PROVE  [score |-> s, backward |-> b, level |-> v] \in Node
BY DEF Node

LEMMA IsLink ==
    ASSUME NEW z, NEW pos, Numbered(z, pos), z.length \in Nat, Members(z) \subseteq Elems,
           NEW x \in DOMAIN z.node, NEW i, NEW l, l = [forward |-> l.forward, span |-> l.span],
           LinkOK(z, pos, x, i, l)
    PROVE  l \in Link
<1>1. \A n \in DOMAIN z.node : pos[n] \in 0 .. z.length
  BY DEF Numbered
<1>2. l.forward \in Elems \cup {NULL}
  BY DEF LinkOK
<1>3. CASE l.forward \in Members(z) /\ pos[l.forward] > pos[x] /\ l.span = pos[l.forward] - pos[x]
  <2>1. pos[l.forward] \in Nat /\ pos[x] \in Nat
    BY <1>1, <1>3 DEF Members
  <2>2. l.span \in Nat
    BY <1>3, <2>1
  <2> QED BY <1>2, <2>2 DEF Link
<1>4. CASE l.span = z.length - pos[x]
  <2>1. pos[x] \in 0 .. z.length
    BY <1>1
  <2>2. l.span \in Nat
    BY <1>4, <2>1
  <2> QED BY <1>2, <2>2 DEF Link
<1> QED BY <1>3, <1>4 DEF LinkOK

LEMMA IsList ==
    ASSUME NEW S \in SUBSET Elems, NEW level \in Heights, NEW length \in Nat,
           NEW tail \in Elems \cup {NULL}, NEW f \in [{Header} \cup S -> Node]
    PROVE  [level |-> level, length |-> length, tail |-> tail, node |-> f] \in SkipLists
BY DEF SkipLists

\* Its list is a list.
LEMMA InsertIsList ==
    ASSUME NEW z, NEW pos, NEW k, NEW h, NEW score, NEW obj, Inserting(z, pos, k, h, score, obj),
           NEW y, NEW u, NEW old, Insertion(z, y, pos, k, h, score, obj, u, old)
    PROVE  y \in SkipLists
<1> DEFINE new == Raised(z, pos, k, obj)
<1>1. /\ Whole(z, pos) /\ obj \notin DOMAIN z.node /\ obj \in Elems
      /\ h \in Heights /\ score \in Scores /\ k \in 0 .. z.length
  BY DEF Inserting, Cut
<1>2. InsertionFacts(z, y, pos, k, h, score, obj, u, old)
  BY InsertionIs
<1>3. Linked(y, new)
  BY InsertLinked
<1>4. Grown(z, y, k, h, obj)
  BY <1>2 DEF InsertionFacts
<1>5. Numbered(y, new)
  BY <1>1, <1>4, InsertNumbered
<1> HIDE DEF new
<1>6. /\ y.level \in Heights /\ y.level = Higher(z, h) /\ y.level \in Nat \ {0}
      /\ y.length = z.length + 1
      /\ DOMAIN y.node = DOMAIN z.node \cup {obj}
      /\ y.node = [n \in DOMAIN y.node |-> y.node[n]]
      /\ y.node[obj] = NewNode(pos, k, h, score, u, old)
      /\ \A n \in DOMAIN z.node : y.node[n] = OldNode(z, pos, k, h, obj, u, old, n)
      /\ y.tail = IF old[1].forward = NULL THEN obj ELSE z.tail
      /\ h <= Higher(z, h) /\ h \in Nat \ {0}
  BY ONLY <1>2 DEF InsertionFacts
<1>7. /\ z.length \in Nat /\ z.tail \in Elems \cup {NULL} /\ Members(z) \subseteq Elems
      /\ DOMAIN z.node = {Header} \cup Members(z)
      /\ \A n \in DOMAIN z.node : z.node[n] \in Node
  BY <1>1, ListIs DEF Whole
<1>8. /\ obj # Header /\ y.length \in Nat /\ Members(y) \subseteq Elems
      /\ DOMAIN y.node = {Header} \cup (Members(z) \cup {obj})
  BY <1>1, <1>6, <1>7, ZSetAssumption DEF Members
<1>9. \A i \in 1 .. Higher(z, h) : Spot(z, pos, k, i, u[i], old[i])
  BY DEF Insertion
<1>10. \A i \in 1 .. Higher(z, h) : old[i] = [forward |-> old[i].forward, span |-> old[i].span]
  BY <1>9 DEF Spot
<1>11. ASSUME NEW n \in DOMAIN y.node, NEW i \in DOMAIN y.node[n].level, i <= y.level,
              y.node[n].level[i] = [forward |-> y.node[n].level[i].forward,
                                    span |-> y.node[n].level[i].span]
       PROVE  y.node[n].level[i] \in Link
  <2>1. LinkOK(y, new, n, i, y.node[n].level[i])
    BY <1>3, <1>11 DEF Linked
  <2> QED BY <1>5, <1>8, <1>11, <2>1, IsLink
<1>12. u[1] = Header \/ u[1] \in Elems
  <2>1. 1 \in 1 .. Higher(z, h)
    BY <1>6
  <2>2. u[1] \in DOMAIN z.node
    BY <1>9, <2>1 DEF Spot
  <2> QED BY <1>7, <2>2
<1>13. y.node[obj] \in Node
  <2> DEFINE v == y.node[obj].level
  <2>1. v = [i \in 1 .. h |-> [forward |-> old[i].forward, span |-> old[i].span - (k - pos[u[i]])]]
    BY <1>6 DEF NewNode
  <2>2. \A i \in 1 .. h : v[i] \in Link
    <3> TAKE i \in 1 .. h
    <3>1. v[i] = [forward |-> v[i].forward, span |-> v[i].span]
      BY <2>1
    <3>2. i \in DOMAIN v /\ i <= y.level /\ obj \in DOMAIN y.node
      BY <1>6, <2>1
    <3> QED BY <1>11, <3>1, <3>2
  <2>3. v = [i \in 1 .. h |-> v[i]]
    BY <2>1
  <2>4. y.node[obj] = [score |-> score, backward |-> IF u[1] = Header THEN NULL ELSE u[1],
                       level |-> v]
    BY <1>6 DEF NewNode
  <2> HIDE DEF v
  <2>5. v \in [1 .. h -> Link]
    BY <2>2, <2>3
  <2> QED BY <1>1, <1>12, <2>4, <2>5, IsNode
<1>14. ASSUME NEW n \in DOMAIN z.node PROVE y.node[n] \in Node
  <2> DEFINE v == y.node[n].level
             w == z.node[n].level
             b == IF n = old[1].forward THEN obj ELSE z.node[n].backward
  <2>1. y.node[n] = OldNode(z, pos, k, h, obj, u, old, n)
    BY <1>6
  <2>2. y.node[n] = [score |-> z.node[n].score, backward |-> b, level |-> v]
        /\ v = [i \in DOMAIN w |-> IF i <= Higher(z, h) /\ u[i] = n
                                   THEN Passed(old[i], obj, i <= h, k - pos[u[i]])
                                   ELSE w[i]]
    BY <2>1 DEF OldNode
  <2>3. /\ z.node[n].score \in Scores /\ z.node[n].backward \in Elems \cup {NULL}
        /\ w \in UNION {[1 .. g -> Link] : g \in Heights} /\ DOMAIN w \subseteq Heights
        /\ \A i \in DOMAIN w : w[i] = [forward |-> w[i].forward, span |-> w[i].span]
                               /\ w[i] \in Link
    <3>1. z.node[n] \in Node
      BY <1>7
    <3>2. \A i \in DOMAIN w : w[i] \in Link
      BY <3>1, NodeIs DEF Link
    <3> QED BY <3>1, <3>2, NodeIs
  <2>4. b \in Elems \cup {NULL}
    BY <1>1, <2>3
  <2>5. PICK g \in Heights : w \in [1 .. g -> Link]
    BY <2>3
  <2>6. DOMAIN w = 1 .. g
    BY <2>5
  <2>8. n \in DOMAIN y.node
    BY <1>6
  <2>7. ASSUME NEW i \in DOMAIN w PROVE v[i] \in Link
    <3>1. v[i] = (IF i <= Higher(z, h) /\ u[i] = n
                  THEN Passed(old[i], obj, i <= h, k - pos[u[i]]) ELSE w[i])
          /\ i \in DOMAIN v
      BY <2>2
    <3>2. CASE i <= Higher(z, h) /\ u[i] = n
      <4>1. i \in 1 .. Higher(z, h)
        BY <1>6, <2>3, <3>2 DEF Heights
      <4>2. old[i] = [forward |-> old[i].forward, span |-> old[i].span]
        BY <1>10, <4>1
      <4>3. Passed(old[i], obj, i <= h, k - pos[u[i]]) =
               (IF i <= h THEN [forward |-> obj, span |-> (k - pos[u[i]]) + 1]
                ELSE [forward |-> old[i].forward, span |-> old[i].span + 1])
        BY <4>2, SpanIs DEF Passed
      <4>4. v[i] = [forward |-> v[i].forward, span |-> v[i].span]
        BY <3>1, <3>2, <4>3
      <4>5. i <= y.level
        BY <1>6, <3>2
      <4> QED BY <1>11, <2>8, <3>1, <4>4, <4>5
    <3>3. CASE ~(i <= Higher(z, h) /\ u[i] = n)
      BY <2>3, <3>1, <3>3
    <3> QED BY <3>2, <3>3
  <2> HIDE DEF w, b
  <2>9. v \in [1 .. g -> Link]
    <3>1. v = [i \in 1 .. g |-> v[i]]
      BY <2>2, <2>6
    <3> HIDE DEF v
    <3> QED BY <2>6, <2>7, <3>1
  <2> HIDE DEF v
  <2>10. y.node[n] = [score |-> z.node[n].score, backward |-> b, level |-> v]
    BY <2>2
  <2> QED BY <2>3, <2>4, <2>9, <2>10, IsNode
<1>15. y.node \in [{Header} \cup (Members(z) \cup {obj}) -> Node]
  BY <1>6, <1>8, <1>13, <1>14
<1>16. y.tail \in Elems \cup {NULL}
  BY <1>1, <1>6, <1>7
<1>17. y = [level |-> y.level, length |-> y.length, tail |-> y.tail, node |-> y.node]
  BY DEF Insertion
<1>18. Members(z) \cup {obj} \in SUBSET Elems
  BY <1>1, <1>7
<1>19. [level |-> y.level, length |-> y.length, tail |-> y.tail, node |-> y.node] \in SkipLists
  BY ONLY <1>6, <1>8, <1>15, <1>16, <1>18, IsList
<1> QED BY <1>17, <1>19

\* The parts of the nodes.
LEMMA NewNodeIs ==
    ASSUME NEW pos, NEW k, NEW h, NEW score, NEW u, NEW old
    PROVE  /\ NewNode(pos, k, h, score, u, old).score = score
           /\ NewNode(pos, k, h, score, u, old).backward = IF u[1] = Header THEN NULL ELSE u[1]
           /\ DOMAIN NewNode(pos, k, h, score, u, old).level = 1 .. h
BY DEF NewNode

LEMMA OldNodeIs ==
    ASSUME NEW z, NEW pos, NEW k, NEW h, NEW obj, NEW u, NEW old, NEW n
    PROVE  /\ OldNode(z, pos, k, h, obj, u, old, n).score = z.node[n].score
           /\ OldNode(z, pos, k, h, obj, u, old, n).backward =
                 IF n = old[1].forward THEN obj ELSE z.node[n].backward
           /\ OldNode(z, pos, k, h, obj, u, old, n).level =
                 [i \in DOMAIN z.node[n].level |->
                    IF i <= Higher(z, h) /\ u[i] = n
                    THEN Passed(old[i], obj, i <= h, k - pos[u[i]])
                    ELSE z.node[n].level[i]]
BY DEF OldNode

\* No node of it is higher than it is.
LEMMA InsertTopped ==
    ASSUME NEW z, NEW pos, NEW k, NEW h, NEW score, NEW obj, Inserting(z, pos, k, h, score, obj),
           NEW y, NEW u, NEW old, Insertion(z, y, pos, k, h, score, obj, u, old)
    PROVE  Topped(y)
<1>1. Whole(z, pos) /\ obj \notin DOMAIN z.node /\ obj \in Elems
  BY DEF Inserting
<1>2. InsertionFacts(z, y, pos, k, h, score, obj, u, old)
  BY InsertionIs
<1>3. /\ y.level = Higher(z, h) /\ z.level <= Higher(z, h) /\ h <= Higher(z, h)
      /\ Higher(z, h) \in Nat /\ z.level \in Nat /\ h \in Nat
      /\ DOMAIN y.node = DOMAIN z.node \cup {obj}
      /\ y.node[obj] = NewNode(pos, k, h, score, u, old)
      /\ \A n \in DOMAIN z.node : y.node[n] = OldNode(z, pos, k, h, obj, u, old, n)
  BY ONLY <1>2 DEF InsertionFacts
<1>4. Header \in DOMAIN z.node /\ obj # Header /\ obj \notin Members(z)
  BY <1>1, PosIs, ZSetAssumption DEF Members
<1>5. \A n \in DOMAIN z.node :
         y.node[n].level = [i \in DOMAIN z.node[n].level |->
                              IF i <= Higher(z, h) /\ u[i] = n
                              THEN Passed(old[i], obj, i <= h, k - pos[u[i]])
                              ELSE z.node[n].level[i]]
  BY ONLY <1>3, OldNodeIs
<1>6. /\ DOMAIN z.node[Header].level = Heights
      /\ \A i \in Heights : i > z.level => z.node[Header].level[i].forward = NULL
      /\ \A x \in Members(z) : \A i \in DOMAIN z.node[x].level : i <= z.level
  BY <1>1 DEF Whole, Topped
<1>7. Heights \subseteq Nat
  BY ZSetAssumption DEF Heights
<1>8. DOMAIN y.node[Header].level = Heights
  BY <1>4, <1>5, <1>6
<1>9. ASSUME NEW i \in Heights, i > y.level PROVE y.node[Header].level[i].forward = NULL
  <2>1. ~(i <= Higher(z, h)) /\ i > z.level
    BY <1>3, <1>7, <1>9
  <2>2. y.node[Header].level[i] = z.node[Header].level[i]
    BY <1>4, <1>5, <1>6, <2>1
  <2> QED BY <1>6, <2>1, <2>2
<1>10. ASSUME NEW x \in Members(y), NEW i \in DOMAIN y.node[x].level PROVE i <= y.level
  <2>1. CASE x = obj
    <3>1. i \in 1 .. h
      BY ONLY <1>3, <1>10, <2>1, NewNodeIs
    <3> QED BY <1>3, <3>1
  <2>2. CASE x # obj
    <3>1. x \in Members(z) /\ x \in DOMAIN z.node
      BY <1>3, <2>2 DEF Members
    <3>2. i \in DOMAIN z.node[x].level
      BY <1>5, <1>10, <3>1
    <3>3. i \in Heights
      BY <1>1, <3>1, <3>2, LinkIs DEF Up
    <3> QED BY <1>3, <1>6, <1>7, <3>1, <3>2, <3>3
  <2> QED BY <2>1, <2>2
<1> QED BY <1>8, <1>9, <1>10 DEF Topped

\* Its backward pointers are right.
LEMMA InsertBacked ==
    ASSUME NEW z, NEW pos, NEW k, NEW h, NEW score, NEW obj, Inserting(z, pos, k, h, score, obj),
           NEW y, NEW u, NEW old, Insertion(z, y, pos, k, h, score, obj, u, old)
    PROVE  Backed(y, Raised(z, pos, k, obj))
<1> DEFINE new == Raised(z, pos, k, obj)
           f == old[1].forward
<1>1. Whole(z, pos) /\ obj \notin DOMAIN z.node /\ obj \in Elems /\ k \in 0 .. z.length
  BY DEF Inserting, Cut
<1>2. InsertionFacts(z, y, pos, k, h, score, obj, u, old)
  BY InsertionIs
<1>3. /\ Higher(z, h) \in Nat \ {0} /\ Grown(z, y, k, h, obj)
      /\ DOMAIN y.node = DOMAIN z.node \cup {obj} /\ y.length = z.length + 1
      /\ y.tail = IF f = NULL THEN obj ELSE z.tail
      /\ y.node[obj] = NewNode(pos, k, h, score, u, old)
      /\ \A n \in DOMAIN z.node : y.node[n] = OldNode(z, pos, k, h, obj, u, old, n)
  BY ONLY <1>2 DEF InsertionFacts
<1>4. RaisedFacts(z, y, pos, new, k, obj)
  BY <1>1, <1>3, RaisedIs
<1>5. Spot(z, pos, k, 1, u[1], old[1])
  <2>1. 1 \in 1 .. Higher(z, h)
    BY <1>3
  <2> QED BY <2>1 DEF Insertion
<1>6. /\ u[1] \in DOMAIN z.node /\ pos[u[1]] = k
      /\ k = 0 => u[1] = Header
      /\ k # 0 => u[1] \in Members(z)
      /\ f = NULL => k = z.length
      /\ f # NULL => f \in Members(z) /\ pos[f] = k + 1
  BY <1>1, <1>5, SpotIsCut
<1>7. /\ y.node[obj].backward = IF u[1] = Header THEN NULL ELSE u[1]
      /\ \A n \in DOMAIN z.node :
            y.node[n].backward = IF n = f THEN obj ELSE z.node[n].backward
  <2>1. y.node[obj].backward = IF u[1] = Header THEN NULL ELSE u[1]
    BY ONLY <1>3, NewNodeIs
  <2>2. ASSUME NEW n \in DOMAIN z.node
        PROVE  y.node[n].backward = IF n = f THEN obj ELSE z.node[n].backward
    <3>1. y.node[n] = OldNode(z, pos, k, h, obj, u, old, n)
      BY <1>3
    <3> QED BY ONLY <3>1 DEF OldNode, f
  <2> QED BY <2>1, <2>2
<1>8. /\ z.length \in Nat /\ k \in Nat /\ k <= z.length
      /\ Members(y) = Members(z) \cup {obj} /\ obj \notin Members(z) /\ obj # NULL
      /\ NULL \notin Members(z) /\ Header \notin Members(z)
      /\ new[obj] = k + 1
      /\ \A n \in DOMAIN z.node : new[n] = IF pos[n] <= k THEN pos[n] ELSE pos[n] + 1
      /\ \A n \in DOMAIN z.node : pos[n] \in Nat
      /\ \A n \in Members(z) : n \in DOMAIN z.node /\ pos[n] # 0 /\ pos[n] <= z.length
  <2>1. \A n \in Members(z) : n \in DOMAIN z.node /\ pos[n] \in 1 .. z.length
    BY <1>1, PosIs
  <2>2. Header \notin Members(z)
    BY DEF Members
  <2> QED BY <1>1, <1>4, <2>1, <2>2 DEF RaisedFacts
<1>9. /\ \A x \in Members(z) :
            IF pos[x] = 1 THEN z.node[x].backward = NULL
            ELSE z.node[x].backward \in Members(z) /\ pos[z.node[x].backward] = pos[x] - 1
      /\ IF z.length = 0 THEN z.tail = NULL
         ELSE z.tail \in Members(z) /\ pos[z.tail] = z.length
      /\ \A a, b \in DOMAIN z.node : pos[a] = pos[b] => a = b
  BY <1>1 DEF Whole, Backed, Numbered
<1> HIDE DEF new, f
<1>10. IF new[obj] = 1 THEN y.node[obj].backward = NULL
       ELSE y.node[obj].backward \in Members(y) /\ new[y.node[obj].backward] = new[obj] - 1
  <2>1. CASE k = 0
    BY <1>6, <1>7, <1>8, <2>1
  <2>2. CASE k # 0
    <3>1. y.node[obj].backward = u[1] /\ new[u[1]] = k
      BY <1>6, <1>7, <1>8, <2>2
    <3> QED BY <1>6, <1>8, <2>2, <3>1
  <2> QED BY <2>1, <2>2
<1>11. ASSUME NEW x \in Members(z)
       PROVE  IF new[x] = 1 THEN y.node[x].backward = NULL
              ELSE y.node[x].backward \in Members(y) /\ new[y.node[x].backward] = new[x] - 1
  <2>1. CASE x = f
    <3>1. pos[x] = k + 1 /\ new[x] = k + 2 /\ y.node[x].backward = obj
      BY <1>6, <1>7, <1>8, <2>1
    <3> QED BY <1>8, <3>1
  <2>2. CASE x # f
    <3>1. y.node[x].backward = z.node[x].backward /\ pos[x] \in Nat /\ pos[x] # 0 /\ pos[x] <= z.length
          /\ new[x] = IF pos[x] <= k THEN pos[x] ELSE pos[x] + 1
      BY <1>7, <1>8, <2>2
    <3>2. pos[x] # k + 1
      <4> SUFFICES ASSUME pos[x] = k + 1 PROVE FALSE
        OBVIOUS
      <4>1. f = NULL
        BY <1>6, <1>8, <1>9, <2>2
      <4> QED BY <1>6, <1>8, <3>1, <4>1
    <3>3. CASE pos[x] = 1
      <4>1. z.node[x].backward = NULL /\ k >= 1
        BY <1>8, <1>9, <3>2, <3>3
      <4> QED BY <1>8, <3>1, <3>3, <4>1
    <3>4. CASE pos[x] # 1
      <4> DEFINE b == z.node[x].backward
      <4>1. b \in Members(z) /\ pos[b] = pos[x] - 1
        BY <1>9, <3>4
      <4> HIDE DEF b
      <4>2. b \in DOMAIN z.node /\ new[b] = IF pos[b] <= k THEN pos[b] ELSE pos[b] + 1
        BY <1>8, <4>1
      <4>3. new[b] = new[x] - 1 /\ new[x] # 1
        BY <1>8, <3>1, <3>2, <3>4, <4>1, <4>2
      <4> QED BY <1>8, <3>1, <4>1, <4>3 DEF b
    <3> QED BY <3>3, <3>4
  <2> QED BY <2>1, <2>2
<1>12. \A x \in Members(y) : IF new[x] = 1 THEN y.node[x].backward = NULL
              ELSE y.node[x].backward \in Members(y) /\ new[y.node[x].backward] = new[x] - 1
  BY <1>8, <1>10, <1>11
<1>13. y.length # 0 /\ y.tail \in Members(y) /\ new[y.tail] = y.length
  <2>1. CASE f = NULL
    BY <1>3, <1>6, <1>8, <2>1
  <2>2. CASE f # NULL
    <3>1. k < z.length /\ z.length # 0
      BY <1>6, <1>8, <2>2
    <3>2. z.tail \in Members(z) /\ pos[z.tail] = z.length /\ y.tail = z.tail
      BY <1>3, <1>9, <2>2, <3>1
    <3> QED BY <1>3, <1>8, <3>1, <3>2
  <2> QED BY <2>1, <2>2
<1>14. Backed(y, new)
  BY <1>12, <1>13 DEF Backed
<1> QED BY <1>14 DEF new

\* Its scores, and its order.
LEMMA InsertScores ==
    ASSUME NEW z, NEW pos, NEW k, NEW h, NEW score, NEW obj, Inserting(z, pos, k, h, score, obj),
           NEW y, NEW u, NEW old, Insertion(z, y, pos, k, h, score, obj, u, old)
    PROVE  /\ y.node[obj].score = score
           /\ \A n \in DOMAIN z.node : y.node[n].score = z.node[n].score
           /\ Members(y) = Members(z) \cup {obj} /\ y.length = z.length + 1
<1>1. InsertionFacts(z, y, pos, k, h, score, obj, u, old)
  BY InsertionIs
<1>2. /\ y.node[obj] = NewNode(pos, k, h, score, u, old)
      /\ \A n \in DOMAIN z.node : y.node[n] = OldNode(z, pos, k, h, obj, u, old, n)
      /\ DOMAIN y.node = DOMAIN z.node \cup {obj} /\ y.length = z.length + 1
  BY ONLY <1>1 DEF InsertionFacts
<1>3. obj # Header
  BY ZSetAssumption DEF Inserting
<1>4. /\ y.node[obj].score = score
      /\ \A n \in DOMAIN z.node : y.node[n].score = z.node[n].score
  <2>1. y.node[obj].score = score
    BY ONLY <1>2, NewNodeIs
  <2>2. ASSUME NEW n \in DOMAIN z.node PROVE y.node[n].score = z.node[n].score
    <3>1. y.node[n] = OldNode(z, pos, k, h, obj, u, old, n)
      BY <1>2
    <3> QED BY ONLY <3>1 DEF OldNode
  <2> QED BY <2>1, <2>2
<1> QED BY <1>2, <1>3, <1>4 DEF Members

LEMMA InsertOrdered ==
    ASSUME NEW z, NEW pos, NEW k, NEW h, NEW score, NEW obj, Inserting(z, pos, k, h, score, obj),
           NEW y, NEW u, NEW old, Insertion(z, y, pos, k, h, score, obj, u, old)
    PROVE  Ordered(y, Raised(z, pos, k, obj))
<1> DEFINE new == Raised(z, pos, k, obj)
<1>1. /\ Whole(z, pos) /\ obj \notin DOMAIN z.node /\ obj \in Elems /\ score \in Scores
      /\ Cut(z, pos, BeforeThese(z, score, obj), k)
  BY DEF Inserting
<1>2. Grown(z, y, k, h, obj)
  BY InsertionIs DEF InsertionFacts
<1>3. RaisedFacts(z, y, pos, new, k, obj)
  BY <1>1, <1>2, RaisedIs
<1> HIDE DEF new
<1>4. /\ y.node[obj].score = score
      /\ \A n \in DOMAIN z.node : y.node[n].score = z.node[n].score
  BY InsertScores
<1>5. /\ score \in Int /\ obj \in Int /\ score # NaN
      /\ \A x \in Members(z) : x \in Int /\ z.node[x].score \in Int /\ z.node[x].score # NaN
  <2>1. Scores \subseteq Int /\ NaN \notin Int
    BY ZSetAssumption DEF Scores
  <2> QED BY <1>1, <2>1, PosIs, ZSetAssumption
<1>6. \A x \in Members(z) : Before(z, x, score, obj) <=> pos[x] <= k
  <2> TAKE x \in Members(z)
  <2> DEFINE cross == BeforeThese(z, score, obj)
  <2>1. cross[[node |-> x, rank |-> pos[x]]] <=> pos[x] <= k
    BY <1>1 DEF Cut
  <2>2. cross[[node |-> x, rank |-> pos[x]]] = Before(z, x, score, obj)
    BY <1>1, CrossedAre
  <2> HIDE DEF cross
  <2> QED BY <2>1, <2>2
<1>7. /\ k \in Nat /\ Members(y) = Members(z) \cup {obj} /\ obj \notin Members(z)
      /\ new[obj] = k + 1
      /\ \A n \in Members(z) : /\ n \in DOMAIN z.node /\ pos[n] \in Nat
                               /\ new[n] = IF pos[n] <= k THEN pos[n] ELSE pos[n] + 1
  BY <1>3 DEF RaisedFacts
<1>8. ASSUME NEW a \in Members(z), NEW b \in Members(z), new[a] < new[b]
      PROVE  Before(y, a, y.node[b].score, b)
  <2>1. pos[a] < pos[b]
    BY <1>7, <1>8
  <2>2. Before(z, a, z.node[b].score, b)
    BY <1>1, <2>1 DEF Whole, Ordered
  <2> QED BY <1>4, <1>7, <2>2 DEF Before
<1>9. ASSUME NEW a \in Members(z), new[a] < new[obj] PROVE Before(y, a, y.node[obj].score, obj)
  <2>1. pos[a] <= k
    BY <1>7, <1>9
  <2>2. Before(z, a, score, obj)
    BY <1>6, <2>1
  <2> QED BY <1>4, <1>7, <2>2 DEF Before
<1>10. ASSUME NEW b \in Members(z), new[obj] < new[b] PROVE Before(y, obj, y.node[b].score, b)
  <2>1. ~(pos[b] <= k) /\ b # obj
    BY <1>7, <1>10
  <2>2. ~Before(z, b, score, obj)
    BY <1>6, <2>1
  <2> QED BY <1>4, <1>5, <1>7, <2>1, <2>2 DEF Before, Less, Equal
<1>11. ASSUME NEW a \in Members(y), NEW b \in Members(y), new[a] < new[b]
       PROVE  Before(y, a, y.node[b].score, b)
  <2>1. ~(new[obj] < new[obj])
    BY <1>7
  <2> QED BY <1>7, <1>8, <1>9, <1>10, <1>11, <2>1
<1>12. Ordered(y, new)
  BY <1>11 DEF Ordered
<1> QED BY <1>12 DEF new

\* A list that is whole is so with one more node.
LEMMA InsertWhole ==
    ASSUME NEW z, NEW pos, Whole(z, pos), NEW h \in Heights, NEW score \in Scores,
           NEW obj \in Elems, obj \notin DOMAIN z.node
    PROVE  LET y == zslInsert(z, h, score, obj)
           IN  /\ \E new : Whole(y, new)
               /\ Members(y) = Members(z) \cup {obj} /\ y.length = z.length + 1
               /\ y.node[obj].score = score
               /\ \A n \in Members(z) : y.node[n].score = z.node[n].score
<1> DEFINE y == zslInsert(z, h, score, obj)
<1>1. PICK k : Cut(z, pos, BeforeThese(z, score, obj), k)
  BY BeforeCut
<1>2. Inserting(z, pos, k, h, score, obj)
  BY <1>1 DEF Inserting
<1>3. PICK u, old : Insertion(z, y, pos, k, h, score, obj, u, old)
  BY <1>1, InsertIs
<1> HIDE DEF y
<1>4. /\ y \in SkipLists /\ Linked(y, Raised(z, pos, k, obj)) /\ Topped(y)
      /\ Backed(y, Raised(z, pos, k, obj)) /\ Ordered(y, Raised(z, pos, k, obj))
  BY ONLY <1>2, <1>3, InsertIsList, InsertLinked, InsertTopped, InsertBacked, InsertOrdered
<1>5. Numbered(y, Raised(z, pos, k, obj))
  <2>1. Grown(z, y, k, h, obj)
    BY <1>2, <1>3, InsertionIs DEF InsertionFacts
  <2> QED BY <2>1, InsertNumbered
<1>6. Whole(y, Raised(z, pos, k, obj))
  BY <1>4, <1>5 DEF Whole
<1>7. /\ y.node[obj].score = score
      /\ \A n \in DOMAIN z.node : y.node[n].score = z.node[n].score
      /\ Members(y) = Members(z) \cup {obj} /\ y.length = z.length + 1
  BY ONLY <1>2, <1>3, InsertScores
<1>8. \A n \in Members(z) : n \in DOMAIN z.node
  BY DEF Members
<1> QED BY <1>6, <1>7, <1>8 DEF y

-----------------------------------------------------------------------------
(* Deleting.                                                               *)

\* u has the last of the first k nodes on each level.
Spots(z, pos, k, u) ==
    \A i \in 1 .. z.level :
        /\ u[i] \in DOMAIN z.node /\ Up(z, u[i], i) /\ pos[u[i]] <= k
        /\ \A y \in Members(z) : Up(z, y, i) /\ pos[y] <= k => pos[y] <= pos[u[i]]

\* x is the next one.
Deleting(z, pos, k, x, u) ==
    /\ Whole(z, pos) /\ Spots(z, pos, k, u)
    /\ x \in Members(z) /\ k \in Nat /\ pos[x] = k + 1

\* What zslDeleteNode makes of a link, of a node and of the list.
Unlinked(z, x, u, n, i) ==
    IF i > z.level \/ u[i] # n THEN z.node[n].level[i]
    ELSE IF z.node[n].level[i].forward # x THEN [z.node[n].level[i] EXCEPT !.span = @ - 1]
    ELSE [forward |-> z.node[x].level[i].forward,
          span |-> z.node[n].level[i].span + z.node[x].level[i].span - 1]
LeftNode(z, x, u, n) ==
    [score |-> z.node[n].score,
     backward |-> IF n = z.node[x].level[1].forward THEN z.node[x].backward
                  ELSE z.node[n].backward,
     level |-> [i \in DOMAIN z.node[n].level |-> Unlinked(z, x, u, n, i)]]
UsedLevels(z, f) == {1} \cup {i \in 1 .. z.level : f[Header].level[i].forward # NULL}
Deletion(z, y, x, u) ==
    /\ y = [level |-> Max(UsedLevels(z, y.node)), length |-> z.length - 1,
            tail |-> TailWithout(z, x), node |-> y.node]
    /\ y.node = [n \in DOMAIN z.node \ {x} |-> LeftNode(z, x, u, n)]

LEMMA DeleteIs ==
    ASSUME NEW z, NEW pos, Whole(z, pos), NEW x, NEW u
    PROVE  Deletion(z, zslDeleteNode(z, x, u), x, u)
<1> DEFINE Level(n, i) ==
              LET l == z.node[n].level[i]
              IN  IF i > z.level \/ u[i] # n THEN l
                  ELSE IF l.forward # x THEN [l EXCEPT !.span = @ - 1]
                  ELSE LET lx == z.node[x].level[i]
                       IN  [forward |-> lx.forward, span |-> l.span + lx.span - 1]
           changed(n) == [z.node[n] EXCEPT
                            !.backward = IF n = z.node[x].level[1].forward
                                         THEN z.node[x].backward ELSE @,
                            !.level = [i \in DOMAIN @ |-> Level(n, i)]]
           f == [n \in DOMAIN z.node \ {x} |-> changed(n)]
           y == zslDeleteNode(z, x, u)
<1>1. y = [level |-> Max({1} \cup {i \in 1 .. z.level : f[Header].level[i].forward # NULL}),
           length |-> z.length - 1, tail |-> TailWithout(z, x), node |-> f]
  BY DEF zslDeleteNode
<1>2. ASSUME NEW n \in DOMAIN z.node PROVE changed(n) = LeftNode(z, x, u, n)
  <2>1. z.node[n] = [score |-> z.node[n].score, backward |-> z.node[n].backward,
                     level |-> z.node[n].level]
    <3>1. z.node[n] \in Node
      BY ListIs DEF Whole
    <3> QED BY <3>1, NodeIs
  <2>2. \A i \in DOMAIN z.node[n].level : Level(n, i) = Unlinked(z, x, u, n, i)
    BY DEF Unlinked
  <2> HIDE DEF Level, f, y
  <2> DEFINE b == IF n = z.node[x].level[1].forward THEN z.node[x].backward
                  ELSE z.node[n].backward
             v == [i \in DOMAIN z.node[n].level |-> Level(n, i)]
             m == z.node[n]
  <2>3. changed(n) = [m EXCEPT !.backward = b, !.level = v]
    OBVIOUS
  <2>4. LeftNode(z, x, u, n) = [score |-> m.score, backward |-> b, level |-> v]
    BY <2>2 DEF LeftNode
  <2>5. m = [score |-> m.score, backward |-> m.backward, level |-> m.level]
    BY <2>1
  <2> HIDE DEF b, v, m, changed
  <2>6. [m EXCEPT !.backward = b, !.level = v] = [score |-> m.score, backward |-> b, level |-> v]
    BY <2>5, ChangedIs
  <2> QED BY <2>3, <2>4, <2>6
<1> HIDE DEF changed
<1>3. f = [n \in DOMAIN z.node \ {x} |-> LeftNode(z, x, u, n)]
  BY <1>2
<1> HIDE DEF f, y
<1>4. y.node = f
  BY <1>1
<1>5. y = [level |-> Max(UsedLevels(z, f)), length |-> z.length - 1,
           tail |-> TailWithout(z, x), node |-> f]
  BY <1>1 DEF UsedLevels
<1>6. Deletion(z, y, x, u)
  BY <1>3, <1>4, <1>5 DEF Deletion
<1> QED BY <1>6 DEF y

\* A set of numbers up to N has a maximum.
LEMMA MaxUpTo ==
    ASSUME NEW N \in Nat, NEW S \in SUBSET (0 .. N), S # {}
    PROVE  Max(S) \in S /\ \A n \in S : n <= Max(S)
<1> DEFINE B == {N - n : n \in S}
<1>1. B \in SUBSET Nat /\ B # {}
  <2>1. \A n \in S : n \in 0 .. N /\ N - n \in Nat
    OBVIOUS
  <2> QED BY <2>1
<1>2. PICK b \in B : \A c \in B : b <= c
  <2> HIDE DEF B
  <2> QED BY <1>1, LeastNat
<1>3. PICK m \in S : b = N - m
  BY <1>2
<1>4. \A n \in S : n <= m
  <2> TAKE n \in S
  <2>1. N - n \in B
    OBVIOUS
  <2>2. n \in Nat /\ m \in Nat
    BY ONLY N \in Nat, S \in SUBSET (0 .. N), n \in S, m \in S
  <2> HIDE DEF B
  <2>3. N - m <= N - n
    BY <1>2, <1>3, <2>1
  <2>4. N \in Nat
    OBVIOUS
  <2> QED BY ONLY <2>2, <2>3, <2>4
<1>5. S \in SUBSET Int
  OBVIOUS
<1>6. Max(S) = m
  BY <1>3, <1>4, <1>5, MaxIs
<1> QED BY <1>3, <1>4, <1>6

\* y has the nodes of z without x, the one behind the first k.
Shorter(z, y, k, x) ==
    /\ x \in Members(z) /\ k \in Nat
    /\ y.length = z.length - 1 /\ DOMAIN y.node = DOMAIN z.node \ {x}
    /\ \A n \in DOMAIN y.node : \A i : Up(y, n, i) <=> Up(z, n, i)

\* The nodes behind it move down.
Lowered(z, pos, k, x) ==
    [n \in DOMAIN z.node \ {x} |-> IF pos[n] <= k THEN pos[n] ELSE pos[n] - 1]

\* Their positions.
LoweredFacts(z, y, pos, new, k, x) ==
    /\ z.length \in Nat \ {0} /\ k \in Nat /\ k < z.length
    /\ x \in DOMAIN z.node /\ pos[x] = k + 1 /\ x # NULL /\ x # Header
    /\ Members(y) = Members(z) \ {x} /\ NULL \notin Members(z)
    /\ \A n \in DOMAIN y.node : /\ n \in DOMAIN z.node /\ n # x
                                /\ new[n] = IF pos[n] <= k THEN pos[n] ELSE pos[n] - 1
    /\ \A n \in DOMAIN z.node : /\ pos[n] \in Nat /\ pos[n] <= z.length
                                /\ n # x => n \in DOMAIN y.node /\ pos[n] # k + 1
    /\ \A n \in Members(z) : n \in DOMAIN z.node /\ n # NULL /\ pos[n] # 0
    /\ Header \in DOMAIN y.node /\ pos[Header] = 0

LEMMA LoweredIs ==
    ASSUME NEW z, NEW pos, Whole(z, pos), NEW y, NEW k, NEW x, Shorter(z, y, k, x), pos[x] = k + 1
    PROVE  LoweredFacts(z, y, pos, Lowered(z, pos, k, x), k, x)
<1>1. /\ z.length \in Nat /\ Header \in DOMAIN z.node /\ pos[Header] = 0 /\ NULL \notin DOMAIN z.node
      /\ \A n \in DOMAIN z.node : pos[n] \in 0 .. z.length /\ pos[n] \in Nat
      /\ \A n \in Members(z) : n \in DOMAIN z.node /\ n # NULL /\ n # Header
                               /\ pos[n] \in 1 .. z.length
  BY PosIs
<1>2. x \in Members(z) /\ k \in Nat /\ DOMAIN y.node = DOMAIN z.node \ {x}
  BY DEF Shorter
<1>3. \A n \in DOMAIN y.node :
         Lowered(z, pos, k, x)[n] = IF pos[n] <= k THEN pos[n] ELSE pos[n] - 1
  BY <1>2 DEF Lowered
<1>4. \A a, b \in DOMAIN z.node : pos[a] = pos[b] => a = b
  BY DEF Whole, Numbered
<1>5. Members(y) = Members(z) \ {x} /\ NULL \notin Members(z)
  BY <1>1, <1>2 DEF Members
<1>6. pos[x] \in 1 .. z.length
  BY <1>1, <1>2
<1>7. z.length \in Nat \ {0} /\ k < z.length
  BY <1>1, <1>2, <1>6
<1>8. \A n \in DOMAIN z.node : pos[n] <= z.length
  BY <1>1
<1>9. \A n \in DOMAIN z.node : n # x => n \in DOMAIN y.node /\ pos[n] # k + 1
  BY <1>1, <1>2, <1>4
<1>10. \A n \in Members(z) : pos[n] # 0
  BY <1>1
<1>11. x \in DOMAIN z.node /\ x # NULL /\ x # Header /\ Header \in DOMAIN y.node
  BY <1>1, <1>2
<1> QED BY <1>1, <1>2, <1>3, <1>5, <1>7, <1>8, <1>9, <1>10, <1>11 DEF LoweredFacts

\* A link that does not cross the node deleted.
LEMMA LinkStays ==
    ASSUME NEW z, NEW pos, NEW y, NEW k, NEW x, Shorter(z, y, k, x),
           NEW new, LoweredFacts(z, y, pos, new, k, x),
           NEW n \in DOMAIN y.node, NEW i, NEW l, LinkOK(z, pos, n, i, l),
           pos[n] > k \/ (l.forward # NULL /\ pos[l.forward] <= k)
    PROVE  LinkOK(y, new, n, i, l)
<1>1. /\ n \in DOMAIN z.node /\ n # x /\ pos[n] \in Nat /\ pos[n] # k + 1 /\ k \in Nat
      /\ new[n] = IF pos[n] <= k THEN pos[n] ELSE pos[n] - 1
  BY DEF LoweredFacts
<1>2. CASE l.forward = NULL
  <2>1. /\ l.span = z.length - pos[n] /\ pos[n] > k
        /\ \A m \in Members(z) : Up(z, m, i) => pos[m] <= pos[n]
    BY <1>2 DEF LinkOK, LoweredFacts, NoneUpAfter
  <2>2. l.span = y.length - new[n] /\ new[n] = pos[n] - 1
    BY <1>1, <2>1 DEF Shorter, LoweredFacts
  <2>3. ASSUME NEW m \in Members(y), Up(y, m, i) PROVE new[m] <= new[n]
    <3>1. m \in Members(z) /\ m \in DOMAIN y.node /\ m \in DOMAIN z.node
      BY DEF Members, Shorter
    <3>2. Up(z, m, i) /\ pos[m] \in Nat /\ new[m] = IF pos[m] <= k THEN pos[m] ELSE pos[m] - 1
      BY <2>3, <3>1 DEF Shorter, LoweredFacts
    <3>3. pos[m] <= pos[n]
      BY <2>1, <3>1, <3>2
    <3> QED BY <1>1, <2>1, <2>2, <3>2, <3>3
  <2> QED BY <1>2, <2>2, <2>3 DEF LinkOK, NoneUpAfter
<1>3. CASE l.forward # NULL
  <2> DEFINE f == l.forward
  <2>1. /\ f \in Members(z) /\ Up(z, f, i) /\ pos[f] > pos[n] /\ l.span = pos[f] - pos[n]
        /\ \A m \in Members(z) : Up(z, m, i) /\ pos[m] > pos[n] => pos[f] <= pos[m]
    BY <1>3 DEF LinkOK
  <2> HIDE DEF f
  <2>2. pos[f] \in Nat /\ f \in DOMAIN z.node
    BY <2>1 DEF LoweredFacts
  <2>3. (pos[n] > k + 1 /\ pos[f] > k + 1) \/ (pos[n] <= k /\ pos[f] <= k)
    BY <1>1, <1>3, <2>1, <2>2 DEF f
  <2>4. f # x
    BY <1>1, <2>3 DEF LoweredFacts
  <2>5. /\ f \in DOMAIN y.node /\ f \in Members(y) /\ Up(y, f, i)
        /\ new[f] = IF pos[f] <= k THEN pos[f] ELSE pos[f] - 1
    BY <2>1, <2>2, <2>4 DEF LoweredFacts, Shorter
  <2>6. new[f] > new[n] /\ l.span = new[f] - new[n]
    BY <1>1, <2>1, <2>2, <2>3, <2>5
  <2>7. ASSUME NEW m \in Members(y), Up(y, m, i), new[m] > new[n] PROVE new[f] <= new[m]
    <3>1. m \in Members(z) /\ m \in DOMAIN y.node /\ m \in DOMAIN z.node
      BY DEF Members, Shorter
    <3>2. Up(z, m, i) /\ pos[m] \in Nat /\ pos[m] # k + 1
          /\ new[m] = IF pos[m] <= k THEN pos[m] ELSE pos[m] - 1
      BY <2>7, <3>1 DEF Shorter, LoweredFacts
    <3>3. pos[m] > pos[n]
      BY <1>1, <2>7, <3>2
    <3>4. pos[f] <= pos[m]
      BY <2>1, <3>1, <3>2, <3>3
    <3> QED BY <1>1, <2>2, <2>3, <2>5, <3>2, <3>4
  <2> QED BY <2>5, <2>6, <2>7 DEF LinkOK, f
<1> QED BY <1>2, <1>3

\* The link over it.
LEMMA LinkCrosses ==
    ASSUME NEW z, NEW pos, NEW y, NEW k, NEW x, Shorter(z, y, k, x),
           NEW new, LoweredFacts(z, y, pos, new, k, x),
           NEW n \in DOMAIN y.node, NEW i, NEW l, LinkOK(z, pos, n, i, l), pos[n] <= k,
           \A m \in Members(z) : Up(z, m, i) /\ pos[m] <= k => pos[m] <= pos[n],
           l = [forward |-> l.forward, span |-> l.span], l.forward # x
    PROVE  LinkOK(y, new, n, i, [l EXCEPT !.span = @ - 1])
<1> DEFINE f == l.forward
           r == [l EXCEPT !.span = @ - 1]
<1>1. r.forward = f /\ r.span = l.span - 1
  BY SpanIs
<1> HIDE DEF r
<1>2. /\ n \in DOMAIN z.node /\ pos[n] \in Nat /\ k \in Nat /\ new[n] = pos[n]
      /\ pos[x] = k + 1 /\ z.length \in Nat /\ x \in Members(z)
  BY DEF LoweredFacts, Shorter
<1>3. CASE f = NULL
  <2>1. /\ l.span = z.length - pos[n]
        /\ \A m \in Members(z) : Up(z, m, i) => pos[m] <= pos[n]
    BY <1>3 DEF LinkOK, LoweredFacts, NoneUpAfter
  <2>2. r.span = y.length - new[n]
    BY <1>1, <1>2, <2>1 DEF Shorter
  <2>3. ASSUME NEW m \in Members(y), Up(y, m, i) PROVE new[m] <= new[n]
    <3>1. m \in Members(z) /\ m \in DOMAIN y.node /\ m \in DOMAIN z.node
      BY DEF Members, Shorter
    <3>2. Up(z, m, i) /\ pos[m] \in Nat /\ new[m] = IF pos[m] <= k THEN pos[m] ELSE pos[m] - 1
      BY <2>3, <3>1 DEF Shorter, LoweredFacts
    <3>3. pos[m] <= pos[n]
      BY <2>1, <3>1, <3>2
    <3> QED BY <1>2, <3>2, <3>3
  <2> QED BY <1>1, <1>3, <2>2, <2>3 DEF LinkOK, NoneUpAfter
<1>4. CASE f # NULL
  <2>1. /\ f \in Members(z) /\ Up(z, f, i) /\ pos[f] > pos[n] /\ l.span = pos[f] - pos[n]
        /\ \A m \in Members(z) : Up(z, m, i) /\ pos[m] > pos[n] => pos[f] <= pos[m]
    BY <1>4 DEF LinkOK
  <2>2. f # x
    OBVIOUS
  <2> HIDE DEF f
  <2>3. pos[f] \in Nat /\ f \in DOMAIN z.node
    BY <2>1 DEF LoweredFacts
  <2>4. /\ f \in DOMAIN y.node /\ f \in Members(y) /\ Up(y, f, i) /\ pos[f] # k + 1
        /\ new[f] = IF pos[f] <= k THEN pos[f] ELSE pos[f] - 1
    BY <2>1, <2>2, <2>3 DEF LoweredFacts, Shorter
  <2>5. pos[f] > k + 1
    BY <1>2, <2>1, <2>3, <2>4
  <2>6. new[f] > new[n] /\ r.span = new[f] - new[n]
    BY <1>1, <1>2, <2>1, <2>3, <2>4, <2>5
  <2>7. ASSUME NEW m \in Members(y), Up(y, m, i), new[m] > new[n] PROVE new[f] <= new[m]
    <3>1. m \in Members(z) /\ m \in DOMAIN y.node /\ m \in DOMAIN z.node
      BY DEF Members, Shorter
    <3>2. Up(z, m, i) /\ pos[m] \in Nat /\ pos[m] # k + 1
          /\ new[m] = IF pos[m] <= k THEN pos[m] ELSE pos[m] - 1
      BY <2>7, <3>1 DEF Shorter, LoweredFacts
    <3>3. pos[m] > pos[n]
      BY <1>2, <2>7, <3>2
    <3>4. pos[f] <= pos[m]
      BY <2>1, <3>1, <3>2, <3>3
    <3> QED BY <1>2, <2>3, <2>4, <2>5, <3>2, <3>4
  <2> QED BY <1>1, <2>4, <2>6, <2>7 DEF LinkOK, f
<1> QED BY <1>3, <1>4 DEF r

\* The link to it, which takes over its own.
LEMMA LinkTakes ==
    ASSUME NEW z, NEW pos, NEW y, NEW k, NEW x, Shorter(z, y, k, x),
           NEW new, LoweredFacts(z, y, pos, new, k, x),
           NEW n \in DOMAIN y.node, NEW i, NEW l, LinkOK(z, pos, n, i, l), pos[n] <= k,
           l.forward = x, NEW lx, LinkOK(z, pos, x, i, lx)
    PROVE  LinkOK(y, new, n, i, [forward |-> lx.forward, span |-> l.span + lx.span - 1])
<1> DEFINE f == lx.forward
           r == [forward |-> lx.forward, span |-> l.span + lx.span - 1]
<1>1. r.forward = f /\ r.span = l.span + lx.span - 1
  OBVIOUS
<1> HIDE DEF r
<1>2. /\ n \in DOMAIN z.node /\ pos[n] \in Nat /\ k \in Nat /\ new[n] = pos[n]
      /\ pos[x] = k + 1 /\ z.length \in Nat /\ x \in Members(z)
  BY DEF LoweredFacts, Shorter
<1>3. /\ Up(z, x, i) /\ l.span = (k + 1) - pos[n]
      /\ \A m \in Members(z) : Up(z, m, i) /\ pos[m] > pos[n] => k + 1 <= pos[m]
  BY <1>2 DEF LinkOK, LoweredFacts
<1>4. CASE f = NULL
  <2>1. /\ lx.span = z.length - (k + 1)
        /\ \A m \in Members(z) : Up(z, m, i) => pos[m] <= k + 1
    BY <1>2, <1>4 DEF LinkOK, LoweredFacts, NoneUpAfter
  <2>2. r.span = y.length - new[n]
    BY <1>1, <1>2, <1>3, <2>1 DEF Shorter
  <2>3. ASSUME NEW m \in Members(y), Up(y, m, i) PROVE new[m] <= new[n]
    <3>1. m \in Members(z) /\ m \in DOMAIN y.node /\ m \in DOMAIN z.node
      BY DEF Members, Shorter
    <3>2. Up(z, m, i) /\ pos[m] \in Nat /\ pos[m] # k + 1
          /\ new[m] = IF pos[m] <= k THEN pos[m] ELSE pos[m] - 1
      BY <2>3, <3>1 DEF Shorter, LoweredFacts
    <3>3. pos[m] <= k + 1
      BY <2>1, <3>1, <3>2
    <3>4. ~(pos[m] > pos[n])
      BY <1>2, <1>3, <3>1, <3>2, <3>3
    <3> QED BY <1>2, <3>2, <3>3, <3>4
  <2> QED BY <1>1, <1>4, <2>2, <2>3 DEF LinkOK, NoneUpAfter
<1>5. CASE f # NULL
  <2>1. /\ f \in Members(z) /\ Up(z, f, i) /\ pos[f] > k + 1 /\ lx.span = pos[f] - (k + 1)
        /\ \A m \in Members(z) : Up(z, m, i) /\ pos[m] > k + 1 => pos[f] <= pos[m]
    BY <1>2, <1>5 DEF LinkOK
  <2> HIDE DEF f
  <2>2. pos[f] \in Nat /\ f \in DOMAIN z.node
    BY <2>1 DEF LoweredFacts
  <2>3. f # x
    BY <1>2, <2>1, <2>2
  <2>4. /\ f \in DOMAIN y.node /\ f \in Members(y) /\ Up(y, f, i)
        /\ new[f] = IF pos[f] <= k THEN pos[f] ELSE pos[f] - 1
    BY <2>1, <2>2, <2>3 DEF LoweredFacts, Shorter
  <2>5. new[f] > new[n] /\ r.span = new[f] - new[n]
    BY <1>1, <1>2, <1>3, <2>1, <2>2, <2>4
  <2>6. ASSUME NEW m \in Members(y), Up(y, m, i), new[m] > new[n] PROVE new[f] <= new[m]
    <3>1. m \in Members(z) /\ m \in DOMAIN y.node /\ m \in DOMAIN z.node
      BY DEF Members, Shorter
    <3>2. Up(z, m, i) /\ pos[m] \in Nat /\ pos[m] # k + 1
          /\ new[m] = IF pos[m] <= k THEN pos[m] ELSE pos[m] - 1
      BY <2>6, <3>1 DEF Shorter, LoweredFacts
    <3>3. pos[m] > pos[n]
      BY <1>2, <2>6, <3>2
    <3>4. k + 1 <= pos[m]
      BY <1>3, <3>1, <3>2, <3>3
    <3>5. pos[f] <= pos[m]
      BY <1>2, <2>1, <3>1, <3>2, <3>4
    <3> QED BY <1>2, <2>1, <2>2, <2>4, <3>2, <3>4, <3>5
  <2> QED BY <1>1, <2>4, <2>5, <2>6 DEF LinkOK, f
<1> QED BY <1>4, <1>5 DEF r

\* The parts of a node that stays.
LEMMA LeftNodeIs ==
    ASSUME NEW z, NEW x, NEW u, NEW n
    PROVE  /\ LeftNode(z, x, u, n).score = z.node[n].score
           /\ LeftNode(z, x, u, n).backward =
                 IF n = z.node[x].level[1].forward THEN z.node[x].backward
                 ELSE z.node[n].backward
           /\ LeftNode(z, x, u, n).level =
                 [i \in DOMAIN z.node[n].level |-> Unlinked(z, x, u, n, i)]
BY DEF LeftNode

\* The parts of the list that is left.
DeletionFacts(z, y, pos, new, k, x, u) ==
    /\ Shorter(z, y, k, x) /\ LoweredFacts(z, y, pos, new, k, x)
    /\ y.length = z.length - 1 /\ y.tail = TailWithout(z, x)
    /\ y.level = Max(UsedLevels(z, y.node))
    /\ y = [level |-> y.level, length |-> y.length, tail |-> y.tail, node |-> y.node]
    /\ y.node = [n \in DOMAIN y.node |-> y.node[n]]
    /\ DOMAIN y.node = DOMAIN z.node \ {x}
    /\ \A n \in DOMAIN y.node :
          /\ y.node[n].score = z.node[n].score
          /\ y.node[n].backward = IF n = z.node[x].level[1].forward THEN z.node[x].backward
                                  ELSE z.node[n].backward
          /\ y.node[n].level = [i \in DOMAIN z.node[n].level |-> Unlinked(z, x, u, n, i)]
          /\ y.node[n] = [score |-> y.node[n].score, backward |-> y.node[n].backward,
                          level |-> y.node[n].level]

LEMMA DeletionIs ==
    ASSUME NEW z, NEW pos, NEW k, NEW x, NEW u, Deleting(z, pos, k, x, u),
           NEW y, Deletion(z, y, x, u)
    PROVE  DeletionFacts(z, y, pos, Lowered(z, pos, k, x), k, x, u)
<1>1. y.node = [n \in DOMAIN z.node \ {x} |-> LeftNode(z, x, u, n)]
      /\ y = [level |-> Max(UsedLevels(z, y.node)), length |-> z.length - 1,
              tail |-> TailWithout(z, x), node |-> y.node]
  BY DEF Deletion
<1>2. /\ y.length = z.length - 1 /\ y.tail = TailWithout(z, x)
      /\ y.level = Max(UsedLevels(z, y.node))
      /\ y = [level |-> y.level, length |-> y.length, tail |-> y.tail, node |-> y.node]
  <2> DEFINE m == Max(UsedLevels(z, y.node))
             t == TailWithout(z, x)
             f == y.node
             s == z.length - 1
  <2>1. y = [level |-> m, length |-> s, tail |-> t, node |-> f]
    BY <1>1
  <2> HIDE DEF m, t, f, s
  <2>2. y.length = s /\ y.tail = t /\ y.level = m /\ y.node = f
    BY <2>1
  <2>3. y = [level |-> y.level, length |-> y.length, tail |-> y.tail, node |-> y.node]
    BY <2>1, <2>2
  <2> QED BY <2>2, <2>3 DEF m, t, s
<1>3. /\ DOMAIN y.node = DOMAIN z.node \ {x}
      /\ \A n \in DOMAIN y.node : y.node[n] = LeftNode(z, x, u, n)
      /\ y.node = [n \in DOMAIN y.node |-> y.node[n]]
  BY <1>1
<1>4. ASSUME NEW n \in DOMAIN y.node
      PROVE  /\ y.node[n].score = z.node[n].score
             /\ y.node[n].backward = IF n = z.node[x].level[1].forward THEN z.node[x].backward
                                     ELSE z.node[n].backward
             /\ y.node[n].level = [i \in DOMAIN z.node[n].level |-> Unlinked(z, x, u, n, i)]
             /\ y.node[n] = [score |-> y.node[n].score, backward |-> y.node[n].backward,
                             level |-> y.node[n].level]
  <2>1. y.node[n] = LeftNode(z, x, u, n)
    BY <1>3
  <2> DEFINE m == LeftNode(z, x, u, n)
  <2>2. /\ m.score = z.node[n].score
        /\ m.backward = IF n = z.node[x].level[1].forward THEN z.node[x].backward
                        ELSE z.node[n].backward
        /\ m.level = [i \in DOMAIN z.node[n].level |-> Unlinked(z, x, u, n, i)]
    BY LeftNodeIs
  <2>3. m = [score |-> m.score, backward |-> m.backward, level |-> m.level]
    <3> DEFINE s == z.node[n].score
               b == IF n = z.node[x].level[1].forward THEN z.node[x].backward
                    ELSE z.node[n].backward
               v == [i \in DOMAIN z.node[n].level |-> Unlinked(z, x, u, n, i)]
    <3>1. m = [score |-> s, backward |-> b, level |-> v]
      BY DEF LeftNode
    <3> HIDE DEF s, b, v, m
    <3> QED BY <3>1
  <2>4. y.node[n] = m
    BY <2>1
  <2> HIDE DEF m
  <2> QED BY ONLY <2>2, <2>3, <2>4
<1>5. Shorter(z, y, k, x)
  <2>1. \A n \in DOMAIN y.node : \A i : Up(y, n, i) <=> Up(z, n, i)
    BY <1>4 DEF Up
  <2> QED BY <1>2, <1>3, <2>1 DEF Shorter, Deleting
<1>6. LoweredFacts(z, y, pos, Lowered(z, pos, k, x), k, x)
  BY <1>5, LoweredIs DEF Deleting
<1> QED BY ONLY <1>2, <1>3, <1>4, <1>5, <1>6 DEF DeletionFacts

LEMMA DeleteNumbered ==
    ASSUME NEW z, NEW pos, Whole(z, pos), NEW y, NEW k, NEW x, Shorter(z, y, k, x),
           pos[x] = k + 1
    PROVE  Numbered(y, Lowered(z, pos, k, x))
<1> DEFINE new == Lowered(z, pos, k, x)
<1>a. LoweredFacts(z, y, pos, new, k, x)
  BY LoweredIs
<1>b. new = [n \in DOMAIN y.node |-> new[n]]
  BY DEF Lowered, Shorter
<1> HIDE DEF new
<1>1. /\ \A a, b \in DOMAIN z.node : pos[a] = pos[b] => a = b
      /\ \A j \in 0 .. z.length : \E n \in DOMAIN z.node : pos[n] = j
  BY DEF Whole, Numbered
<1>2. y.length = z.length - 1 /\ y.length \in Nat
  BY <1>a DEF Shorter, LoweredFacts
<1>3. /\ k \in Nat /\ k < z.length /\ z.length \in Nat /\ pos[x] = k + 1
      /\ Members(y) = Members(z) \ {x}
      /\ \A n \in DOMAIN y.node : /\ n \in DOMAIN z.node /\ n # x
                                  /\ new[n] = IF pos[n] <= k THEN pos[n] ELSE pos[n] - 1
      /\ \A n \in DOMAIN z.node : /\ pos[n] \in Nat /\ pos[n] <= z.length
                                  /\ n # x => n \in DOMAIN y.node /\ pos[n] # k + 1
      /\ \A n \in Members(z) : n \in DOMAIN z.node /\ n # NULL /\ pos[n] # 0
      /\ Header \in DOMAIN y.node /\ pos[Header] = 0
  BY <1>a DEF LoweredFacts
<1>4. \A n \in DOMAIN y.node : new[n] \in 0 .. y.length
  BY <1>2, <1>3
<1>5. new \in [DOMAIN y.node -> 0 .. y.length] /\ new[Header] = 0
  BY <1>b, <1>3, <1>4
<1>6. ASSUME NEW n \in Members(y) PROVE new[n] # 0
  <2>1. n \in DOMAIN y.node /\ pos[n] # 0 /\ pos[n] # k + 1 /\ pos[n] \in Nat
    BY <1>3
  <2> QED BY <1>3, <2>1
<1>7. ASSUME NEW a \in DOMAIN y.node, NEW b \in DOMAIN y.node, new[a] = new[b] PROVE a = b
  <2>1. pos[a] \in Nat /\ pos[b] \in Nat /\ pos[a] # k + 1 /\ pos[b] # k + 1
    BY <1>3
  <2>2. pos[a] = pos[b]
    BY <1>3, <1>7, <2>1
  <2> QED BY <1>1, <1>3, <2>2
<1>8. ASSUME NEW j \in 0 .. y.length PROVE \E n \in DOMAIN y.node : new[n] = j
  <2>1. CASE j <= k
    <3>1. j \in 0 .. z.length
      BY <1>2, <1>3
    <3>2. PICK n \in DOMAIN z.node : pos[n] = j
      BY <1>1, <3>1
    <3>3. n # x
      BY <1>3, <2>1, <3>2
    <3> QED BY <1>3, <2>1, <3>2, <3>3
  <2>2. CASE ~(j <= k)
    <3>1. j + 1 \in 0 .. z.length /\ j + 1 > k + 1 /\ j \in Nat
      BY <1>2, <1>3, <2>2
    <3>2. PICK n \in DOMAIN z.node : pos[n] = j + 1
      BY <1>1, <3>1
    <3>3. n # x
      BY <1>3, <3>1, <3>2
    <3> QED BY <1>3, <3>1, <3>2, <3>3
  <2> QED BY <2>1, <2>2
<1>9. Numbered(y, new)
  BY <1>5, <1>6, <1>7, <1>8 DEF Numbered
<1> QED BY <1>9 DEF new

\* Its links are right, on the levels it gives up as well.
LEMMA DeleteLinked ==
    ASSUME NEW z, NEW pos, NEW k, NEW x, NEW u, Deleting(z, pos, k, x, u),
           NEW y, NEW new, DeletionFacts(z, y, pos, new, k, x, u),
           NEW n \in DOMAIN y.node, NEW i, Up(y, n, i), i <= z.level
    PROVE  LinkOK(y, new, n, i, y.node[n].level[i])
<1> DEFINE l == z.node[n].level[i]
<1>1. Whole(z, pos) /\ Spots(z, pos, k, u) /\ x \in Members(z)
  BY DEF Deleting
<1>2. Shorter(z, y, k, x) /\ LoweredFacts(z, y, pos, new, k, x)
      /\ y.node[n].level = [j \in DOMAIN z.node[n].level |-> Unlinked(z, x, u, n, j)]
  BY DEF DeletionFacts
<1>3. /\ n \in DOMAIN z.node /\ n # x /\ x \in DOMAIN z.node /\ pos[n] \in Nat /\ pos[x] = k + 1
      /\ k \in Nat /\ pos[n] # k + 1 /\ Header \in DOMAIN z.node /\ pos[Header] = 0
      /\ NULL \notin Members(z)
      /\ \A m \in DOMAIN z.node : pos[m] \in Nat
      /\ \A m \in Members(z) : m \in DOMAIN z.node
  BY <1>2 DEF LoweredFacts
<1>4. Up(z, n, i) /\ y.node[n].level[i] = Unlinked(z, x, u, n, i)
  BY <1>2 DEF Up
<1>5. i \in 1 .. z.level
  <2>1. i \in Nat \ {0} /\ z.level \in Nat
    BY <1>1, <1>3, <1>4, LinkIs, PosIs
  <2> QED BY <2>1
<1>6. LinkOK(z, pos, n, i, l) /\ l = [forward |-> l.forward, span |-> l.span]
  BY <1>1, <1>3, <1>4, LinkIs
<1>7. /\ u[i] \in DOMAIN z.node /\ Up(z, u[i], i) /\ pos[u[i]] <= k
      /\ \A m \in Members(z) : Up(z, m, i) /\ pos[m] <= k => pos[m] <= pos[u[i]]
  BY <1>1, <1>5 DEF Spots
<1>8. ~(i > z.level)
  BY <1>1, <1>5, PosIs
<1>9. Unlinked(z, x, u, n, i) =
        IF u[i] # n THEN l
        ELSE IF l.forward # x THEN [l EXCEPT !.span = @ - 1]
        ELSE [forward |-> z.node[x].level[i].forward,
              span |-> l.span + z.node[x].level[i].span - 1]
  BY <1>8 DEF Unlinked
<1> HIDE DEF l
<1>10. CASE u[i] # n
  <2>1. pos[n] # pos[u[i]] /\ pos[u[i]] \in Nat
    BY <1>1, <1>3, <1>7, <1>10 DEF Whole, Numbered
  <2>2. ASSUME pos[n] <= k PROVE l.forward # NULL /\ pos[l.forward] <= k
    <3>1. pos[n] < pos[u[i]]
      <4>1. CASE n = Header
        BY <1>3, <2>1, <4>1
      <4>2. CASE n # Header
        <5>1. n \in Members(z)
          BY <1>3, <4>2 DEF Members
        <5> QED BY <1>3, <1>4, <1>7, <2>1, <2>2, <5>1
      <4> QED BY <4>1, <4>2
    <3>2. u[i] \in Members(z)
      <4>1. u[i] # Header
        BY <1>3, <3>1
      <4> QED BY <1>7, <4>1 DEF Members
    <3>3. l.forward # NULL
      <4> SUFFICES ASSUME l.forward = NULL PROVE FALSE
        OBVIOUS
      <4>1. NoneUpAfter(z, pos, pos[n], i)
        BY <1>3, <1>6 DEF LinkOK
      <4>2. pos[u[i]] <= pos[n]
        BY <1>7, <3>2, <4>1 DEF NoneUpAfter
      <4> QED BY <1>3, <2>1, <3>1, <4>2
    <3>4. l.forward \in Members(z) /\ pos[l.forward] <= pos[u[i]]
      BY <1>6, <1>7, <3>1, <3>2, <3>3 DEF LinkOK
    <3>5. pos[l.forward] \in Nat
      BY <1>3, <3>4
    <3> QED BY <1>3, <1>7, <2>1, <3>3, <3>4, <3>5
  <2>3. pos[n] > k \/ (l.forward # NULL /\ pos[l.forward] <= k)
    BY <1>3, <2>2
  <2>4. LinkOK(y, new, n, i, l)
    BY <1>2, <1>6, <2>3, LinkStays
  <2> QED BY <1>4, <1>9, <1>10, <2>4
<1>11. CASE u[i] = n /\ l.forward # x
  <2>1. LinkOK(y, new, n, i, [l EXCEPT !.span = @ - 1])
    BY <1>2, <1>6, <1>7, <1>11, LinkCrosses
  <2> QED BY <1>4, <1>9, <1>11, <2>1
<1>12. CASE u[i] = n /\ l.forward = x
  <2> DEFINE lx == z.node[x].level[i]
  <2>1. Up(z, x, i)
    BY <1>1, <1>3, <1>6, <1>12 DEF LinkOK
  <2>2. LinkOK(z, pos, x, i, lx)
    BY <1>1, <1>3, <1>8, <2>1, LinkIs
  <2>3. LinkOK(y, new, n, i, [forward |-> lx.forward, span |-> l.span + lx.span - 1])
    <3> HIDE DEF lx
    <3> QED BY <1>2, <1>6, <1>7, <1>12, <2>2, LinkTakes
  <2> QED BY <1>4, <1>9, <1>12, <2>3
<1> QED BY <1>10, <1>11, <1>12

\* Its level is the highest one the header still uses.
LEMMA DeleteTopped ==
    ASSUME NEW z, NEW pos, NEW k, NEW x, NEW u, Deleting(z, pos, k, x, u),
           NEW y, NEW new, DeletionFacts(z, y, pos, new, k, x, u)
    PROVE  /\ Topped(y) /\ y.level \in Heights /\ y.level \in Nat /\ y.level <= z.level
           /\ z.level \in Nat
<1> DEFINE S == UsedLevels(z, y.node)
<1>1. Whole(z, pos) /\ Shorter(z, y, k, x) /\ LoweredFacts(z, y, pos, new, k, x)
      /\ y.level = Max(S)
      /\ \A n \in DOMAIN y.node :
           y.node[n].level = [i \in DOMAIN z.node[n].level |-> Unlinked(z, x, u, n, i)]
  BY DEF Deleting, DeletionFacts
<1>2. z.level \in Nat \ {0} /\ z.level \in Heights
  BY <1>1, PosIs
<1>3. S \in SUBSET (0 .. z.level) /\ S # {} /\ 1 \in S
  BY <1>2 DEF UsedLevels
<1>4. y.level \in S /\ \A i \in S : i <= y.level
  <2> HIDE DEF S
  <2> QED BY <1>1, <1>2, <1>3, MaxUpTo
<1>5. y.level \in 1 .. z.level
  BY <1>2, <1>4 DEF UsedLevels
<1>6. y.level \in Heights /\ y.level \in Nat /\ y.level <= z.level
  BY <1>2, <1>5, ZSetAssumption DEF Heights
<1>7. /\ DOMAIN z.node[Header].level = Heights
      /\ \A i \in Heights : i > z.level => z.node[Header].level[i].forward = NULL
      /\ \A m \in Members(z) : \A i \in DOMAIN z.node[m].level : i <= z.level
  BY <1>1 DEF Whole, Topped
<1>8. /\ Header \in DOMAIN y.node /\ Members(y) = Members(z) \ {x} /\ NULL \notin Members(z)
      /\ \A n \in DOMAIN y.node : /\ n \in DOMAIN z.node /\ n # x
                                  /\ new[n] = IF pos[n] <= k THEN pos[n] ELSE pos[n] - 1
      /\ \A n \in DOMAIN z.node : /\ pos[n] \in Nat
                                  /\ n # x => n \in DOMAIN y.node /\ pos[n] # k + 1
      /\ \A n \in Members(z) : n \in DOMAIN z.node /\ pos[n] # 0
      /\ k \in Nat /\ pos[Header] = 0
  BY <1>1 DEF LoweredFacts
<1>9. y.node[Header].level = [i \in Heights |-> Unlinked(z, x, u, Header, i)]
  BY <1>1, <1>7, <1>8
<1>10. ASSUME NEW i \in Heights, i > y.level PROVE y.node[Header].level[i].forward = NULL
  <2>1. i \in Nat \ {0}
    BY ZSetAssumption DEF Heights
  <2>2. CASE i > z.level
    <3>1. y.node[Header].level[i] = z.node[Header].level[i]
      BY <1>9, <2>2 DEF Unlinked
    <3> QED BY <1>7, <2>2, <3>1
  <2>3. CASE ~(i > z.level)
    <3>1. i \in 1 .. z.level /\ i \notin S
      BY <1>2, <1>4, <1>6, <1>10, <2>1, <2>3
    <3> QED BY <3>1 DEF UsedLevels
  <2> QED BY <2>2, <2>3
<1>11. ASSUME NEW m \in Members(y), NEW i \in DOMAIN y.node[m].level PROVE i <= y.level
  <2>1. m \in Members(z) /\ m # x /\ m \in DOMAIN z.node /\ m \in DOMAIN y.node
    BY <1>8
  <2>2. i \in DOMAIN z.node[m].level /\ i <= z.level /\ Up(y, m, i)
    BY <1>1, <1>7, <2>1 DEF Up
  <2>3. i \in Nat \ {0} /\ i \in Heights
    BY <1>1, <2>1, <2>2, LinkIs DEF Up
  <2>4. LinkOK(y, new, Header, i, y.node[Header].level[i])
    <3>1. Up(y, Header, i)
      BY <1>9, <2>3 DEF Up
    <3> QED BY <1>8, <2>2, <3>1, DeleteLinked
  <2>5. new[m] # 0 /\ new[m] \in Nat /\ new[Header] = 0
    <3>1. pos[m] \in Nat /\ pos[m] # 0 /\ pos[m] # k + 1
          /\ new[m] = IF pos[m] <= k THEN pos[m] ELSE pos[m] - 1
      BY <1>8, <2>1
    <3>2. new[Header] = 0
      BY <1>8
    <3>3. new[m] # 0 /\ new[m] \in Nat
      BY <1>8, <3>1
    <3> QED BY <3>2, <3>3
  <2>6. y.node[Header].level[i].forward # NULL
    <3> SUFFICES ASSUME y.node[Header].level[i].forward = NULL PROVE FALSE
      OBVIOUS
    <3>1. NULL \notin Members(y)
      BY <1>8
    <3>2. new[m] <= 0
      BY <2>2, <2>4, <2>5, <3>1 DEF LinkOK, NoneUpAfter
    <3> QED BY <2>5, <3>2
  <2>7. i \in S
    BY <1>2, <2>2, <2>3, <2>6 DEF UsedLevels
  <2> QED BY <1>4, <2>7
<1> QED BY <1>2, <1>6, <1>9, <1>10, <1>11 DEF Topped

\* The node behind the one deleted.
LEMMA NextIs ==
    ASSUME NEW z, NEW pos, Whole(z, pos), NEW x \in DOMAIN z.node
    PROVE  LET f == z.node[x].level[1].forward
           IN  /\ f = NULL => pos[x] = z.length
               /\ f # NULL => f \in Members(z) /\ pos[f] = pos[x] + 1
<1> DEFINE l == z.node[x].level[1]
<1>1. z.node[x] \in Node /\ z.level \in Nat \ {0} /\ pos[x] \in 0 .. z.length
  BY ListIs, PosIs DEF Whole
<1>2. Up(z, x, 1)
  BY <1>1, NodeIs DEF Up
<1>3. LinkOK(z, pos, x, 1, l) /\ l = [forward |-> l.forward, span |-> l.span]
  BY <1>1, <1>2, LinkIs
<1>4. Spot(z, pos, pos[x], 1, x, l)
  BY <1>1, <1>2, <1>3 DEF Spot
<1> HIDE DEF l
<1>5. /\ l.forward = NULL => pos[x] = z.length
      /\ l.forward # NULL => l.forward \in Members(z) /\ pos[l.forward] = pos[x] + 1
  BY <1>1, <1>4, SpotIsCut
<1> QED BY <1>5 DEF l

\* Its backward pointers are right.
LEMMA DeleteBacked ==
    ASSUME NEW z, NEW pos, NEW k, NEW x, NEW u, Deleting(z, pos, k, x, u),
           NEW y, NEW new, DeletionFacts(z, y, pos, new, k, x, u)
    PROVE  Backed(y, new)
<1> DEFINE f == z.node[x].level[1].forward
<1>1. /\ Whole(z, pos) /\ Shorter(z, y, k, x) /\ LoweredFacts(z, y, pos, new, k, x)
      /\ y.length = z.length - 1 /\ y.tail = TailWithout(z, x)
      /\ \A n \in DOMAIN y.node :
            y.node[n].backward = IF n = f THEN z.node[x].backward ELSE z.node[n].backward
  BY DEF Deleting, DeletionFacts
<1>2. /\ z.length \in Nat \ {0} /\ k \in Nat /\ k < z.length
      /\ x \in DOMAIN z.node /\ pos[x] = k + 1 /\ x \in Members(z)
      /\ Members(y) = Members(z) \ {x} /\ NULL \notin Members(z)
      /\ \A n \in DOMAIN y.node : /\ n \in DOMAIN z.node /\ n # x
                                  /\ new[n] = IF pos[n] <= k THEN pos[n] ELSE pos[n] - 1
      /\ \A n \in DOMAIN z.node : /\ pos[n] \in Nat /\ pos[n] <= z.length
                                  /\ n # x => n \in DOMAIN y.node /\ pos[n] # k + 1
      /\ \A n \in Members(z) : n \in DOMAIN z.node /\ n # NULL /\ pos[n] # 0
  BY <1>1 DEF LoweredFacts, Shorter
<1>3. /\ f = NULL => k + 1 = z.length
      /\ f # NULL => f \in Members(z) /\ pos[f] = k + 2
  BY <1>1, <1>2, NextIs
<1>4. /\ \A m \in Members(z) :
            IF pos[m] = 1 THEN z.node[m].backward = NULL
            ELSE z.node[m].backward \in Members(z) /\ pos[z.node[m].backward] = pos[m] - 1
      /\ z.tail \in Members(z) /\ pos[z.tail] = z.length
      /\ \A a, b \in DOMAIN z.node : pos[a] = pos[b] => a = b
  BY <1>1, <1>2 DEF Whole, Backed, Numbered
<1>5. y.tail = IF f = NULL THEN z.node[x].backward ELSE z.tail
  BY <1>1 DEF TailWithout
<1> HIDE DEF f
<1>6. IF k = 0 THEN z.node[x].backward = NULL
      ELSE /\ z.node[x].backward \in Members(y) /\ new[z.node[x].backward] = k
           /\ z.node[x].backward # x
  <2> DEFINE b == z.node[x].backward
  <2>1. IF k = 0 THEN b = NULL ELSE b \in Members(z) /\ pos[b] = k
    BY <1>2, <1>4
  <2> HIDE DEF b
  <2>2. CASE k # 0
    <3>1. b \in Members(z) /\ pos[b] = k /\ b # x
      BY <1>2, <2>1, <2>2
    <3>2. b \in DOMAIN y.node /\ new[b] = k
      BY <1>2, <3>1
    <3> QED BY <1>2, <2>2, <3>1, <3>2 DEF b
  <2> QED BY <2>1, <2>2 DEF b
<1>7. ASSUME NEW m \in Members(y)
      PROVE  IF new[m] = 1 THEN y.node[m].backward = NULL
             ELSE y.node[m].backward \in Members(y) /\ new[y.node[m].backward] = new[m] - 1
  <2>1. /\ m \in Members(z) /\ m # x /\ m \in DOMAIN z.node /\ m \in DOMAIN y.node
        /\ pos[m] \in Nat /\ pos[m] # 0 /\ pos[m] # k + 1
        /\ new[m] = IF pos[m] <= k THEN pos[m] ELSE pos[m] - 1
    BY <1>2
  <2>2. CASE m = f
    <3>1. f # NULL
      BY <1>2, <2>1, <2>2
    <3>2. pos[m] = k + 2 /\ y.node[m].backward = z.node[x].backward
      BY <1>1, <1>3, <2>1, <2>2, <3>1
    <3>3. new[m] = k + 1
      BY <1>2, <2>1, <3>2
    <3> QED BY <1>2, <1>6, <3>2, <3>3
  <2>3. CASE m # f
    <3> DEFINE b == z.node[m].backward
    <3>1. y.node[m].backward = b
      BY <1>1, <2>1, <2>3
    <3>2. pos[m] # k + 2
      <4> SUFFICES ASSUME pos[m] = k + 2 PROVE FALSE
        OBVIOUS
      <4>1. f = NULL
        BY <1>2, <1>3, <1>4, <2>1, <2>3
      <4>2. pos[m] <= z.length
        BY <1>2, <2>1
      <4> QED BY <1>2, <1>3, <4>1, <4>2
    <3>3. IF pos[m] = 1 THEN b = NULL ELSE b \in Members(z) /\ pos[b] = pos[m] - 1
      BY <1>4, <2>1
    <3> HIDE DEF b
    <3>4. CASE pos[m] = 1
      <4>1. new[m] = 1
        BY <1>2, <2>1, <3>4
      <4> QED BY <3>1, <3>3, <3>4, <4>1
    <3>5. CASE pos[m] # 1
      <4>1. b \in Members(z) /\ pos[b] = pos[m] - 1
        BY <3>3, <3>5
      <4>2. b \in DOMAIN z.node /\ pos[b] # k + 1 /\ pos[b] \in Nat
        BY <1>2, <2>1, <3>2, <4>1
      <4>3. b # x
        BY <1>2, <4>2
      <4>4. b \in DOMAIN y.node /\ b \in Members(y)
            /\ new[b] = IF pos[b] <= k THEN pos[b] ELSE pos[b] - 1
        BY <1>2, <4>1, <4>2, <4>3
      <4>5. new[b] = new[m] - 1 /\ new[m] # 1
        BY <1>2, <2>1, <3>2, <3>5, <4>1, <4>2, <4>4
      <4> QED BY <3>1, <4>4, <4>5
    <3> QED BY <3>4, <3>5
  <2> QED BY <2>2, <2>3
<1>8. IF y.length = 0 THEN y.tail = NULL ELSE y.tail \in Members(y) /\ new[y.tail] = y.length
  <2>1. CASE f = NULL
    <3>1. y.length = k /\ y.tail = z.node[x].backward
      BY <1>1, <1>2, <1>3, <1>5, <2>1
    <3> QED BY <1>6, <3>1
  <2>2. CASE f # NULL
    <3>1. pos[f] <= z.length
      BY <1>2, <1>3, <2>2
    <3>2. k + 1 < z.length
      BY <1>2, <1>3, <2>2, <3>1
    <3>3. z.tail # x /\ y.tail = z.tail /\ z.tail \in DOMAIN z.node
      BY <1>2, <1>4, <1>5, <2>2, <3>2
    <3>4. z.tail \in Members(y) /\ z.tail \in DOMAIN y.node /\ new[z.tail] = z.length - 1
      BY <1>2, <1>4, <3>2, <3>3
    <3> QED BY <1>1, <1>2, <3>2, <3>3, <3>4
  <2> QED BY <2>1, <2>2
<1> QED BY <1>7, <1>8 DEF Backed

\* Its order.
LEMMA DeleteOrdered ==
    ASSUME NEW z, NEW pos, NEW k, NEW x, NEW u, Deleting(z, pos, k, x, u),
           NEW y, NEW new, DeletionFacts(z, y, pos, new, k, x, u)
    PROVE  Ordered(y, new)
<1>1. Whole(z, pos) /\ LoweredFacts(z, y, pos, new, k, x)
      /\ \A n \in DOMAIN y.node : y.node[n].score = z.node[n].score
  BY DEF Deleting, DeletionFacts
<1>2. ASSUME NEW a \in Members(y), NEW b \in Members(y), new[a] < new[b]
      PROVE  Before(y, a, y.node[b].score, b)
  <2>1. /\ a \in Members(z) /\ b \in Members(z) /\ a \in DOMAIN y.node /\ b \in DOMAIN y.node
        /\ pos[a] \in Nat /\ pos[b] \in Nat /\ k \in Nat /\ pos[a] # k + 1 /\ pos[b] # k + 1
        /\ new[a] = IF pos[a] <= k THEN pos[a] ELSE pos[a] - 1
        /\ new[b] = IF pos[b] <= k THEN pos[b] ELSE pos[b] - 1
    BY <1>1 DEF LoweredFacts
  <2>2. pos[a] < pos[b]
    BY <1>2, <2>1
  <2>3. Before(z, a, z.node[b].score, b)
    BY <1>1, <2>1, <2>2 DEF Whole, Ordered
  <2> QED BY <1>1, <2>1, <2>3 DEF Before
<1> QED BY <1>2 DEF Ordered

\* Its list is a list.
LEMMA DeleteIsList ==
    ASSUME NEW z, NEW pos, NEW k, NEW x, NEW u, Deleting(z, pos, k, x, u),
           NEW y, NEW new, DeletionFacts(z, y, pos, new, k, x, u), Numbered(y, new)
    PROVE  y \in SkipLists
<1>1. /\ Whole(z, pos) /\ x \in Members(z)
      /\ Shorter(z, y, k, x) /\ LoweredFacts(z, y, pos, new, k, x)
      /\ y.length = z.length - 1 /\ y.tail = TailWithout(z, x)
      /\ y = [level |-> y.level, length |-> y.length, tail |-> y.tail, node |-> y.node]
      /\ y.node = [n \in DOMAIN y.node |-> y.node[n]]
      /\ DOMAIN y.node = DOMAIN z.node \ {x}
      /\ \A n \in DOMAIN y.node :
          /\ y.node[n].score = z.node[n].score
          /\ y.node[n].backward = IF n = z.node[x].level[1].forward THEN z.node[x].backward
                                  ELSE z.node[n].backward
          /\ y.node[n].level = [i \in DOMAIN z.node[n].level |-> Unlinked(z, x, u, n, i)]
          /\ y.node[n] = [score |-> y.node[n].score, backward |-> y.node[n].backward,
                          level |-> y.node[n].level]
  BY DEF Deleting, DeletionFacts
<1>2. y.level \in Heights /\ y.level \in Nat /\ y.level <= z.level /\ z.level \in Nat
  BY DeleteTopped
<1>3. /\ z.tail \in Elems \cup {NULL} /\ Members(z) \subseteq Elems
      /\ DOMAIN z.node = {Header} \cup Members(z)
      /\ \A n \in DOMAIN z.node : z.node[n] \in Node
  BY <1>1, ListIs DEF Whole
<1>4. /\ y.length \in Nat /\ Members(y) = Members(z) \ {x} /\ Members(y) \subseteq Elems
      /\ DOMAIN y.node = {Header} \cup Members(y) /\ x \in DOMAIN z.node
  <2>1. /\ z.length \in Nat \ {0} /\ Members(y) = Members(z) \ {x} /\ Header \in DOMAIN y.node
        /\ x \in DOMAIN z.node
    BY <1>1 DEF LoweredFacts
  <2> QED BY <1>1, <1>3, <2>1 DEF Members
<1>5. ASSUME NEW n \in DOMAIN y.node PROVE y.node[n] \in Node
  <2> DEFINE w == z.node[n].level
             v == y.node[n].level
             b == y.node[n].backward
             s == y.node[n].score
  <2>1. /\ n \in DOMAIN z.node /\ z.node[n] \in Node /\ z.node[x] \in Node
        /\ v = [i \in DOMAIN w |-> Unlinked(z, x, u, n, i)]
        /\ y.node[n] = [score |-> s, backward |-> b, level |-> v]
    BY <1>1, <1>3, <1>4
  <2>2. s \in Scores /\ b \in Elems \cup {NULL}
    <3>1. z.node[n].score \in Scores /\ z.node[n].backward \in Elems \cup {NULL}
          /\ z.node[x].backward \in Elems \cup {NULL}
      BY <2>1, NodeIs
    <3> QED BY <1>1, <3>1
  <2>3. /\ DOMAIN w \subseteq Heights
        /\ \A i \in DOMAIN w : w[i] = [forward |-> w[i].forward, span |-> w[i].span]
                               /\ w[i] \in Link
        /\ \E g \in Heights : w \in [1 .. g -> Link] /\ DOMAIN w = 1 .. g
    <3>1. PICK g \in Heights : w \in [1 .. g -> Link] /\ DOMAIN w = 1 .. g
      BY <2>1, NodeIs
    <3>2. \A i \in DOMAIN w : w[i] \in Link
      <4> HIDE DEF w
      <4> QED BY <3>1
    <3> QED BY <2>1, <3>1, <3>2, NodeIs
  <2>4. ASSUME NEW i \in DOMAIN w PROVE v[i] \in Link
    <3>1. v[i] = Unlinked(z, x, u, n, i) /\ i \in DOMAIN v
      BY <2>1
    <3>2. CASE i > z.level
      <4>1. v[i] = w[i]
        BY <3>1, <3>2 DEF Unlinked
      <4> QED BY <2>3, <4>1
    <3>3. CASE ~(i > z.level)
      <4>1. i \in Nat
        BY <2>3, ZSetAssumption DEF Heights
      <4>2. i <= z.level
        BY <1>2, <3>3, <4>1
      <4>3. LinkOK(y, new, n, i, v[i])
        BY <3>1, <4>2, DeleteLinked DEF Up
      <4>4. v[i] = [forward |-> v[i].forward, span |-> v[i].span]
        <5> DEFINE l == w[i]
        <5>1. l = [forward |-> l.forward, span |-> l.span]
          BY <2>3
        <5>2. \/ v[i] = l
              \/ v[i] = [l EXCEPT !.span = @ - 1]
              \/ v[i] = [forward |-> z.node[x].level[i].forward,
                         span |-> l.span + z.node[x].level[i].span - 1]
          BY <3>1 DEF Unlinked
        <5>3. CASE v[i] = l
          BY <5>1, <5>3
        <5>4. CASE v[i] = [l EXCEPT !.span = @ - 1]
          <6> HIDE DEF l, v
          <6>1. v[i] = [forward |-> l.forward, span |-> l.span - 1]
            BY <5>1, <5>4, SpanIs
          <6> QED BY <6>1
        <5>5. CASE v[i] = [forward |-> z.node[x].level[i].forward,
                         span |-> l.span + z.node[x].level[i].span - 1]
          <6> HIDE DEF l, v
          <6> QED BY <5>5
        <5> QED BY <5>2, <5>3, <5>4, <5>5
      <4> HIDE DEF v
      <4> QED BY <1>4, <4>3, <4>4, IsLink
    <3> QED BY <3>2, <3>3
  <2>5. PICK g \in Heights : w \in [1 .. g -> Link] /\ DOMAIN w = 1 .. g
    BY <2>3
  <2>6. v = [i \in 1 .. g |-> v[i]]
    BY <2>1, <2>5
  <2> HIDE DEF v, b, s
  <2>7. v \in [1 .. g -> Link]
    BY <2>4, <2>5, <2>6
  <2> QED BY <2>1, <2>2, <2>7, IsNode
<1>6. y.node \in [{Header} \cup Members(y) -> Node]
  BY <1>1, <1>4, <1>5
<1>7. y.tail \in Elems \cup {NULL}
  <2>1. z.node[x].backward \in Elems \cup {NULL}
    BY <1>3, <1>4, NodeIs
  <2> QED BY <1>1, <1>3, <2>1 DEF TailWithout
<1>8. [level |-> y.level, length |-> y.length, tail |-> y.tail, node |-> y.node] \in SkipLists
  BY ONLY <1>2, <1>4, <1>6, <1>7, IsList
<1> QED BY <1>1, <1>8

\* The nodes before stay the last ones before the place.
LEMMA SpotsStay ==
    ASSUME NEW z, NEW pos, NEW k, NEW x, NEW u, Deleting(z, pos, k, x, u),
           NEW y, NEW new, DeletionFacts(z, y, pos, new, k, x, u)
    PROVE  Spots(y, new, k, u)
<1>1. /\ Spots(z, pos, k, u) /\ Shorter(z, y, k, x) /\ LoweredFacts(z, y, pos, new, k, x)
      /\ y.level \in Nat /\ y.level <= z.level /\ z.level \in Nat
  <2>1. y.level \in Nat /\ y.level <= z.level /\ z.level \in Nat
    BY DeleteTopped
  <2> QED BY <2>1 DEF Deleting, DeletionFacts
<1>2. /\ k \in Nat /\ pos[x] = k + 1
      /\ \A n \in DOMAIN y.node : n \in DOMAIN z.node /\ \A i : Up(y, n, i) <=> Up(z, n, i)
      /\ \A n \in DOMAIN y.node : new[n] = IF pos[n] <= k THEN pos[n] ELSE pos[n] - 1
      /\ \A n \in DOMAIN y.node : pos[n] # k + 1
      /\ \A n \in DOMAIN z.node : pos[n] \in Nat /\ (n # x => n \in DOMAIN y.node)
      /\ \A n \in Members(y) : n \in Members(z) /\ n \in DOMAIN y.node
  BY <1>1 DEF LoweredFacts, Shorter, Members
<1>3. ASSUME NEW i \in 1 .. y.level
      PROVE  /\ u[i] \in DOMAIN y.node /\ Up(y, u[i], i) /\ new[u[i]] <= k
             /\ \A m \in Members(y) : Up(y, m, i) /\ new[m] <= k => new[m] <= new[u[i]]
  <2>1. i \in 1 .. z.level
    BY <1>1
  <2>2. /\ u[i] \in DOMAIN z.node /\ Up(z, u[i], i) /\ pos[u[i]] <= k
        /\ \A m \in Members(z) : Up(z, m, i) /\ pos[m] <= k => pos[m] <= pos[u[i]]
    BY <1>1, <2>1 DEF Spots
  <2>3. u[i] # x
    BY <1>2, <2>2
  <2>4. u[i] \in DOMAIN y.node /\ Up(y, u[i], i) /\ new[u[i]] = pos[u[i]]
    BY <1>2, <2>2, <2>3
  <2>5. ASSUME NEW m \in Members(y), Up(y, m, i), new[m] <= k PROVE new[m] <= new[u[i]]
    <3>1. m \in Members(z) /\ m \in DOMAIN y.node /\ m \in DOMAIN z.node /\ pos[m] \in Nat
          /\ pos[m] # k + 1 /\ Up(z, m, i)
      BY <1>2, <2>5
    <3>2. new[m] = pos[m] /\ pos[m] <= k
      BY <1>2, <2>5, <3>1
    <3> QED BY <2>2, <2>4, <3>1, <3>2
  <2> QED BY <2>2, <2>4, <2>5
<1> QED BY <1>3 DEF Spots

\* A list that is whole is so with one node less.
LEMMA DeleteWhole ==
    ASSUME NEW z, NEW pos, NEW k, NEW x, NEW u, Deleting(z, pos, k, x, u)
    PROVE  LET y == zslDeleteNode(z, x, u)
               new == Lowered(z, pos, k, x)
           IN  /\ Whole(y, new) /\ Spots(y, new, k, u)
               /\ Members(y) = Members(z) \ {x} /\ y.length = z.length - 1
               /\ \A n \in Members(y) : y.node[n].score = z.node[n].score
<1> DEFINE y == zslDeleteNode(z, x, u)
           new == Lowered(z, pos, k, x)
<1>1. Whole(z, pos) /\ pos[x] = k + 1
  BY DEF Deleting
<1>2. Deletion(z, y, x, u)
  BY <1>1, DeleteIs
<1> HIDE DEF y
<1>3. DeletionFacts(z, y, pos, new, k, x, u)
  BY <1>2, DeletionIs
<1>4. Shorter(z, y, k, x) /\ LoweredFacts(z, y, pos, new, k, x) /\ y.length = z.length - 1
      /\ \A n \in DOMAIN y.node : y.node[n].score = z.node[n].score
  BY <1>3 DEF DeletionFacts
<1>5. Numbered(y, new)
  BY <1>1, <1>4, DeleteNumbered
<1> HIDE DEF new
<1>6. /\ y \in SkipLists /\ Topped(y) /\ Backed(y, new) /\ Ordered(y, new)
      /\ Spots(y, new, k, u)
  BY ONLY <1>3, <1>5, Deleting(z, pos, k, x, u), DeleteIsList, DeleteTopped, DeleteBacked,
          DeleteOrdered, SpotsStay
<1>7. Linked(y, new)
  <2> SUFFICES ASSUME NEW n \in DOMAIN y.node, NEW i \in DOMAIN y.node[n].level, i <= y.level
               PROVE  LinkOK(y, new, n, i, y.node[n].level[i])
    BY DEF Linked
  <2>1. y.level \in Nat /\ y.level <= z.level /\ z.level \in Nat
    BY ONLY <1>3, Deleting(z, pos, k, x, u), DeleteTopped
  <2>2. y.node[n] \in Node
    BY <1>6, ListIs
  <2>3. i \in Nat
    BY <2>2, NodeIs, ZSetAssumption DEF Heights
  <2>4. i <= z.level
    BY <2>1, <2>3
  <2> QED BY <1>3, <2>4, DeleteLinked DEF Up
<1>8. Whole(y, new)
  BY <1>5, <1>6, <1>7 DEF Whole
<1>9. Members(y) = Members(z) \ {x} /\ \A n \in Members(y) : n \in DOMAIN y.node
  BY <1>4 DEF LoweredFacts, Members
<1> QED BY <1>4, <1>6, <1>8, <1>9 DEF y, new

\* The nodes a search stops at.
StopNodes(z, cross) == [i \in 1 .. z.level |-> Search(z, cross)[i].node]

LEMMA StopsAreSpots ==
    ASSUME NEW z, NEW pos, Whole(z, pos), NEW cross, NEW k, Cut(z, pos, cross, k)
    PROVE  Spots(z, pos, k, StopNodes(z, cross)) /\ k \in Nat
<1> DEFINE at == Search(z, cross)
           u == StopNodes(z, cross)
<1>1. \A i \in 1 .. z.level : u[i] = at[i].node
  BY DEF StopNodes
<1>2. \A i \in 1 .. z.level : Stop(z, pos, k, i, at[i])
  BY SearchStops
<1> HIDE DEF at, u
<1>3. \A i \in 1 .. z.level :
        /\ u[i] \in DOMAIN z.node /\ Up(z, u[i], i) /\ pos[u[i]] <= k
        /\ \A y \in Members(z) : Up(z, y, i) /\ pos[y] <= k => pos[y] <= pos[u[i]]
  <2> TAKE i \in 1 .. z.level
  <2>1. Stop(z, pos, k, i, at[i]) /\ u[i] = at[i].node
    BY <1>1, <1>2
  <2> QED BY <2>1 DEF Stop, Way, Places
<1>4. Spots(z, pos, k, u)
  BY <1>3 DEF Spots
<1>5. k \in Nat
  BY PosIs DEF Cut
<1> QED BY <1>4, <1>5 DEF u

\* The list finds each of its members, and is whole without it.
LEMMA MemberDeleted ==
    ASSUME NEW z, NEW pos, Whole(z, pos), NEW obj \in Members(z)
    PROVE  LET y == zslDelete(z, z.node[obj].score, obj)
           IN  /\ \E new : Whole(y, new)
               /\ Members(y) = Members(z) \ {obj} /\ y.length = z.length - 1
               /\ \A n \in Members(y) : y.node[n].score = z.node[n].score
<1> DEFINE cross == BeforeThese(z, z.node[obj].score, obj)
           u == StopNodes(z, cross)
           k == pos[obj] - 1
<1>1. Cut(z, pos, cross, k)
  BY MemberCut
<1>2. zslDelete(z, z.node[obj].score, obj) = zslDeleteNode(z, obj, u)
  BY DEF zslDelete, StopNodes, BeforeThese
<1>3. pos[obj] \in Nat
  BY PosIs
<1>4. pos[obj] = k + 1
  BY <1>3
<1> HIDE DEF cross, u, k
<1>5. Spots(z, pos, k, StopNodes(z, cross)) /\ k \in Nat
  BY <1>1, StopsAreSpots
<1>6. Deleting(z, pos, k, obj, u)
  BY <1>4, <1>5 DEF Deleting, u
<1> QED BY <1>2, <1>6, DeleteWhole

LEMMA MemberFound ==
    ASSUME NEW z, NEW pos, Whole(z, pos), NEW obj \in Members(z)
    PROVE  Finds(z, z.node[obj].score, obj)
<1> DEFINE cross == BeforeThese(z, z.node[obj].score, obj)
           at == Search(z, cross)
           k == pos[obj] - 1
           a == at[1].node
           f == z.node[a].level[1].forward
<1>1. Cut(z, pos, cross, k)
  BY MemberCut
<1>2. Finds(z, z.node[obj].score, obj) <=>
         f = obj /\ Equal(z.node[obj].score, z.node[obj].score)
  BY DEF Finds, BeforeThese
<1>3. z.level \in Nat \ {0} /\ pos[obj] \in 1 .. z.length /\ z.length \in Nat
      /\ z.node[obj].score \in Int /\ obj \in DOMAIN z.node
  BY PosIs
<1>4. pos[obj] = k + 1
  BY <1>3
<1> HIDE DEF cross, k
<1>5. Stop(z, pos, k, 1, at[1])
  <2>1. 1 \in 1 .. z.level
    BY <1>3
  <2> QED BY <1>1, <2>1, SearchStops
<1>6. a \in DOMAIN z.node /\ pos[a] = k
  BY <1>1, <1>5, StopIsCut
<1> HIDE DEF at, a
<1>7. /\ f = NULL => k = z.length
      /\ f # NULL => f \in Members(z) /\ pos[f] = k + 1
  BY <1>6, NextIs
<1> HIDE DEF f
<1>8. f \in Members(z) /\ pos[f] = pos[obj]
  BY <1>3, <1>4, <1>7
<1>9. f = obj
  BY <1>3, <1>8 DEF Whole, Numbered, Members
<1>10. Equal(z.node[obj].score, z.node[obj].score)
  BY <1>3, ZSetAssumption DEF Equal
<1> QED BY <1>2, <1>9, <1>10

\* Deleting one node after the other, from the same place: its recursive
\* part named.
DeletesRun(z, u, xs, h) ==
    h = [n \in 0 .. Len(xs) |-> IF n = 0 THEN z ELSE zslDeleteNode(h[n - 1], xs[n], u)]

LEMMA DeleteRunIs ==
    ASSUME NEW z, NEW cross, NEW xs
    PROVE  DeleteRun(z, Search(z, cross), xs) =
             (CHOOSE h : DeletesRun(z, StopNodes(z, cross), xs, h))[Len(xs)]
BY DEF DeleteRun, DeletesRun, StopNodes

\* What is left after n of them.
Left(z, pos, k, u, xs, n) ==
    {y \in SkipLists : \E new :
        /\ Whole(y, new) /\ Spots(y, new, k, u)
        /\ Members(y) = Members(z) \ {xs[i] : i \in 1 .. n} /\ y.length = z.length - n
        /\ \A m \in Members(y) : /\ y.node[m].score = z.node[m].score
                                 /\ new[m] = IF pos[m] <= k THEN pos[m] ELSE pos[m] - n}

\* xs are the nodes behind the first k.
RunAt(z, pos, k, xs) ==
    xs \in Seq(Members(z)) /\ \A i \in 1 .. Len(xs) : pos[xs[i]] = k + i

LEMMA OneMoreGone ==
    ASSUME NEW z, NEW pos, Whole(z, pos), NEW k \in Nat, NEW u, NEW xs, RunAt(z, pos, k, xs),
           NEW n \in 1 .. Len(xs), NEW y \in Left(z, pos, k, u, xs, n - 1)
    PROVE  zslDeleteNode(y, xs[n], u) \in Left(z, pos, k, u, xs, n)
<1> DEFINE x == xs[n]
           t == zslDeleteNode(y, x, u)
<1>1. PICK new :
        /\ Whole(y, new) /\ Spots(y, new, k, u)
        /\ Members(y) = Members(z) \ {xs[i] : i \in 1 .. n - 1} /\ y.length = z.length - (n - 1)
        /\ \A m \in Members(y) : /\ y.node[m].score = z.node[m].score
                                 /\ new[m] = IF pos[m] <= k THEN pos[m] ELSE pos[m] - (n - 1)
  BY DEF Left
<1>2. /\ Len(xs) \in Nat /\ n \in Nat /\ n # 0
      /\ \A i \in 1 .. Len(xs) : xs[i] \in Members(z)
      /\ \A i \in 1 .. Len(xs) : pos[xs[i]] = k + i
  BY DEF RunAt
<1>3. \A i \in 1 .. n - 1 : xs[i] # x
  <2> TAKE i \in 1 .. n - 1
  <2>1. i \in 1 .. Len(xs)
    BY <1>2
  <2>2. pos[xs[i]] = k + i /\ pos[x] = k + n /\ i < n
    BY <1>2, <2>1
  <2> QED BY <2>2
<1>4. x \in Members(y) /\ new[x] = k + 1
  <2>1. x \in Members(z) /\ pos[x] = k + n
    BY <1>2
  <2>2. x \in Members(y)
    BY <1>1, <1>3, <2>1
  <2> HIDE DEF x
  <2>3. new[x] = IF pos[x] <= k THEN pos[x] ELSE pos[x] - (n - 1)
    BY <1>1, <2>2
  <2> QED BY <1>2, <2>1, <2>2, <2>3
<1> HIDE DEF x
<1>5. Deleting(y, new, k, x, u)
  BY <1>1, <1>4 DEF Deleting
<1> DEFINE low == Lowered(y, new, k, x)
<1>6. /\ Whole(t, low) /\ Spots(t, low, k, u)
      /\ Members(t) = Members(y) \ {x} /\ t.length = y.length - 1
      /\ \A m \in Members(t) : t.node[m].score = y.node[m].score
  BY <1>5, DeleteWhole
<1>7. \A m \in Members(y) : m # x => low[m] = IF new[m] <= k THEN new[m] ELSE new[m] - 1
  BY DEF Lowered, Members
<1> HIDE DEF t, low
<1>8. t \in SkipLists
  BY <1>6 DEF Whole
<1>9. Members(t) = Members(z) \ {xs[i] : i \in 1 .. n}
  <2>1. {xs[i] : i \in 1 .. n} = {xs[i] : i \in 1 .. n - 1} \cup {x}
    <3>1. \A i : i \in 1 .. n <=> i \in 1 .. n - 1 \/ i = n
      BY <1>2
    <3> QED BY <3>1 DEF x
  <2> QED BY <1>1, <1>6, <2>1
<1>10. t.length = z.length - n
  <2>1. z.length \in Nat
    BY PosIs
  <2> QED BY <1>1, <1>2, <1>6, <2>1
<1>11. ASSUME NEW m \in Members(t)
       PROVE  /\ t.node[m].score = z.node[m].score
              /\ low[m] = IF pos[m] <= k THEN pos[m] ELSE pos[m] - n
  <2>1. m \in Members(y) /\ m # x /\ m \in Members(z) /\ new[m] \in Nat /\ pos[m] \in Nat
        /\ new[x] = k + 1
    <3>1. m \in Members(y) /\ m # x /\ m \in Members(z)
      BY <1>1, <1>6
    <3>2. new[m] \in Nat
      BY <1>1, <3>1, PosIs
    <3>3. pos[m] \in Nat
      BY <3>1, PosIs
    <3> QED BY <1>4, <3>1, <3>2, <3>3
  <2>2. new[m] = IF pos[m] <= k THEN pos[m] ELSE pos[m] - (n - 1)
    BY <1>1, <2>1
  <2>3. low[m] = IF new[m] <= k THEN new[m] ELSE new[m] - 1
    BY <1>7, <2>1
  <2>4. new[m] # new[x]
    BY <1>1, <1>4, <2>1 DEF Whole, Numbered, Members
  <2>5. pos[m] > k => new[m] > k
    <3> SUFFICES ASSUME pos[m] > k, new[m] <= k PROVE FALSE
      BY <2>1
    <3>1. /\ \A i \in 1 .. n - 1 : m # xs[i]
          /\ \A a, b \in DOMAIN z.node : pos[a] = pos[b] => a = b
      BY <1>1, <2>1 DEF Whole, Numbered
    <3>2. pos[m] = new[m] + (n - 1)
      BY <1>2, <2>1, <2>2
    <3>3. pos[m] - k \in 1 .. n - 1
      BY <1>2, <2>1, <3>2
    <3>4. pos[m] - k \in 1 .. Len(xs)
      BY <1>2, <3>3
    <3>5. pos[xs[pos[m] - k]] = pos[m] /\ xs[pos[m] - k] \in Members(z)
      BY <1>2, <2>1, <3>4
    <3>6. xs[pos[m] - k] = m
      BY <2>1, <3>1, <3>5 DEF Members
    <3> QED BY <3>1, <3>3, <3>6
  <2>6. low[m] = IF pos[m] <= k THEN pos[m] ELSE pos[m] - n
    <3>1. CASE pos[m] <= k
      BY <2>2, <2>3, <3>1
    <3>2. CASE pos[m] > k
      <4>1. ~(pos[m] <= k) /\ ~(new[m] <= k)
        BY <2>1, <2>5, <3>2
      <4>2. low[m] = new[m] - 1 /\ new[m] = pos[m] - (n - 1)
        BY <2>2, <2>3, <4>1
      <4>3. low[m] = pos[m] - n
        BY <1>2, <2>1, <4>2
      <4> QED BY <4>1, <4>3
    <3>3. pos[m] <= k \/ pos[m] > k
      BY <2>1
    <3> QED BY <3>1, <3>2, <3>3
  <2> QED BY <1>1, <1>6, <2>1, <2>6
<1>12. t \in Left(z, pos, k, u, xs, n)
  BY <1>6, <1>8, <1>9, <1>10, <1>11 DEF Left
<1> QED BY <1>12 DEF t, x

\* A list that is whole is so without a run of nodes behind the cut.
LEMMA RunDeleted ==
    ASSUME NEW z, NEW pos, Whole(z, pos), NEW cross, NEW k, Cut(z, pos, cross, k),
           NEW xs, RunAt(z, pos, k, xs)
    PROVE  LET y == DeleteRun(z, Search(z, cross), xs)
           IN  /\ \E new : Whole(y, new)
               /\ Members(y) = Members(z) \ {xs[i] : i \in 1 .. Len(xs)}
               /\ y.length = z.length - Len(xs)
               /\ \A n \in Members(y) : y.node[n].score = z.node[n].score
<1> DEFINE u == StopNodes(z, cross)
           D == 0 .. Len(xs)
           I == [n \in D |-> Left(z, pos, k, u, xs, n)]
           G == [n \in D |-> [y \in I[n - 1] |-> zslDeleteNode(y, xs[n], u)]]
           h == CHOOSE g : DeletesRun(z, u, xs, g)
<1>1. Spots(z, pos, k, u) /\ k \in Nat
  BY StopsAreSpots
<1>2. Len(xs) \in Nat
  BY DEF RunAt
<1>3. D \in SUBSET Nat /\ 0 \in D /\ \A n \in D \ {0} : n - 1 \in D /\ n \in 1 .. Len(xs)
  BY <1>2
<1> HIDE DEF u
<1>4. z \in I[0]
  <2>1. z \in SkipLists /\ z.length \in Nat /\ \A m \in Members(z) : pos[m] \in Nat
    BY PosIs DEF Whole
  <2>2. /\ Members(z) = Members(z) \ {xs[i] : i \in 1 .. 0} /\ z.length = z.length - 0
        /\ \A m \in Members(z) : pos[m] = IF pos[m] <= k THEN pos[m] ELSE pos[m] - 0
    BY <2>1
  <2>3. z \in Left(z, pos, k, u, xs, 0)
    BY <1>1, <2>1, <2>2 DEF Left
  <2> QED BY <1>3, <2>3
<1>5. ASSUME NEW n \in D \ {0}, NEW y \in I[n - 1]
      PROVE  G[n][y] = zslDeleteNode(y, xs[n], u) /\ G[n][y] \in I[n]
  <2>1. I[n - 1] = Left(z, pos, k, u, xs, n - 1) /\ I[n] = Left(z, pos, k, u, xs, n)
    BY <1>3
  <2>2. G[n] = [t \in I[n - 1] |-> zslDeleteNode(t, xs[n], u)]
    OBVIOUS
  <2> HIDE DEF I, G
  <2>3. G[n][y] = zslDeleteNode(y, xs[n], u)
    BY <2>2
  <2>4. zslDeleteNode(y, xs[n], u) \in Left(z, pos, k, u, xs, n)
    BY <1>1, <1>3, <2>1, OneMoreGone
  <2> QED BY <2>1, <2>3, <2>4
<1> HIDE DEF D, I, G
<1>6. Turning(D, I, z, G)
  BY <1>4, <1>5 DEF Turning
<1>7. PICK g : Loop(D, z, G, g) /\ \A n \in D : g[n] \in I[n]
  BY <1>3, <1>6, LoopSolved
<1>8. g = [n \in D |-> IF n = 0 THEN z ELSE G[n][g[n - 1]]]
  BY <1>7 DEF Loop
<1>9. \A n \in D : n # 0 => G[n][g[n - 1]] = zslDeleteNode(g[n - 1], xs[n], u)
  BY <1>3, <1>5, <1>7
<1>10. DeletesRun(z, u, xs, g)
  BY <1>8, <1>9 DEF DeletesRun, D
<1>11. DeletesRun(z, u, xs, h)
  BY <1>10
<1>12. DeleteRun(z, Search(z, cross), xs) = h[Len(xs)]
  BY DeleteRunIs DEF u
<1> HIDE DEF h
<1>13. h[0] = z /\ \A n \in D \ {0} : h[n] = zslDeleteNode(h[n - 1], xs[n], u)
  BY <1>3, <1>11 DEF DeletesRun, D
<1> DEFINE B == {n \in D : h[n] \in I[n]}
<1>14. 0 \in B
  BY <1>3, <1>4, <1>13
<1>15. ASSUME NEW n \in D \ {0}, n - 1 \in B PROVE n \in B
  BY <1>5, <1>13, <1>15
<1>16. \A n \in D : n \in B
  <2> HIDE DEF B
  <2> QED BY <1>3, <1>14, <1>15, Upwards
<1>17. h[Len(xs)] \in Left(z, pos, k, u, xs, Len(xs))
  <2>1. Len(xs) \in D
    BY <1>2 DEF D
  <2> QED BY <1>16, <2>1 DEF I
<1> DEFINE y == h[Len(xs)]
<1>18. PICK new :
        /\ Whole(y, new)
        /\ Members(y) = Members(z) \ {xs[i] : i \in 1 .. Len(xs)} /\ y.length = z.length - Len(xs)
        /\ \A m \in Members(y) : y.node[m].score = z.node[m].score
  BY <1>17 DEF Left
<1> HIDE DEF y
<1> QED BY <1>12, <1>18 DEF y

-----------------------------------------------------------------------------
(* Walks along level 1.                                                    *)

\* One turn of a walk forward, the rest of it given.
Behind(z, p) == [node |-> z.node[p.node].level[1].forward, rank |-> p.rank + 1]
Passing(z, within, f, p) ==
    IF within[p]
    THEN <<p.node>> \o IF Behind(z, p).node = NULL THEN <<>> ELSE f[Behind(z, p)]
    ELSE <<>>
IsPass(z, within, f) == f = [p \in Places(z) |-> Passing(z, within, f, p)]

\* The walk, its recursive part named.
LEMMA RunIs ==
    ASSUME NEW z, NEW x, NEW within
    PROVE  Run(z, x, FALSE, within) =
             IF x = NULL THEN <<>>
             ELSE (CHOOSE f : IsPass(z, within, f))[[node |-> x, rank |-> 1]]
BY DEF Run, IsPass, Passing, Behind, Next1

LEMMA BehindIs ==
    ASSUME NEW z, NEW pos, Whole(z, pos), NEW p \in Places(z), Behind(z, p).node # NULL
    PROVE  /\ Behind(z, p) \in Places(z) /\ Behind(z, p).node \in Members(z)
           /\ pos[Behind(z, p).node] = pos[p.node] + 1 /\ Behind(z, p).rank = p.rank + 1
<1> DEFINE f == z.node[p.node].level[1].forward
<1>1. p.node \in DOMAIN z.node /\ p.rank \in Int
  BY DEF Places
<1>2. Behind(z, p) = [node |-> f, rank |-> p.rank + 1]
  BY DEF Behind
<1>3. f # NULL
  BY <1>2
<1>4. f \in Members(z) /\ pos[f] = pos[p.node] + 1
  BY <1>1, <1>3, NextIs
<1> HIDE DEF f
<1> QED BY <1>1, <1>2, <1>4 DEF Places, Members

\* There is a walk from each place.
LEMMA PassExists ==
    ASSUME NEW z, NEW pos, Whole(z, pos), NEW within
    PROVE  IsPass(z, within, CHOOSE f : IsPass(z, within, f))
<1> DEFINE D == Places(z)
           A == Seq(DOMAIN z.node)
           m == [p \in D |-> z.length - pos[p.node]]
           F == [a \in D \X [D -> A] |-> Passing(z, within, a[2], a[1])]
<1>1. /\ z.length \in Nat /\ \A x \in DOMAIN z.node : pos[x] \in 0 .. z.length
      /\ \A p \in D : p.node \in DOMAIN z.node
  BY PosIs DEF Places
<1>2. m \in [D -> Nat]
  BY <1>1
<1>3. ASSUME NEW p \in D, Behind(z, p).node # NULL
      PROVE  Behind(z, p) \in D /\ m[Behind(z, p)] < m[p]
  <2>1. Behind(z, p) \in D /\ pos[Behind(z, p).node] = pos[p.node] + 1
    BY <1>3, BehindIs
  <2>2. m[p] = z.length - pos[p.node]
        /\ m[Behind(z, p)] = z.length - pos[Behind(z, p).node]
    BY <2>1
  <2>3. pos[p.node] \in Nat
    BY <1>1
  <2> HIDE DEF D, m
  <2> QED BY <1>1, <2>1, <2>2, <2>3
<1>4. F \in [D \X [D -> A] -> A]
  <2> SUFFICES ASSUME NEW p \in D, NEW h \in [D -> A]
               PROVE  Passing(z, within, h, p) \in A
    OBVIOUS
  <2> DEFINE r == IF Behind(z, p).node = NULL THEN <<>> ELSE h[Behind(z, p)]
  <2>1. r \in A
    <3>1. Behind(z, p).node # NULL => h[Behind(z, p)] \in A
      <4> HIDE DEF D, A
      <4> QED BY <1>3
    <3>2. <<>> \in A
      OBVIOUS
    <3> HIDE DEF A
    <3> QED BY <3>1, <3>2
  <2>2. Passing(z, within, h, p) = IF within[p] THEN <<p.node>> \o r ELSE <<>>
    BY DEF Passing
  <2> HIDE DEF r
  <2>3. <<p.node>> \in A /\ <<>> \in A
    <3> DEFINE n == p.node
    <3>1. n \in DOMAIN z.node
      BY <1>1
    <3> HIDE DEF n
    <3>2. <<n>> \in Seq(DOMAIN z.node) /\ <<>> \in Seq(DOMAIN z.node)
      <4> DEFINE S == DOMAIN z.node
      <4> HIDE DEF S, D, m, F, A, r
      <4>1. n \in S
        BY <3>1 DEF S
      <4>2. <<n>> \in Seq(S) /\ <<>> \in Seq(S)
        BY ONLY <4>1
      <4> QED BY ONLY <4>2 DEF S
    <3> QED BY <3>2 DEF n
  <2>4. <<p.node>> \o r \in A
    BY <2>1, <2>3
  <2> HIDE DEF A
  <2> QED BY <2>2, <2>3, <2>4
<1>5. Descends(D, A, F, m)
  <2>1. ASSUME NEW p \in D, NEW g \in [D -> A], NEW h \in [D -> A],
               \A y \in D : m[y] < m[p] => g[y] = h[y]
        PROVE  F[<<p, g>>] = F[<<p, h>>]
    <3>1. F[<<p, g>>] = Passing(z, within, g, p) /\ F[<<p, h>>] = Passing(z, within, h, p)
      OBVIOUS
    <3>2. Behind(z, p).node # NULL => g[Behind(z, p)] = h[Behind(z, p)]
      <4> HIDE DEF D, m, F, A
      <4> QED BY <1>3, <2>1
    <3>3. Passing(z, within, g, p) = Passing(z, within, h, p)
      BY <3>2 DEF Passing
    <3> HIDE DEF D, m, F, A
    <3> QED BY <3>1, <3>3
  <2> HIDE DEF D, m, F, A
  <2> QED BY <1>2, <1>4, <2>1 DEF Descends
<1>6. [D -> A] # {}
  <2>1. [p \in D |-> <<>>] \in [D -> A]
    OBVIOUS
  <2> QED BY <2>1
<1>7. PICK h \in [D -> A] : h = [p \in D |-> F[<<p, h>>]]
  <2> HIDE DEF D, F, m, A
  <2> QED BY ONLY <1>5, <1>6, RecursionSolved
<1>8. \A p \in D : F[<<p, h>>] = Passing(z, within, h, p)
  OBVIOUS
<1>9. IsPass(z, within, h)
  <2> HIDE DEF F
  <2> QED BY <1>7, <1>8 DEF IsPass
<1> HIDE DEF D, F, m, A
<1> QED BY <1>9

\* One element before a sequence.
LEMMA InFront ==
    ASSUME NEW S, NEW x \in S, NEW t \in Seq(S)
    PROVE  LET xs == <<x>> \o t
           IN  /\ xs \in Seq(S) /\ Len(xs) = Len(t) + 1 /\ Len(t) \in Nat /\ xs[1] = x
               /\ \A j \in 1 .. Len(xs) : j # 1 => j - 1 \in 1 .. Len(t) /\ xs[j] = t[j - 1]
<1> DEFINE o == <<x>>
<1>1. o \in Seq(S) /\ Len(o) = 1 /\ o[1] = x /\ Len(t) \in Nat
  OBVIOUS
<1> HIDE DEF o
<1> DEFINE xs == o \o t
<1>2. /\ xs \in Seq(S) /\ Len(xs) = Len(o) + Len(t)
      /\ \A i \in 1 .. Len(o) + Len(t) : xs[i] = IF i <= Len(o) THEN o[i] ELSE t[i - Len(o)]
  BY <1>1, ConcatProperties
<1> HIDE DEF xs
<1>3. xs[1] = x
  BY <1>1, <1>2
<1>4. ASSUME NEW j \in 1 .. Len(xs), j # 1 PROVE j - 1 \in 1 .. Len(t) /\ xs[j] = t[j - 1]
  BY <1>1, <1>2, <1>4
<1>5. Len(xs) = Len(t) + 1
  BY <1>1, <1>2
<1> QED BY <1>1, <1>2, <1>3, <1>4, <1>5 DEF xs, o

\* The nodes of a walk from a member on are neighbours, and one that passes
\* every node ends at the last one.
Neighbours(z, pos, x, xs) ==
    xs \in Seq(Members(z)) /\ \A j \in 1 .. Len(xs) : pos[xs[j]] = pos[x] + (j - 1)
EveryPlace(z, pos, within) ==
    \A x \in Members(z) : within[[node |-> x, rank |-> pos[x]]]
WalkOK(z, pos, within, p, xs) ==
    /\ Neighbours(z, pos, p.node, xs)
    /\ EveryPlace(z, pos, within) /\ p.rank = pos[p.node] =>
          Len(xs) = z.length - pos[p.node] + 1

LEMMA PassIs ==
    ASSUME NEW z, NEW pos, Whole(z, pos), NEW within, NEW f, IsPass(z, within, f),
           NEW p \in Places(z), p.node \in Members(z),
           Behind(z, p).node # NULL => WalkOK(z, pos, within, Behind(z, p), f[Behind(z, p)])
    PROVE  WalkOK(z, pos, within, p, f[p])
<1> DEFINE b == Behind(z, p)
           x == p.node
           S == Members(z)
           t == IF b.node = NULL THEN <<>> ELSE f[b]
<1>1. f[p] = Passing(z, within, f, p)
  BY DEF IsPass
<1>2. f[p] = IF within[p] THEN <<x>> \o t ELSE <<>>
  BY <1>1 DEF Passing
<1>3. x \in S /\ pos[x] \in 1 .. z.length /\ z.length \in Nat /\ x \in DOMAIN z.node
      /\ p = [node |-> x, rank |-> p.rank]
  BY PosIs DEF Places
<1>4. /\ b.node = NULL => pos[x] = z.length
      /\ b.node # NULL => pos[b.node] = pos[x] + 1 /\ b.rank = p.rank + 1
  <2>1. b.node = z.node[x].level[1].forward
    BY DEF Behind
  <2>2. b.node = NULL => pos[x] = z.length
    BY <1>3, <2>1, NextIs
  <2> QED BY <2>2, BehindIs
<1>5. b.node # NULL => WalkOK(z, pos, within, b, f[b])
  OBVIOUS
<1> HIDE DEF b
<1>6. /\ t \in Seq(S)
      /\ \A j \in 1 .. Len(t) : pos[t[j]] = pos[x] + j
      /\ EveryPlace(z, pos, within) /\ p.rank = pos[x] => Len(t) = z.length - pos[x]
  <2>1. CASE b.node = NULL
    <3>1. t = <<>>
      BY <2>1
    <3> HIDE DEF t, x, S
    <3> QED BY <1>3, <1>4, <2>1, <3>1
  <2>2. CASE b.node # NULL
    <3>1. t = f[b] /\ pos[b.node] = pos[x] + 1 /\ b.rank = p.rank + 1
          /\ Neighbours(z, pos, b.node, t)
          /\ (EveryPlace(z, pos, within) /\ b.rank = pos[b.node] =>
                Len(t) = z.length - pos[b.node] + 1)
      BY <1>4, <1>5, <2>2 DEF WalkOK
    <3> HIDE DEF t, x
    <3>2. t \in Seq(S) /\ \A j \in 1 .. Len(t) : pos[t[j]] = pos[b.node] + (j - 1)
      BY <3>1 DEF Neighbours
    <3> HIDE DEF S
    <3>3. ASSUME NEW j \in 1 .. Len(t) PROVE pos[t[j]] = pos[x] + j
      BY <1>3, <3>1, <3>2
    <3>4. p.rank = pos[x] => b.rank = pos[b.node]
      BY <1>3, <3>1
    <3>5. EveryPlace(z, pos, within) /\ p.rank = pos[x] => Len(t) = z.length - pos[x]
      BY <1>3, <3>1, <3>4
    <3> QED BY <3>2, <3>3, <3>5
  <2> QED BY <2>1, <2>2
<1> HIDE DEF t
<1>7. EveryPlace(z, pos, within) /\ p.rank = pos[x] => within[p]
  BY <1>3 DEF EveryPlace
<1> HIDE DEF x, S
<1>8. CASE within[p]
  <2> DEFINE xs == <<x>> \o t
  <2>1. /\ xs \in Seq(S) /\ Len(xs) = Len(t) + 1 /\ Len(t) \in Nat /\ xs[1] = x
        /\ \A j \in 1 .. Len(xs) : j # 1 => j - 1 \in 1 .. Len(t) /\ xs[j] = t[j - 1]
    BY ONLY <1>3, <1>6, InFront
  <2>2. f[p] = xs
    BY <1>2, <1>8
  <2> HIDE DEF xs
  <2>3. ASSUME NEW j \in 1 .. Len(xs) PROVE pos[xs[j]] = pos[x] + (j - 1)
    <3>1. CASE j = 1
      BY <1>3, <2>1, <3>1
    <3>2. CASE j # 1
      <4>1. j - 1 \in 1 .. Len(t) /\ xs[j] = t[j - 1]
        BY <2>1, <3>2
      <4> QED BY <1>6, <4>1
    <3> QED BY <3>1, <3>2
  <2>4. Neighbours(z, pos, x, xs)
    BY <2>1, <2>3 DEF Neighbours, S
  <2>5. EveryPlace(z, pos, within) /\ p.rank = pos[x] => Len(xs) = z.length - pos[x] + 1
    BY <1>6, <2>1
  <2> QED BY <2>2, <2>4, <2>5 DEF WalkOK, x
<1>9. CASE ~within[p]
  <2>1. f[p] = <<>>
    BY <1>2, <1>9
  <2>2. Neighbours(z, pos, x, <<>>)
    BY DEF Neighbours
  <2> QED BY <1>7, <1>9, <2>1, <2>2 DEF WalkOK, x
<1> QED BY <1>8, <1>9

LEMMA PassEnds ==
    ASSUME NEW z, NEW pos, Whole(z, pos), NEW within, NEW f, IsPass(z, within, f)
    PROVE  \A p \in Places(z) : p.node \in Members(z) => WalkOK(z, pos, within, p, f[p])
<1> DEFINE B == {n \in Nat : \E p \in Places(z) :
                    /\ p.node \in Members(z) /\ n = z.length - pos[p.node]
                    /\ ~WalkOK(z, pos, within, p, f[p])}
<1>1. \A x \in Members(z) : z.length - pos[x] \in Nat
  BY PosIs
<1>2. SUFFICES ASSUME B # {} PROVE FALSE
  BY <1>1
<1>3. PICK n \in B : \A m \in B : n <= m
  <2>1. B \in SUBSET Nat
    OBVIOUS
  <2> HIDE DEF B
  <2> QED BY <1>2, <2>1, LeastNat
<1>4. PICK p \in Places(z) : p.node \in Members(z) /\ n = z.length - pos[p.node]
                             /\ ~WalkOK(z, pos, within, p, f[p])
  OBVIOUS
<1> DEFINE b == Behind(z, p)
<1>5. ASSUME b.node # NULL PROVE WalkOK(z, pos, within, b, f[b])
  <2>1. b \in Places(z) /\ b.node \in Members(z) /\ pos[b.node] = pos[p.node] + 1
    BY <1>5, BehindIs
  <2> HIDE DEF b
  <2>2. /\ pos[p.node] \in 1 .. z.length /\ pos[b.node] \in 1 .. z.length
        /\ z.length \in Nat
    BY <1>4, <2>1, PosIs
  <2>3. z.length - pos[b.node] \in Nat /\ z.length - pos[b.node] < n
    BY <1>4, <2>1, <2>2
  <2>4. z.length - pos[b.node] \notin B
    <3> DEFINE d == z.length - pos[b.node]
    <3>1. d \in Int /\ n \in Int /\ d < n
      BY <2>2, <2>3
    <3> HIDE DEF B, d
    <3>2. d \notin B
      BY <1>3, <3>1
    <3> QED BY <3>2 DEF d
  <2> QED BY <2>1, <2>3, <2>4
<1> HIDE DEF b, B
<1>6. WalkOK(z, pos, within, p, f[p])
  BY <1>4, <1>5, PassIs DEF b
<1> QED BY <1>4, <1>6

\* A walk forward, from the node behind the first k.
LEMMA RunForward ==
    ASSUME NEW z, NEW pos, Whole(z, pos), NEW within, NEW a \in DOMAIN z.node
    PROVE  LET xs == Run(z, z.node[a].level[1].forward, FALSE, within)
           IN  /\ RunAt(z, pos, pos[a], xs)
               /\ a = Header /\ EveryPlace(z, pos, within) => Len(xs) = z.length
<1> DEFINE x == z.node[a].level[1].forward
           f == CHOOSE g : IsPass(z, within, g)
           p == [node |-> x, rank |-> 1]
           xs == Run(z, x, FALSE, within)
<1>1. xs = IF x = NULL THEN <<>> ELSE f[p]
  BY RunIs
<1>2. /\ x = NULL => pos[a] = z.length
      /\ x # NULL => x \in Members(z) /\ pos[x] = pos[a] + 1
  BY NextIs
<1>3. pos[a] \in Nat /\ z.length \in Nat /\ pos[Header] = 0
  BY PosIs
<1>4. IsPass(z, within, f)
  BY PassExists
<1> HIDE DEF f, x, xs
<1>5. CASE x = NULL
  <2>1. xs = <<>> /\ pos[a] = z.length
    BY <1>1, <1>2, <1>5
  <2>2. RunAt(z, pos, pos[a], xs)
    BY <2>1 DEF RunAt
  <2>3. a = Header => Len(xs) = z.length
    BY <1>3, <2>1
  <2> QED BY <2>2, <2>3 DEF xs, x
<1>6. CASE x # NULL
  <2>1. p \in Places(z) /\ p.node \in Members(z) /\ p.node = x /\ p.rank = 1
    BY <1>2, <1>6 DEF Places, Members
  <2> HIDE DEF p
  <2>2. WalkOK(z, pos, within, p, f[p])
    BY <1>4, <2>1, PassEnds
  <2>3. /\ Neighbours(z, pos, x, xs)
        /\ EveryPlace(z, pos, within) /\ p.rank = pos[x] => Len(xs) = z.length - pos[x] + 1
    BY <1>1, <1>6, <2>1, <2>2 DEF WalkOK
  <2>4. xs \in Seq(Members(z)) /\ \A j \in 1 .. Len(xs) : pos[xs[j]] = pos[x] + (j - 1)
    BY <2>3 DEF Neighbours
  <2>5. \A j \in 1 .. Len(xs) : pos[xs[j]] = pos[a] + j
    BY <1>2, <1>3, <1>6, <2>4
  <2>6. a = Header /\ EveryPlace(z, pos, within) => Len(xs) = z.length
    BY <1>2, <1>3, <1>6, <2>1, <2>3
  <2> QED BY <2>4, <2>5, <2>6 DEF RunAt, xs, x
<1> QED BY <1>5, <1>6

-----------------------------------------------------------------------------
(* What the invariants say of a list that is whole.                        *)

\* There are no more nodes than objects.
LEMMA LengthFits ==
    ASSUME NEW z, NEW pos, Whole(z, pos)
    PROVE  z.length <= Cardinality(Elems) /\ Cardinality(Elems) \in Nat
<1> DEFINE S == Members(z)
           T == 1 .. z.length
           f == [x \in S |-> pos[x]]
<1>1. S \subseteq Elems /\ IsFiniteSet(Elems) /\ z.length \in Nat
      /\ \A x \in S : pos[x] \in T
  BY PosIs, ZSetAssumption
<1>2. IsFiniteSet(S) /\ Cardinality(S) <= Cardinality(Elems)
      /\ Cardinality(S) \in Nat /\ Cardinality(Elems) \in Nat
  <2>1. IsFiniteSet(S) /\ Cardinality(S) <= Cardinality(Elems)
    BY <1>1, FS_Subset
  <2> HIDE DEF S
  <2> QED BY <1>1, <2>1, FS_CardinalityType
<1>3. \A t \in T : \E x \in S : pos[x] = t
  <2> TAKE t \in T
  <2>1. t \in 0 .. z.length /\ t # 0
    BY <1>1
  <2>2. PICK x \in DOMAIN z.node : pos[x] = t
    BY <2>1 DEF Whole, Numbered
  <2>3. x # Header
    BY <2>1, <2>2, PosIs
  <2> QED BY <2>2, <2>3 DEF Members
<1> HIDE DEF S, T
<1>4. f \in Surjection(S, T)
  BY <1>1, <1>3 DEF Surjection
<1>5. Cardinality(T) <= Cardinality(S)
  <2> HIDE DEF f
  <2> QED BY <1>2, <1>4, FS_Surjection
<1>6. Cardinality(T) = z.length
  BY <1>1, FS_Interval DEF T
<1> QED BY <1>1, <1>2, <1>5, <1>6

ChainOf(z) == Run(z, z.node[Header].level[1].forward, FALSE,
                  [p \in Places(z) |-> p.rank <= Cardinality(Elems) + 1])

\* Level 1 runs through every node.
LEMMA ChainIs ==
    ASSUME NEW z, NEW pos, Whole(z, pos)
    PROVE  LET c == ChainOf(z)
           IN  /\ c \in Seq(Members(z)) /\ Len(c) = z.length /\ DOMAIN c = 1 .. z.length
               /\ \A i \in 1 .. z.length : c[i] \in Members(z) /\ pos[c[i]] = i
               /\ \A x \in Members(z) : c[pos[x]] = x
<1> DEFINE within == [p \in Places(z) |-> p.rank <= Cardinality(Elems) + 1]
           c == ChainOf(z)
<1>1. /\ z.length \in Nat /\ pos[Header] = 0 /\ Header \in DOMAIN z.node
      /\ \A x \in Members(z) : x \in DOMAIN z.node /\ pos[x] \in 1 .. z.length
  BY PosIs
<1>2. EveryPlace(z, pos, within)
  <2> SUFFICES ASSUME NEW x \in Members(z) PROVE within[[node |-> x, rank |-> pos[x]]]
    BY DEF EveryPlace
  <2> DEFINE p == [node |-> x, rank |-> pos[x]]
  <2>1. x \in DOMAIN z.node /\ pos[x] \in 1 .. z.length
    BY <1>1
  <2>2. p \in Places(z) /\ p.rank = pos[x]
    BY <1>1, <2>1 DEF Places
  <2>3. pos[x] <= Cardinality(Elems) + 1
    BY <1>1, <2>1, LengthFits
  <2> HIDE DEF p
  <2> QED BY <2>2, <2>3 DEF p
<1> HIDE DEF within
<1>3. RunAt(z, pos, pos[Header], c) /\ Len(c) = z.length
  <2>1. c = Run(z, z.node[Header].level[1].forward, FALSE, within)
    BY DEF ChainOf, within
  <2> QED BY <1>1, <1>2, <2>1, RunForward
<1> HIDE DEF c
<1>4. c \in Seq(Members(z)) /\ \A i \in 1 .. Len(c) : pos[c[i]] = 0 + i
  BY <1>1, <1>3 DEF RunAt
<1>5. DOMAIN c = 1 .. z.length /\ \A i \in 1 .. z.length : c[i] \in Members(z)
  BY <1>1, <1>3, <1>4
<1>6. \A i \in 1 .. z.length : pos[c[i]] = i
  BY <1>1, <1>3, <1>4
<1>7. ASSUME NEW x \in Members(z) PROVE c[pos[x]] = x
  <2>1. pos[x] \in 1 .. z.length
    BY <1>1
  <2>2. c[pos[x]] \in Members(z) /\ pos[c[pos[x]]] = pos[x]
    BY <1>5, <1>6, <2>1
  <2> QED BY <2>2 DEF Whole, Numbered, Members
<1> QED BY <1>3, <1>4, <1>5, <1>6, <1>7 DEF c

InOrder(z, c) ==
    /\ Len(c) = z.length /\ ToSet(c) = Members(z)
    /\ \A i \in 1 .. z.length - 1 : Before(z, c[i], z.node[c[i + 1]].score, c[i + 1])
    /\ \A i \in DOMAIN c : z.node[c[i]].backward = IF i = 1 THEN NULL ELSE c[i - 1]
    /\ z.tail = IF c = <<>> THEN NULL ELSE c[Len(c)]

LEMMA WholeInOrder ==
    ASSUME NEW z, NEW pos, Whole(z, pos)
    PROVE  InOrder(z, ChainOf(z))
<1> DEFINE c == ChainOf(z)
<1>1. /\ c \in Seq(Members(z)) /\ Len(c) = z.length /\ DOMAIN c = 1 .. z.length
      /\ \A i \in 1 .. z.length : c[i] \in Members(z) /\ pos[c[i]] = i
      /\ \A x \in Members(z) : c[pos[x]] = x
  BY ChainIs
<1>2. z.length \in Nat /\ \A x \in Members(z) : pos[x] \in 1 .. z.length /\ x \in DOMAIN z.node
  BY PosIs
<1>3. Backed(z, pos) /\ Ordered(z, pos)
      /\ \A x, y \in DOMAIN z.node : pos[x] = pos[y] => x = y
  BY DEF Whole, Numbered
<1> HIDE DEF c
<1>4. ToSet(c) = Members(z)
  BY <1>1, <1>2 DEF ToSet
<1>5. ASSUME NEW i \in 1 .. z.length - 1
      PROVE  Before(z, c[i], z.node[c[i + 1]].score, c[i + 1])
  <2>1. i \in 1 .. z.length /\ i + 1 \in 1 .. z.length /\ i < i + 1
    BY <1>2
  <2>2. /\ c[i] \in Members(z) /\ pos[c[i]] = i
        /\ c[i + 1] \in Members(z) /\ pos[c[i + 1]] = i + 1
    BY <1>1, <2>1
  <2>3. pos[c[i]] < pos[c[i + 1]]
    BY <2>1, <2>2
  <2> QED BY <1>3, <2>2, <2>3 DEF Ordered
<1>6. ASSUME NEW i \in DOMAIN c
      PROVE  z.node[c[i]].backward = IF i = 1 THEN NULL ELSE c[i - 1]
  <2>1. i \in 1 .. z.length /\ c[i] \in Members(z) /\ pos[c[i]] = i
    BY <1>1
  <2>2. IF i = 1 THEN z.node[c[i]].backward = NULL
        ELSE z.node[c[i]].backward \in Members(z) /\ pos[z.node[c[i]].backward] = i - 1
    BY <1>3, <2>1 DEF Backed
  <2>3. CASE i = 1
    BY <2>2, <2>3
  <2>4. CASE i # 1
    <3> DEFINE b == z.node[c[i]].backward
    <3>1. b \in Members(z) /\ pos[b] = i - 1
      BY <2>2, <2>4
    <3> HIDE DEF b
    <3>2. c[i - 1] = b
      BY <1>1, <3>1
    <3> QED BY <2>4, <3>2 DEF b
  <2> QED BY <2>3, <2>4
<1>7. z.tail = IF c = <<>> THEN NULL ELSE c[Len(c)]
  <2>1. c = <<>> <=> z.length = 0
    BY <1>1
  <2>2. CASE z.length = 0
    BY <1>3, <2>1, <2>2 DEF Backed
  <2>3. CASE z.length # 0
    <3>1. z.tail \in Members(z) /\ pos[z.tail] = z.length
      BY <1>3, <2>3 DEF Backed
    <3>2. c[z.length] = z.tail
      BY <1>1, <3>1
    <3> QED BY <1>1, <2>1, <2>3, <3>2
  <2> QED BY <2>2, <2>3
<1> QED BY <1>1, <1>4, <1>5, <1>6, <1>7 DEF InOrder, c

\* The number of a node is its rank on level 1.
RankIn(c, x) == IF x = Header THEN 0 ELSE CHOOSE i \in DOMAIN c : c[i] = x

LEMMA RankIs ==
    ASSUME NEW z, NEW pos, Whole(z, pos), NEW x \in DOMAIN z.node
    PROVE  RankIn(ChainOf(z), x) = pos[x]
<1> DEFINE c == ChainOf(z)
<1>1. /\ DOMAIN c = 1 .. z.length
      /\ \A i \in 1 .. z.length : pos[c[i]] = i
      /\ \A y \in Members(z) : c[pos[y]] = y
  BY ChainIs
<1>2. pos[Header] = 0 /\ \A y \in Members(z) : pos[y] \in 1 .. z.length
  BY PosIs
<1> HIDE DEF c
<1>3. CASE x = Header
  BY <1>2, <1>3 DEF RankIn
<1>4. CASE x # Header
  <2>1. x \in Members(z)
    BY <1>4 DEF Members
  <2>2. pos[x] \in DOMAIN c /\ c[pos[x]] = x
    BY <1>1, <1>2, <2>1
  <2>3. \A i \in DOMAIN c : c[i] = x => i = pos[x]
    BY <1>1
  <2>4. (CHOOSE i \in DOMAIN c : c[i] = x) = pos[x]
    BY <2>2, <2>3
  <2> QED BY <1>4, <2>4 DEF RankIn, c
<1> QED BY <1>3, <1>4

Measured(z, c) ==
    \A i \in 1 .. z.level, x \in DOMAIN z.node :
        Up(z, x, i) =>
            LET higher == {y \in Members(z) : Up(z, y, i) /\ RankIn(c, y) > RankIn(c, x)}
                l == z.node[x].level[i]
            IN  /\ l.forward = NULL <=> higher = {}
                /\ higher # {} =>
                      /\ l.forward \in higher
                      /\ \A y \in higher : RankIn(c, l.forward) <= RankIn(c, y)
                      /\ l.span = RankIn(c, l.forward) - RankIn(c, x)

LEMMA WholeMeasured ==
    ASSUME NEW z, NEW pos, Whole(z, pos)
    PROVE  Measured(z, ChainOf(z))
<1> DEFINE c == ChainOf(z)
<1>1. \A x \in DOMAIN z.node : RankIn(c, x) = pos[x]
  BY RankIs
<1> HIDE DEF c
<1> SUFFICES ASSUME NEW i \in 1 .. z.level, NEW x \in DOMAIN z.node, Up(z, x, i)
             PROVE  LET higher == {y \in Members(z) : Up(z, y, i) /\ RankIn(c, y) > RankIn(c, x)}
                        l == z.node[x].level[i]
                    IN  /\ l.forward = NULL <=> higher = {}
                        /\ higher # {} =>
                              /\ l.forward \in higher
                              /\ \A y \in higher : RankIn(c, l.forward) <= RankIn(c, y)
                              /\ l.span = RankIn(c, l.forward) - RankIn(c, x)
  BY DEF Measured, c
<1> DEFINE H == {y \in Members(z) : Up(z, y, i) /\ RankIn(c, y) > RankIn(c, x)}
           l == z.node[x].level[i]
<1>2. LinkOK(z, pos, x, i, l)
  <2>1. i <= z.level
    BY PosIs
  <2> QED BY <2>1, LinkIs
<1>3. pos[x] \in Nat /\ NULL \notin Members(z)
      /\ \A y \in Members(z) : pos[y] \in Nat /\ y \in DOMAIN z.node
  BY PosIs DEF Members
<1>4. \A y : y \in H <=> y \in Members(z) /\ Up(z, y, i) /\ pos[y] > pos[x]
  BY <1>1, <1>3
<1>5. \A y \in Members(z) : RankIn(c, y) = pos[y]
  BY <1>1, <1>3
<1> HIDE DEF H, l
<1>6. CASE l.forward = NULL
  <2>1. \A y \in Members(z) : Up(z, y, i) => pos[y] <= pos[x]
    BY <1>2, <1>3, <1>6 DEF LinkOK, NoneUpAfter
  <2>2. H = {}
    BY <1>3, <1>4, <2>1
  <2> QED BY <1>6, <2>2 DEF H, l
<1>7. CASE l.forward # NULL
  <2>1. /\ l.forward \in Members(z) /\ Up(z, l.forward, i)
        /\ pos[l.forward] > pos[x] /\ l.span = pos[l.forward] - pos[x]
        /\ \A y \in Members(z) : Up(z, y, i) /\ pos[y] > pos[x] => pos[l.forward] <= pos[y]
    BY <1>2, <1>7 DEF LinkOK
  <2>2. l.forward \in H
    BY <1>4, <2>1
  <2>3. \A y \in H : RankIn(c, l.forward) <= RankIn(c, y)
    BY <1>4, <1>5, <2>1
  <2>4. l.span = RankIn(c, l.forward) - RankIn(c, x)
    BY <1>1, <1>5, <2>1
  <2> QED BY <1>7, <2>2, <2>3, <2>4 DEF H, l
<1> QED BY <1>6, <1>7

Typed(z) ==
    /\ z.level \in Heights /\ z.length \in Nat
    /\ \A x \in DOMAIN z.node :
          /\ z.node[x].score \in Double
          /\ \A i \in DOMAIN z.node[x].level :
                /\ z.node[x].level[i].forward \in Members(z) \cup {NULL}
                /\ z.node[x].level[i].span \in Nat

LEMMA WholeTyped ==
    ASSUME NEW z, NEW pos, Whole(z, pos)
    PROVE  Typed(z)
<1>1. z.level \in Heights /\ z.length \in Nat /\ z.level \in Nat /\ z \in SkipLists /\ Topped(z)
  BY PosIs DEF Whole
<1>2. ASSUME NEW x \in DOMAIN z.node PROVE z.node[x].score \in Double
  <2>1. z.node[x] \in Node
    BY <1>1, ListIs
  <2> QED BY <2>1, NodeIs DEF Double, Scores
<1>3. ASSUME NEW x \in DOMAIN z.node, NEW i \in DOMAIN z.node[x].level
      PROVE  /\ z.node[x].level[i].forward \in Members(z) \cup {NULL}
             /\ z.node[x].level[i].span \in Nat
  <2>1. Up(z, x, i)
    BY DEF Up
  <2> DEFINE l == z.node[x].level[i]
  <2>2. l.span \in Nat /\ i \in Heights /\ i \in Nat
        /\ (i <= z.level => LinkOK(z, pos, x, i, l))
    BY <2>1, LinkIs
  <2>3. i > z.level => l.forward = NULL
    <3>1. i > z.level => x = Header
      BY <1>1, <2>2 DEF Topped, Members
    <3> QED BY <1>1, <2>2, <3>1 DEF Topped
  <2>4. i <= z.level => l.forward \in Members(z) \cup {NULL}
    BY <2>2 DEF LinkOK
  <2> HIDE DEF l
  <2>5. l.forward \in Members(z) \cup {NULL}
    BY <1>1, <2>2, <2>3, <2>4
  <2> QED BY <2>2, <2>5 DEF l
<1> QED BY <1>1, <1>2, <1>3 DEF Typed

-----------------------------------------------------------------------------
(* The range deletes.                                                      *)

\* What is gone, and what is left of the list.
Rest(z, xs, y) ==
    /\ xs \in Seq(Members(z)) /\ (\E new : Whole(y, new)) /\ Members(y) = Members(z) \ ToSet(xs)
    /\ \A n \in Members(y) : y.node[n].score = z.node[n].score

LEMMA RangeDeleted ==
    ASSUME NEW z, NEW pos, Whole(z, pos), NEW cross, NEW k, Cut(z, pos, cross, k), NEW within
    PROVE  LET at == Search(z, cross)
               xs == Run(z, z.node[at[1].node].level[1].forward, FALSE, within)
           IN  Rest(z, xs, DeleteRun(z, at, xs))
<1> DEFINE at == Search(z, cross)
           a == at[1].node
           xs == Run(z, z.node[a].level[1].forward, FALSE, within)
           y == DeleteRun(z, at, xs)
<1>1. 1 \in 1 .. z.level
  BY PosIs
<1>2. Stop(z, pos, k, 1, at[1])
  BY <1>1, SearchStops
<1>3. a \in DOMAIN z.node /\ pos[a] = k
  <2> HIDE DEF at
  <2> QED BY <1>2, StopIsCut
<1> HIDE DEF a
<1>4. RunAt(z, pos, k, xs)
  BY <1>3, RunForward
<1> HIDE DEF xs
<1>5. /\ \E new : Whole(y, new)
      /\ Members(y) = Members(z) \ {xs[i] : i \in 1 .. Len(xs)}
      /\ \A n \in Members(y) : y.node[n].score = z.node[n].score
  BY <1>4, RunDeleted
<1> HIDE DEF y, at
<1>6. xs \in Seq(Members(z))
  BY <1>4 DEF RunAt
<1>7. ToSet(xs) = {xs[i] : i \in 1 .. Len(xs)}
  BY <1>6 DEF ToSet
<1>8. Rest(z, xs, y)
  BY <1>5, <1>6, <1>7 DEF Rest
<1> QED BY <1>8 DEF xs, y, at, a

LEMMA ScoresDeleted ==
    ASSUME NEW z, NEW pos, Whole(z, pos), NEW range, range.min \in Scores
    PROVE  LET rest == zslDeleteRangeByScore(z, range) IN Rest(z, rest.gone, rest.zsl)
<1> DEFINE cross == BelowThis(z, range)
           within == [p \in Places(z) |-> BelowMax(z.node[p.node].score, range)]
           at == Search(z, cross)
           xs == Run(z, z.node[at[1].node].level[1].forward, FALSE, within)
           y == DeleteRun(z, at, xs)
<1>1. zslDeleteRangeByScore(z, range) = [gone |-> xs, zsl |-> y]
  BY DEF zslDeleteRangeByScore, BelowThis
<1>2. PICK k : Cut(z, pos, cross, k)
  BY ScoreCut
<1> HIDE DEF cross, within
<1>3. Rest(z, xs, y)
  BY <1>2, RangeDeleted
<1> HIDE DEF xs, y
<1> QED BY <1>1, <1>3

LEMMA RanksDeleted ==
    ASSUME NEW z, NEW pos, Whole(z, pos), NEW start \in Int, NEW end
    PROVE  LET rest == zslDeleteRangeByRank(z, start, end) IN Rest(z, rest.gone, rest.zsl)
<1> DEFINE cross == BeforeRank(z, start)
           at == Search(z, cross)
           within == [p \in Places(z) |-> at[1].rank + p.rank <= end]
           xs == Run(z, z.node[at[1].node].level[1].forward, FALSE, within)
           y == DeleteRun(z, at, xs)
<1>1. zslDeleteRangeByRank(z, start, end) = [gone |-> xs, zsl |-> y]
  BY DEF zslDeleteRangeByRank, BeforeRank
<1>2. PICK k : Cut(z, pos, cross, k)
  BY RankCut
<1> HIDE DEF cross, within
<1>3. Rest(z, xs, y)
  BY <1>2, RangeDeleted
<1> HIDE DEF xs, y
<1> QED BY <1>1, <1>3

-----------------------------------------------------------------------------
(* A new list, and one made from a dict.                                   *)

LEMMA CreatedWhole ==
    /\ \E new : Whole(zslCreate, new)
    /\ Members(zslCreate) = {} /\ zslCreate.length = 0 /\ zslCreate.level = 1
<1> DEFINE z == zslCreate
           n == [score |-> 0, backward |-> NULL,
                 level |-> [i \in Heights |-> [forward |-> NULL, span |-> 0]]]
           pos == [x \in {Header} |-> 0]
<1>1. z = [level |-> 1, length |-> 0, tail |-> NULL, node |-> [x \in {Header} |-> n]]
  BY DEF zslCreate, Heights
<1>2. ZSKIPLIST_MAXLEVEL \in Nat \ {0} /\ 0 \in Scores /\ 1 \in Heights
      /\ ZSKIPLIST_MAXLEVEL \in Heights /\ Heights = 1 .. ZSKIPLIST_MAXLEVEL
  BY ZSetAssumption DEF Heights, Scores
<1>3. n \in Node /\ n.backward = NULL
      /\ DOMAIN n.level = Heights
      /\ \A i \in Heights : n.level[i] = [forward |-> NULL, span |-> 0]
  <2> DEFINE l == [i \in Heights |-> [forward |-> NULL, span |-> 0]]
  <2>1. l \in [1 .. ZSKIPLIST_MAXLEVEL -> Link]
    BY <1>2 DEF Link
  <2>2. l \in UNION {[1 .. h -> Link] : h \in Heights}
    <3> HIDE DEF l
    <3> QED BY <1>2, <2>1
  <2>3. DOMAIN l = Heights /\ \A i \in Heights : l[i] = [forward |-> NULL, span |-> 0]
    OBVIOUS
  <2> HIDE DEF l
  <2>4. n = [score |-> 0, backward |-> NULL, level |-> l]
    BY DEF l
  <2> HIDE DEF n
  <2> QED BY <1>2, <2>2, <2>3, <2>4 DEF Node
<1> HIDE DEF n
<1>4. /\ z.level = 1 /\ z.length = 0 /\ z.tail = NULL
      /\ DOMAIN z.node = {Header} /\ z.node[Header] = n /\ Members(z) = {}
  BY <1>1 DEF Members
<1>5. z \in SkipLists
  <2>1. [x \in {Header} |-> n] \in [{Header} \cup {} -> Node]
    BY <1>3
  <2>2. [x \in {Header} |-> n] \in UNION {[{Header} \cup S -> Node] : S \in SUBSET Elems}
    BY <2>1
  <2> HIDE DEF z
  <2> QED BY <1>1, <1>2, <2>2 DEF SkipLists
<1> HIDE DEF z
<1>6. Numbered(z, pos)
  <2>1. pos \in [{Header} -> 0 .. 0]
    OBVIOUS
  <2>2. \A k \in 0 .. 0 : k = 0
    OBVIOUS
  <2> QED BY <1>4, <2>1, <2>2 DEF Numbered
<1>7. Linked(z, pos)
  <2> SUFFICES ASSUME NEW i \in Heights PROVE LinkOK(z, pos, Header, i, n.level[i])
    BY <1>3, <1>4 DEF Linked
  <2> QED BY <1>3, <1>4 DEF LinkOK, NoneUpAfter
<1>8. Topped(z)
  BY <1>3, <1>4 DEF Topped
<1>9. Backed(z, pos) /\ Ordered(z, pos)
  BY <1>4 DEF Backed, Ordered
<1>10. Whole(z, pos)
  BY <1>5, <1>6, <1>7, <1>8, <1>9 DEF Whole
<1> QED BY <1>4, <1>10 DEF z

\* The elements of a set in some order, each of them once.
LEMMA EachOnce ==
    ASSUME NEW S, IsFiniteSet(S)
    PROVE  LET s == SetToSeq(S)
           IN  /\ s \in Seq(S) /\ ToSet(s) = S
               /\ \A i, j \in 1 .. Len(s) : s[i] = s[j] => i = j
<1> DEFINE n == Cardinality(S)
           s == SetToSeq(S)
<1>1. n \in Nat /\ ExistsBijection(1 .. n, S)
  BY FS_CardinalityType
<1> HIDE DEF n
<1>2. PICK f \in [1 .. n -> S] : IsInjective(f)
  BY <1>1 DEF ExistsBijection, Bijection, Injection
<1>3. s \in [1 .. n -> S] /\ IsInjective(s)
  BY <1>2 DEF SetToSeq, n
<1> HIDE DEF s
<1>4. s \in Injection(1 .. n, S)
  BY <1>3 DEF Injection
<1>5. Cardinality(1 .. n) = n
  BY <1>1, FS_Interval
<1>6. s \in Surjection(1 .. n, S)
  BY <1>4, <1>5, FS_Injection DEF n
<1>7. \A e \in S : \E i \in 1 .. n : s[i] = e
  BY <1>6 DEF Surjection
<1>8. s \in Seq(S) /\ Len(s) = n
  BY <1>1, <1>3
<1>9. ToSet(s) = S
  BY <1>3, <1>7 DEF ToSet
<1>10. \A i, j \in 1 .. Len(s) : s[i] = s[j] => i = j
  BY <1>3, <1>8 DEF IsInjective
<1> QED BY <1>8, <1>9, <1>10 DEF s

\* Inserting one member after the other, its recursive part named.
InsertsAll(dict, order, h, f) ==
    f = [n \in 0 .. Len(order) |->
            IF n = 0 THEN zslCreate
            ELSE zslInsert(f[n - 1], h[order[n]], dict[order[n]], order[n])]

LEMMA InsertAllIs ==
    ASSUME NEW dict, NEW order, NEW h
    PROVE  InsertAll(dict, order, h) =
             (CHOOSE f : InsertsAll(dict, order, h, f))[Len(order)]
BY DEF InsertAll, InsertsAll

\* What can be inserted, and the list with the first n of them.
Insertable(dict, order, h) ==
    /\ order \in Seq(Elems)
    /\ \A i, j \in 1 .. Len(order) : order[i] = order[j] => i = j
    /\ \A i \in 1 .. Len(order) : dict[order[i]] \in Scores /\ h[order[i]] \in Heights
Filled(dict, order, n) ==
    {y \in SkipLists :
        /\ \E new : Whole(y, new)
        /\ Members(y) = {order[i] : i \in 1 .. n}
        /\ \A e \in Members(y) : y.node[e].score = dict[e]}

LEMMA OneMoreIn ==
    ASSUME NEW dict, NEW order, NEW h, Insertable(dict, order, h),
           NEW n \in 1 .. Len(order), NEW y \in Filled(dict, order, n - 1)
    PROVE  zslInsert(y, h[order[n]], dict[order[n]], order[n]) \in Filled(dict, order, n)
<1> DEFINE e == order[n]
           score == dict[e]
           height == h[e]
           t == zslInsert(y, height, score, e)
<1>1. PICK pos : Whole(y, pos)
  BY DEF Filled
<1>2. /\ Members(y) = {order[i] : i \in 1 .. n - 1}
      /\ \A m \in Members(y) : y.node[m].score = dict[m]
  BY DEF Filled
<1>3. /\ Len(order) \in Nat /\ n \in Nat /\ n # 0
      /\ e \in Elems /\ score \in Scores /\ height \in Heights
      /\ \A i \in 1 .. n - 1 : order[i] # e
  <2>1. Len(order) \in Nat /\ n \in Nat /\ n # 0 /\ e \in Elems /\ score \in Scores
        /\ height \in Heights /\ order \in Seq(Elems)
    BY DEF Insertable
  <2>2. ASSUME NEW i \in 1 .. n - 1 PROVE order[i] # order[n]
    <3>1. i \in 1 .. Len(order) /\ i # n
      BY <2>1
    <3> QED BY <3>1 DEF Insertable
  <2> QED BY <2>1, <2>2
<1>4. {order[i] : i \in 1 .. n} = {order[i] : i \in 1 .. n - 1} \cup {e}
  <2>1. \A i : i \in 1 .. n <=> i \in 1 .. n - 1 \/ i = n
    BY <1>3
  <2> QED BY <2>1
<1>5. dict[e] = score
  OBVIOUS
<1> HIDE DEF e, score, height
<1>6. e \notin DOMAIN y.node
  <2>1. e \notin Members(y)
    BY <1>2, <1>3
  <2> QED BY <1>3, <2>1, ZSetAssumption DEF Members
<1>7. /\ \E new : Whole(t, new)
      /\ Members(t) = Members(y) \cup {e}
      /\ t.node[e].score = score
      /\ \A m \in Members(y) : t.node[m].score = y.node[m].score
  BY <1>1, <1>3, <1>6, InsertWhole
<1> HIDE DEF t
<1>8. t \in SkipLists
  BY <1>7 DEF Whole
<1>9. Members(t) = {order[i] : i \in 1 .. n}
  BY <1>2, <1>4, <1>7
<1>10. \A m \in Members(t) : t.node[m].score = dict[m]
  BY <1>2, <1>5, <1>7
<1>11. t \in Filled(dict, order, n)
  BY <1>7, <1>8, <1>9, <1>10 DEF Filled
<1> QED BY <1>11 DEF t, e, score, height

LEMMA InsertedAll ==
    ASSUME NEW dict, NEW order, NEW h, Insertable(dict, order, h)
    PROVE  InsertAll(dict, order, h) \in Filled(dict, order, Len(order))
<1> DEFINE D == 0 .. Len(order)
           I == [n \in D |-> Filled(dict, order, n)]
           G == [n \in D |-> [y \in I[n - 1] |->
                   zslInsert(y, h[order[n]], dict[order[n]], order[n])]]
           f == CHOOSE g : InsertsAll(dict, order, h, g)
<1>2. Len(order) \in Nat
  BY DEF Insertable
<1>3. D \in SUBSET Nat /\ 0 \in D /\ \A n \in D \ {0} : n - 1 \in D /\ n \in 1 .. Len(order)
  BY <1>2
<1>4. zslCreate \in I[0]
  <2>1. zslCreate \in SkipLists
    BY CreatedWhole DEF Whole
  <2>2. Members(zslCreate) = {order[i] : i \in 1 .. 0}
    BY CreatedWhole
  <2>3. zslCreate \in Filled(dict, order, 0)
    BY <2>1, <2>2, CreatedWhole DEF Filled
  <2> QED BY <1>3, <2>3
<1>5. ASSUME NEW n \in D \ {0}, NEW y \in I[n - 1]
      PROVE  /\ G[n][y] = zslInsert(y, h[order[n]], dict[order[n]], order[n])
             /\ G[n][y] \in I[n]
  <2>1. I[n - 1] = Filled(dict, order, n - 1) /\ I[n] = Filled(dict, order, n)
    BY <1>3
  <2>2. G[n] = [t \in I[n - 1] |-> zslInsert(t, h[order[n]], dict[order[n]], order[n])]
    OBVIOUS
  <2> HIDE DEF I, G
  <2>3. G[n][y] = zslInsert(y, h[order[n]], dict[order[n]], order[n])
    BY <2>2
  <2>4. zslInsert(y, h[order[n]], dict[order[n]], order[n]) \in Filled(dict, order, n)
    BY <1>3, <2>1, OneMoreIn
  <2> QED BY <2>1, <2>3, <2>4
<1> HIDE DEF D, I, G
<1>6. Turning(D, I, zslCreate, G)
  BY <1>4, <1>5 DEF Turning
<1>7. PICK g : Loop(D, zslCreate, G, g) /\ \A n \in D : g[n] \in I[n]
  BY <1>3, <1>6, LoopSolved
<1>8. g = [n \in D |-> IF n = 0 THEN zslCreate ELSE G[n][g[n - 1]]]
  BY <1>7 DEF Loop
<1>9. \A n \in D : n # 0 =>
         G[n][g[n - 1]] = zslInsert(g[n - 1], h[order[n]], dict[order[n]], order[n])
  BY <1>3, <1>5, <1>7
<1>10. InsertsAll(dict, order, h, g)
  BY <1>8, <1>9 DEF InsertsAll, D
<1>11. InsertsAll(dict, order, h, f)
  BY <1>10
<1>12. InsertAll(dict, order, h) = f[Len(order)]
  BY InsertAllIs
<1> HIDE DEF f
<1>13. f[0] = zslCreate /\ \A n \in D \ {0} :
          f[n] = zslInsert(f[n - 1], h[order[n]], dict[order[n]], order[n])
  BY <1>3, <1>11 DEF InsertsAll, D
<1> DEFINE B == {n \in D : f[n] \in I[n]}
<1>14. 0 \in B
  BY <1>3, <1>4, <1>13
<1>15. ASSUME NEW n \in D \ {0}, n - 1 \in B PROVE n \in B
  BY <1>5, <1>13, <1>15
<1>16. \A n \in D : n \in B
  <2> HIDE DEF B
  <2> QED BY <1>3, <1>14, <1>15, Upwards
<1>17. f[Len(order)] \in Filled(dict, order, Len(order))
  <2>1. Len(order) \in D
    BY <1>2 DEF D
  <2> QED BY <1>16, <2>1 DEF I
<1> QED BY <1>12, <1>17

\* A stored set has its members in the list, with their scores.
LEMMA DictInserted ==
    ASSUME NEW dict, DOMAIN dict \subseteq Elems, \A e \in DOMAIN dict : dict[e] \in Scores,
           NEW h \in [DOMAIN dict -> Heights]
    PROVE  LET z == InsertAll(dict, SetToSeq(DOMAIN dict), h)
           IN  /\ \E pos : Whole(z, pos)
               /\ Members(z) = DOMAIN dict
               /\ \A e \in Members(z) : z.node[e].score = dict[e]
<1> DEFINE S == DOMAIN dict
           order == SetToSeq(S)
           z == InsertAll(dict, order, h)
<1>1. IsFiniteSet(S)
  BY FS_Subset, ZSetAssumption
<1>2. /\ order \in Seq(S) /\ ToSet(order) = S
      /\ \A i, j \in 1 .. Len(order) : order[i] = order[j] => i = j
  BY <1>1, EachOnce
<1> HIDE DEF order
<1>3. \A i \in 1 .. Len(order) : order[i] \in S
  BY <1>2
<1>4. Insertable(dict, order, h)
  BY <1>2, <1>3 DEF Insertable
<1>5. z \in Filled(dict, order, Len(order))
  BY <1>4, InsertedAll
<1> HIDE DEF z
<1>6. {order[i] : i \in 1 .. Len(order)} = S
  BY <1>2 DEF ToSet
<1> QED BY <1>5, <1>6 DEF Filled, z, order

-----------------------------------------------------------------------------
(* Scores.                                                                 *)

LEMMA DoublesAre ==
    /\ Inf \in Nat \ {0} /\ NaN \notin Int /\ 0 \in Scores
    /\ Double = Scores \cup {NaN} /\ Double \ {NaN} = Scores /\ Scores \subseteq Int
    /\ \A n \in Int : Rounded(n) \in Scores
<1>1. Inf \in Nat \ {0} /\ NaN \notin Int
  BY ZSetAssumption
<1>2. \A n \in Int : n \in Scores <=> -Inf <= n /\ n <= Inf
  BY <1>1 DEF Scores
<1>3. Scores \subseteq Int
  BY <1>1 DEF Scores
<1>4. Double = Scores \cup {NaN}
  BY DEF Double, Scores
<1>5. NaN \notin Scores
  BY <1>1, <1>3
<1>6. ASSUME NEW n \in Int PROVE Rounded(n) \in Scores
  BY <1>1, <1>2 DEF Rounded
<1> QED BY <1>1, <1>2, <1>3, <1>4, <1>5, <1>6

\* Sums and products are doubles; a product is NaN only of an infinity and 0.
LEMMA PlusIs == ASSUME NEW a \in Double, NEW b \in Double PROVE Plus(a, b) \in Double
<1>1. CASE NaN \in {a, b} \/ {a, b} = Infinities
  BY <1>1, DoublesAre DEF Plus
<1>2. CASE ~(NaN \in {a, b} \/ {a, b} = Infinities)
  <2>1. a \in Int /\ b \in Int
    BY <1>2, DoublesAre
  <2>2. a + b \in Int
    BY <2>1
  <2>3. Rounded(a + b) \in Double
    BY <2>2, DoublesAre
  <2> QED BY <1>2, <2>3 DEF Plus
<1> QED BY <1>1, <1>2

LEMMA TimesIs ==
    ASSUME NEW a \in Double, NEW b \in Double
    PROVE  /\ Times(a, b) \in Double
           /\ a \in Scores \ {0, Inf, -Inf} /\ b \in Scores => Times(a, b) \in Scores
<1>1. CASE NaN \in {a, b} \/ (0 \in {a, b} /\ {a, b} \cap Infinities # {})
  <2>1. Times(a, b) = NaN
    BY <1>1 DEF Times
  <2>2. ~(a \in Scores \ {0, Inf, -Inf} /\ b \in Scores)
    <3> SUFFICES ASSUME a \in Scores \ {0, Inf, -Inf}, b \in Scores PROVE FALSE
      OBVIOUS
    <3>1. NaN \notin {a, b}
      BY DoublesAre
    <3>2. b = 0 /\ {a, b} \cap Infinities # {}
      BY <1>1, <3>1
    <3>3. a \notin Infinities /\ 0 \notin Infinities
      BY DoublesAre DEF Infinities
    <3> QED BY <3>2, <3>3
  <2> QED BY <2>1, <2>2, DoublesAre
<1>2. CASE ~(NaN \in {a, b} \/ (0 \in {a, b} /\ {a, b} \cap Infinities # {}))
  <2>1. a \in Int /\ b \in Int
    BY <1>2, DoublesAre
  <2>2. a * b \in Int
    BY <2>1
  <2>3. Rounded(a * b) \in Scores
    BY <2>2, DoublesAre
  <2> QED BY <1>2, <2>3, DoublesAre DEF Times
<1> QED BY <1>1, <1>2

\* An aggregation of scores is a score.
LEMMA AggregateIs ==
    ASSUME NEW a \in Double, NEW b \in Double, NEW aggregate \in Aggregates
    PROVE  /\ zunionInterAggregate(a, b, aggregate) \in Double
           /\ a \in Scores /\ b \in Scores => zunionInterAggregate(a, b, aggregate) \in Scores
<1>1. aggregate \in {"SUM", "MIN", "MAX"}
  BY ZSetArgumentsAssumption
<1>2. CASE aggregate = "SUM"
  <2>1. zunionInterAggregate(a, b, aggregate) = IF Plus(a, b) = NaN THEN 0 ELSE Plus(a, b)
    BY <1>2 DEF zunionInterAggregate
  <2>2. Plus(a, b) \in Double
    BY PlusIs
  <2> QED BY <2>1, <2>2, DoublesAre
<1>3. CASE aggregate = "MIN"
  BY <1>3 DEF zunionInterAggregate
<1>4. CASE aggregate = "MAX"
  BY <1>4 DEF zunionInterAggregate
<1> QED BY <1>1, <1>2, <1>3, <1>4

\* The score of a member of several sources, its recursive part named.
Value(op, src, e, j) ==
    Times(IF op = "UNION" /\ src[j].src = src[Min(Holders(src, e))].src
          THEN src[Min(Holders(src, e))].weight ELSE src[j].weight,
          DictOf(src[j].src)[e])
Combining(op, src, e, aggregate, f, j) ==
    IF j = Min(Holders(src, e)) THEN Value(op, src, e, j)
    ELSE IF j \notin Holders(src, e) THEN f[j - 1]
    ELSE zunionInterAggregate(f[j - 1], Value(op, src, e, j), aggregate)
Combines(op, src, e, aggregate, f) ==
    f = [j \in Min(Holders(src, e)) .. Len(src) |-> Combining(op, src, e, aggregate, f, j)]

LEMMA CombinedIs ==
    ASSUME NEW op, NEW src, NEW e, NEW aggregate
    PROVE  Combined(op, src, e, aggregate) =
             (CHOOSE f : Combines(op, src, e, aggregate, f))[Len(src)]
BY DEF Combined, Combines, Combining, Value

\* It is in every set that has the values to aggregate and their aggregations.
LEMMA CombinedIn ==
    ASSUME NEW op, NEW src, NEW e, NEW aggregate, NEW V,
           Len(src) \in Nat, DOMAIN src = 1 .. Len(src), Holders(src, e) # {},
           \A j \in Holders(src, e) : Value(op, src, e, j) \in V,
           \A a, b \in V : zunionInterAggregate(a, b, aggregate) \in V
    PROVE  Combined(op, src, e, aggregate) \in V
<1> DEFINE H == Holders(src, e)
           first == Min(H)
           D == first .. Len(src)
           m == [j \in D |-> j - first]
           F == [a \in D \X [D -> V] |-> Combining(op, src, e, aggregate, a[2], a[1])]
           f == CHOOSE g : Combines(op, src, e, aggregate, g)
<1>1. H \in SUBSET Nat /\ H \subseteq 1 .. Len(src) /\ H # {}
  BY DEF Holders
<1>2. first \in H /\ \A j \in H : first <= j
  <2>1. \E n \in H : \A k \in H : n <= k
    <3> HIDE DEF H
    <3> QED BY <1>1, LeastNat
  <2> HIDE DEF H
  <2> QED BY <2>1 DEF Min
<1>3. \A g, j : Combining(op, src, e, aggregate, g, j) =
         IF j = first THEN Value(op, src, e, j)
         ELSE IF j \notin H THEN g[j - 1]
         ELSE zunionInterAggregate(g[j - 1], Value(op, src, e, j), aggregate)
  BY DEF Combining
<1>4. \A j \in H : Value(op, src, e, j) \in V
  OBVIOUS
<1>5. \A g : Combines(op, src, e, aggregate, g) <=>
                g = [j \in D |-> Combining(op, src, e, aggregate, g, j)]
  BY DEF Combines
<1> HIDE DEF H
<1>6. first \in Nat /\ first <= Len(src) /\ \A j \in D : j \in Nat /\ j - first \in Nat
  <2>1. first \in 1 .. Len(src)
    BY <1>1, <1>2
  <2> HIDE DEF first, m, F, f
  <2>2. first \in Nat /\ first <= Len(src)
    BY <2>1
  <2> QED BY <2>2
<1> HIDE DEF first
<1>7. \A j \in D : j # first => j - 1 \in D /\ m[j - 1] < m[j]
  <2> TAKE j \in D
  <2> HAVE j # first
  <2>1. j - 1 \in D
    BY <1>6
  <2>2. m[j - 1] = j - 1 - first /\ m[j] = j - first
    BY <2>1
  <2> HIDE DEF m
  <2> QED BY <1>6, <2>1, <2>2
<1>8. F \in [D \X [D -> V] -> V]
  <2> SUFFICES ASSUME NEW j \in D, NEW g \in [D -> V]
               PROVE  Combining(op, src, e, aggregate, g, j) \in V
    OBVIOUS
  <2>1. j # first => g[j - 1] \in V
    <3> HIDE DEF D
    <3> QED BY <1>7
  <2> HIDE DEF D, m, F
  <2> QED BY <1>2, <1>3, <1>4, <2>1
<1>9. Descends(D, V, F, m)
  <2>1. m \in [D -> Nat]
    BY <1>6
  <2>2. ASSUME NEW j \in D, NEW g \in [D -> V], NEW h \in [D -> V],
               \A y \in D : m[y] < m[j] => g[y] = h[y]
        PROVE  F[<<j, g>>] = F[<<j, h>>]
    <3>1. F[<<j, g>>] = Combining(op, src, e, aggregate, g, j)
          /\ F[<<j, h>>] = Combining(op, src, e, aggregate, h, j)
      OBVIOUS
    <3>2. j # first => g[j - 1] = h[j - 1]
      <4> HIDE DEF D, m, F
      <4> QED BY <1>7, <2>2
    <3> HIDE DEF D, m, F
    <3> QED BY <1>3, <3>1, <3>2
  <2> HIDE DEF D, m, F
  <2> QED BY <1>8, <2>1, <2>2 DEF Descends
<1>10. [D -> V] # {}
  <2>1. [j \in D |-> Value(op, src, e, first)] \in [D -> V]
    BY <1>2, <1>4
  <2> HIDE DEF D
  <2> QED BY <2>1
<1>11. PICK g \in [D -> V] : g = [j \in D |-> F[<<j, g>>]]
  <2> HIDE DEF D, F, m
  <2> QED BY ONLY <1>9, <1>10, RecursionSolved
<1>12. \A j \in D : F[<<j, g>>] = Combining(op, src, e, aggregate, g, j)
  OBVIOUS
<1>13. g = [j \in D |-> Combining(op, src, e, aggregate, g, j)]
  <2> HIDE DEF F, D
  <2> QED BY <1>11, <1>12
<1>14. f = [j \in D |-> Combining(op, src, e, aggregate, f, j)]
  <2>1. Combines(op, src, e, aggregate, g)
    <3> HIDE DEF F, D
    <3> QED BY <1>5, <1>13
  <2>2. Combines(op, src, e, aggregate, f)
    <3> HIDE DEF F, D, m
    <3> QED BY <2>1
  <2> HIDE DEF F, D, m, f
  <2> QED BY <1>5, <2>2
<1> HIDE DEF f
<1> DEFINE B == {n \in Nat : first + n \in D /\ f[first + n] \notin V}
<1>15. B = {}
  <2>1. SUFFICES ASSUME B # {} PROVE FALSE
    OBVIOUS
  <2>2. PICK n \in B : \A k \in B : n <= k
    <3>1. B \in SUBSET Nat
      OBVIOUS
    <3> HIDE DEF B
    <3> QED BY <2>1, <3>1, LeastNat
  <2> DEFINE j == first + n
  <2>3. n \in Nat /\ j \in D /\ f[j] \notin V
    OBVIOUS
  <2>4. f[j] = Combining(op, src, e, aggregate, f, j)
    <3> HIDE DEF D, j, B, F, m
    <3> QED BY <1>14, <2>3
  <2>5. j # first => f[j - 1] \in V
    <3> SUFFICES ASSUME j # first PROVE f[j - 1] \in V
      OBVIOUS
    <3>1. n - 1 \in Nat /\ first + (n - 1) = j - 1
      BY <1>6, <2>3
    <3>2. j - 1 \in D
      BY <1>6, <2>3, <3>1
    <3>3. n - 1 \notin B
      <4>1. n - 1 < n
        BY <2>3
      <4> HIDE DEF B
      <4> QED BY <2>2, <2>3, <3>1, <4>1
    <3> HIDE DEF D, j
    <3> QED BY <3>1, <3>2, <3>3
  <2> HIDE DEF j, D, F, m, B
  <2> QED BY <1>2, <1>3, <1>4, <2>3, <2>4, <2>5
<1>16. f[Len(src)] \in V
  <2> DEFINE n == Len(src) - first
  <2>1. n \in Nat /\ first + n = Len(src) /\ Len(src) \in D
    BY <1>6
  <2> HIDE DEF n, D
  <2> QED BY <1>15, <2>1
<1>17. Combined(op, src, e, aggregate) = f[Len(src)]
  BY CombinedIs DEF f
<1> QED BY <1>16, <1>17

-----------------------------------------------------------------------------
(* Sorted sets: the dict and the list together.                            *)

\* The two copies agree.
ZsetOK(v) ==
    /\ \E pos : Whole(v.zsl, pos)
    /\ DOMAIN v.dict = Members(v.zsl)
    /\ \A e \in Members(v.zsl) : v.dict[e] = v.zsl.node[e].score

\* What a key may be.
KeyOK(k) ==
    k # Absent =>
        /\ k \in TypedEntry({REDIS_STRING, REDIS_ZSET}, {k.val})
        /\ k.type = REDIS_ZSET => ZsetOK(k.val) /\ DOMAIN k.val.dict # {}

LEMMA CreatedOK == ZsetOK(createZsetObject) /\ DOMAIN createZsetObject.dict = {}
<1>1. createZsetObject.dict = <<>> /\ createZsetObject.zsl = zslCreate
  BY DEF createZsetObject
<1>2. DOMAIN <<>> = {}
  OBVIOUS
<1> QED BY <1>1, <1>2, CreatedWhole DEF ZsetOK

LEMMA MembersAre ==
    ASSUME NEW v, ZsetOK(v)
    PROVE  /\ \A e \in DOMAIN v.dict :
                 e \in Members(v.zsl) /\ e \in Elems /\ v.dict[e] \in Scores
                 /\ v.dict[e] = v.zsl.node[e].score
           /\ DOMAIN v.dict \subseteq Elems
           /\ \A e \in Elems : e \notin DOMAIN v.dict => e \notin DOMAIN v.zsl.node
<1>1. PICK pos : Whole(v.zsl, pos)
  BY DEF ZsetOK
<1>2. \A x \in Members(v.zsl) : x \in Elems /\ v.zsl.node[x].score \in Scores
  BY <1>1, PosIs
<1> QED BY <1>2, ZSetAssumption DEF ZsetOK, Members

LEMMA InsertedOK ==
    ASSUME NEW v, ZsetOK(v), NEW e \in Elems, e \notin DOMAIN v.dict, NEW score \in Scores,
           NEW h \in Heights
    PROVE  LET w == Inserted(v, e, score, h) IN ZsetOK(w) /\ DOMAIN w.dict # {}
<1> DEFINE z == v.zsl
           y == zslInsert(z, h, score, e)
           d == [f \in DOMAIN v.dict \cup {e} |-> IF f = e THEN score ELSE v.dict[f]]
<1>1. PICK pos : Whole(z, pos)
  BY DEF ZsetOK
<1>2. e \notin DOMAIN z.node
  BY MembersAre
<1>3. DOMAIN v.dict = Members(z) /\ \A f \in Members(z) : v.dict[f] = z.node[f].score
  BY DEF ZsetOK
<1>4. Inserted(v, e, score, h) = [dict |-> d, zsl |-> y]
  BY DEF Inserted
<1>5. /\ DOMAIN d = Members(z) \cup {e} /\ d[e] = score
      /\ \A f \in Members(z) : f # e => d[f] = z.node[f].score
  BY <1>3
<1> HIDE DEF z
<1>6. /\ \E new : Whole(y, new)
      /\ Members(y) = Members(z) \cup {e}
      /\ y.node[e].score = score
      /\ \A n \in Members(z) : y.node[n].score = z.node[n].score
  BY <1>1, <1>2, InsertWhole
<1> HIDE DEF y, d
<1>7. e \notin Members(z)
  BY <1>2 DEF Members
<1> QED BY <1>4, <1>5, <1>6, <1>7 DEF ZsetOK

LEMMA RescoredOK ==
    ASSUME NEW v, ZsetOK(v), NEW e \in DOMAIN v.dict, NEW score \in Scores, NEW h \in Heights
    PROVE  LET w == Rescored(v, e, score, h) IN ZsetOK(w) /\ DOMAIN w.dict # {}
<1> DEFINE z == v.zsl
           t == zslDelete(z, v.dict[e], e)
           y == zslInsert(t, h, score, e)
           d == [v.dict EXCEPT ![e] = score]
<1>1. PICK pos : Whole(z, pos)
  BY DEF ZsetOK
<1>2. e \in Members(z) /\ e \in Elems /\ v.dict[e] = z.node[e].score
  BY MembersAre
<1>3. DOMAIN v.dict = Members(z) /\ \A f \in Members(z) : v.dict[f] = z.node[f].score
  BY DEF ZsetOK
<1>4. Rescored(v, e, score, h) = [dict |-> d, zsl |-> y]
  BY DEF Rescored
<1>5. /\ DOMAIN d = Members(z) /\ d[e] = score
      /\ \A f \in Members(z) : f # e => d[f] = z.node[f].score
  BY <1>3
<1> HIDE DEF z, d
<1>6. /\ \E new : Whole(t, new)
      /\ Members(t) = Members(z) \ {e}
      /\ \A n \in Members(t) : t.node[n].score = z.node[n].score
  <2>1. t = zslDelete(z, z.node[e].score, e)
    BY <1>2
  <2> HIDE DEF t
  <2> QED BY <1>1, <1>2, <2>1, MemberDeleted
<1> HIDE DEF t
<1>7. e \notin DOMAIN t.node
  <2>1. e # Header
    BY <1>2 DEF Members
  <2> QED BY <1>6, <2>1 DEF Members
<1>8. PICK p : Whole(t, p)
  BY <1>6
<1>9. /\ \E new : Whole(y, new)
      /\ Members(y) = Members(t) \cup {e}
      /\ y.node[e].score = score
      /\ \A n \in Members(t) : y.node[n].score = t.node[n].score
  BY <1>2, <1>7, <1>8, InsertWhole
<1> HIDE DEF y
<1>10. Members(y) = Members(z)
  BY <1>2, <1>6, <1>9
<1>11. \A f \in Members(y) : d[f] = y.node[f].score
  BY <1>5, <1>6, <1>9, <1>10
<1>12. ZsetOK([dict |-> d, zsl |-> y])
  BY <1>5, <1>9, <1>10, <1>11 DEF ZsetOK
<1> QED BY <1>2, <1>4, <1>5, <1>12

\* A set without the members that are gone.
LEMMA RestOK ==
    ASSUME NEW v, ZsetOK(v), NEW S, NEW y, \E new : Whole(y, new),
           Members(y) = Members(v.zsl) \ S,
           \A n \in Members(y) : y.node[n].score = v.zsl.node[n].score
    PROVE  ZsetOK([dict |-> Without(v.dict, S), zsl |-> y])
<1>1. /\ DOMAIN v.dict = Members(v.zsl)
      /\ \A f \in Members(v.zsl) : v.dict[f] = v.zsl.node[f].score
  BY DEF ZsetOK
<1> DEFINE d == Without(v.dict, S)
<1>2. DOMAIN d = Members(y) /\ \A f \in Members(y) : d[f] = v.dict[f]
  BY <1>1 DEF Without
<1> HIDE DEF d
<1>3. \A f \in Members(y) : d[f] = y.node[f].score
  BY <1>1, <1>2
<1>4. ZsetOK([dict |-> d, zsl |-> y])
  BY <1>2, <1>3 DEF ZsetOK
<1> QED BY <1>4 DEF d

-----------------------------------------------------------------------------
(* The key.                                                                *)

LEMMA WrittenOK ==
    ASSUME KeyOK(key), NEW r \in Requests, NEW v, ZsetOK(v), DOMAIN v.dict # {}
    PROVE  KeyOK(Written(REDIS_ZSET, v, r))
<1>1. r \in [ver : 0 .. VersionMax, care : BOOLEAN, et : Int] /\ VersionMax \in Nat
  BY RequestAssumption
<1>2. key # Absent => key.ver \in 0 .. VersionMax /\ key.due \in Nat \cup {NoTTL}
  BY DEF KeyOK, TypedEntry
<1>3. WriteVersion(r) \in 0 .. VersionMax
  BY <1>1, <1>2 DEF WriteVersion
<1>4. ExpireOrNot(r) \in Nat \cup {NoTTL}
  BY <1>1, <1>2 DEF ExpireOrNot
<1> DEFINE ver == WriteVersion(r)
           due == ExpireOrNot(r)
<1>5. Written(REDIS_ZSET, v, r) = [type |-> REDIS_ZSET, val |-> v, ver |-> ver, due |-> due]
  BY DEF Written
<1> HIDE DEF ver, due
<1> QED BY <1>3, <1>4, <1>5 DEF KeyOK, TypedEntry, ver, due

LEMMA ShrunkOK ==
    ASSUME KeyOK(key), NEW r \in Requests, NEW d, NEW y, ZsetOK([dict |-> d, zsl |-> y])
    PROVE  KeyOK(Shrunk(d, y, r))
<1>1. CASE DOMAIN d = {}
  BY <1>1 DEF Shrunk, KeyOK
<1>2. CASE DOMAIN d # {}
  <2> DEFINE v == [dict |-> d, zsl |-> y]
  <2>1. v.dict = d
    OBVIOUS
  <2> HIDE DEF v
  <2>2. KeyOK(Written(REDIS_ZSET, v, r))
    BY <1>2, <2>1, WrittenOK DEF v
  <2> QED BY <1>2, <2>2 DEF Shrunk, v
<1> QED BY <1>1, <1>2

\* A sorted set that can be read.
LEMMA HeldOK ==
    ASSUME KeyOK(key), Readable(REDIS_ZSET)
    PROVE  ZsetOK(key.val) /\ key # Absent /\ key.type = REDIS_ZSET
BY DEF KeyOK, Readable, HasType

-----------------------------------------------------------------------------
(* The commands.                                                           *)

\* No sorted set has NaN for a score.
NoNaNStored == IsZset => \A e \in DOMAIN key.val.dict : key.val.dict[e] # NaN

\* Arguments of the stores that make no NaN of scores.
FiniteWeights ==
    /\ \A src \in SourceLists : \A i \in DOMAIN src : src[i].weight \notin {0, Inf, -Inf}
    /\ \A k \in DOMAIN Others :
          Others[k] # NULL => \A e \in DOMAIN Others[k] : Others[k][e] # NaN

LEMMA RefuseOK ==
    ASSUME KeyOK(key), NEW cmd, NEW arg, NEW rc, Refuse(cmd, arg, rc)
    PROVE  KeyOK(key')
BY DEF Refuse, Reply

LEMMA RefuseReadOK ==
    ASSUME KeyOK(key), NEW cmd, NEW arg, NEW type, RefuseRead(cmd, arg, type)
    PROVE  KeyOK(key')
BY RefuseOK DEF RefuseRead

LEMMA RefuseWriteOK ==
    ASSUME KeyOK(key), NEW cmd, NEW arg, NEW type, NEW r, RefuseWrite(cmd, arg, type, r)
    PROVE  KeyOK(key')
BY RefuseOK, RefuseReadOK DEF RefuseWrite

LEMMA ZaddOK ==
    ASSUME KeyOK(key), NEW cmd, NEW e \in Elems, NEW s \in ScoreArgs, NEW incr, NEW r \in Requests,
           zaddGenericCommand(cmd, e, s, incr, r)
    PROVE  KeyOK(key')
<1> DEFINE zs == IF key = Absent THEN createZsetObject ELSE key.val
           member == e \in DOMAIN zs.dict
           score == IF incr /\ member THEN Plus(zs.dict[e], s) ELSE s
<1>1. CASE \E rc : Refuse(cmd, <<e, s>>, rc)
  BY <1>1, RefuseOK
<1>2. CASE ~ \E rc : Refuse(cmd, <<e, s>>, rc)
  <2>1. /\ HasType(REDIS_ZSET) /\ ~(incr /\ score = NaN)
        /\ \/ ~member /\ \E h \in Heights : key' = Written(REDIS_ZSET, Inserted(zs, e, score, h), r)
           \/ member /\ key' = Written(REDIS_ZSET, zs, r)
           \/ member /\ \E h \in Heights : key' = Written(REDIS_ZSET, Rescored(zs, e, score, h), r)
    BY <1>2 DEF zaddGenericCommand
  <2>2. ZsetOK(zs)
    <3>1. CASE key = Absent
      BY <3>1, CreatedOK
    <3>2. CASE key # Absent
      BY <2>1, <3>2 DEF HasType, KeyOK
    <3> QED BY <3>1, <3>2
  <2> HIDE DEF zs
  <2>3. s \in Scores
    BY ZSetArgumentsAssumption, DoublesAre
  <2>4. score \in Scores
    <3>1. CASE incr /\ member
      <4>1. zs.dict[e] \in Double /\ s \in Double
        BY <2>2, <2>3, <3>1, MembersAre, DoublesAre
      <4>2. Plus(zs.dict[e], s) \in Double
        BY <4>1, PlusIs
      <4> QED BY <2>1, <3>1, <4>2, DoublesAre
    <3>2. CASE ~(incr /\ member)
      BY <2>3, <3>2
    <3> QED BY <3>1, <3>2
  <2> HIDE DEF score
  <2>5. CASE ~member /\ \E h \in Heights : key' = Written(REDIS_ZSET, Inserted(zs, e, score, h), r)
    <3>1. PICK h \in Heights : key' = Written(REDIS_ZSET, Inserted(zs, e, score, h), r)
      BY <2>5
    <3> DEFINE w == Inserted(zs, e, score, h)
    <3>2. ZsetOK(w) /\ DOMAIN w.dict # {}
      BY <2>2, <2>4, <2>5, InsertedOK
    <3> HIDE DEF w
    <3>3. KeyOK(Written(REDIS_ZSET, w, r))
      BY <3>2, WrittenOK
    <3> QED BY <3>1, <3>3 DEF w
  <2>6. CASE member /\ key' = Written(REDIS_ZSET, zs, r)
    <3>1. DOMAIN zs.dict # {}
      BY <2>6
    <3> QED BY <2>2, <2>6, <3>1, WrittenOK
  <2>7. CASE member /\ \E h \in Heights : key' = Written(REDIS_ZSET, Rescored(zs, e, score, h), r)
    <3>1. PICK h \in Heights : key' = Written(REDIS_ZSET, Rescored(zs, e, score, h), r)
      BY <2>7
    <3> DEFINE w == Rescored(zs, e, score, h)
    <3>2. e \in DOMAIN zs.dict
      BY <2>7
    <3>3. ZsetOK(w) /\ DOMAIN w.dict # {}
      BY <2>2, <2>4, <3>2, RescoredOK
    <3> HIDE DEF w
    <3>4. KeyOK(Written(REDIS_ZSET, w, r))
      BY <3>3, WrittenOK
    <3> QED BY <3>1, <3>4 DEF w
  <2> QED BY <2>1, <2>5, <2>6, <2>7
<1> QED BY <1>1, <1>2

LEMMA ZremOK ==
    ASSUME KeyOK(key), NEW e \in Elems, NEW r \in Requests, Zrem(e, r)
    PROVE  KeyOK(key')
<1> DEFINE v == key.val
           z == v.zsl
           y == zslDelete(z, v.dict[e], e)
<1>1. CASE RefuseWrite("ZREM", <<e>>, REDIS_ZSET, r)
  BY <1>1, RefuseWriteOK
<1>2. CASE Refuse("ZREM", <<e>>, "NOT_EXIST")
  BY <1>2, RefuseOK
<1>3. CASE /\ Writable(REDIS_ZSET, r) /\ e \in DOMAIN v.dict
           /\ key' = Shrunk(Without(v.dict, {e}), y, r)
  <2>1. ZsetOK(v)
    BY <1>3, HeldOK DEF Writable
  <2>2. e \in Members(z) /\ v.dict[e] = z.node[e].score
    BY <1>3, <2>1, MembersAre
  <2>3. PICK pos : Whole(z, pos)
    BY <2>1 DEF ZsetOK
  <2>4. y = zslDelete(z, z.node[e].score, e)
    BY <2>2
  <2> HIDE DEF y, z
  <2>5. /\ \E new : Whole(y, new)
        /\ Members(y) = Members(z) \ {e}
        /\ \A n \in Members(y) : y.node[n].score = z.node[n].score
    BY <2>2, <2>3, <2>4, MemberDeleted
  <2>6. ZsetOK([dict |-> Without(v.dict, {e}), zsl |-> y])
    <3>1. v.zsl = z
      BY DEF z
    <3> HIDE DEF v
    <3> QED BY <2>1, <2>5, <3>1, RestOK
  <2>7. KeyOK(Shrunk(Without(v.dict, {e}), y, r))
    BY <2>6, ShrunkOK
  <2> QED BY <1>3, <2>7 DEF y, z
<1> QED BY <1>1, <1>2, <1>3 DEF Zrem

LEMMA RemovedOK ==
    ASSUME KeyOK(key), NEW cmd, NEW arg, NEW rest,
           NEW r \in Requests, ZsetOK(key.val), Rest(key.val.zsl, rest.gone, rest.zsl),
           Removed(cmd, arg, rest, r)
    PROVE  KeyOK(key')
<1> DEFINE v == key.val
<1>1. CASE Refuse(cmd, arg, "RANGE_HAVE_NONE")
  BY <1>1, RefuseOK
<1>2. CASE key' = Shrunk(Without(v.dict, ToSet(rest.gone)), rest.zsl, r)
  <2>1. /\ \E new : Whole(rest.zsl, new)
        /\ Members(rest.zsl) = Members(v.zsl) \ ToSet(rest.gone)
        /\ \A n \in Members(rest.zsl) : rest.zsl.node[n].score = v.zsl.node[n].score
    BY DEF Rest
  <2>2. ZsetOK(v)
    OBVIOUS
  <2> HIDE DEF v
  <2>3. ZsetOK([dict |-> Without(v.dict, ToSet(rest.gone)), zsl |-> rest.zsl])
    BY <2>1, <2>2, RestOK
  <2>4. KeyOK(Shrunk(Without(v.dict, ToSet(rest.gone)), rest.zsl, r))
    BY <2>3, ShrunkOK
  <2> QED BY <1>2, <2>4
<1> QED BY <1>1, <1>2 DEF Removed

LEMMA ZremrangebyscoreOK ==
    ASSUME KeyOK(key), NEW range \in Ranges, NEW r \in Requests, Zremrangebyscore(range, r)
    PROVE  KeyOK(key')
<1> DEFINE rest == zslDeleteRangeByScore(key.val.zsl, range)
<1>1. CASE RefuseWrite("ZREMRANGEBYSCORE", range, REDIS_ZSET, r)
  BY <1>1, RefuseWriteOK
<1>2. CASE Writable(REDIS_ZSET, r) /\ Removed("ZREMRANGEBYSCORE", range, rest, r)
  <2>1. ZsetOK(key.val)
    BY <1>2, HeldOK DEF Writable
  <2>2. range.min \in Scores
    BY ZSetArgumentsAssumption, DoublesAre
  <2>3. PICK pos : Whole(key.val.zsl, pos)
    BY <2>1 DEF ZsetOK
  <2>4. Rest(key.val.zsl, rest.gone, rest.zsl)
    BY <2>2, <2>3, ScoresDeleted
  <2> HIDE DEF rest
  <2> QED BY <1>2, <2>1, <2>4, RemovedOK
<1> QED BY <1>1, <1>2 DEF Zremrangebyscore

LEMMA First0Is ==
    ASSUME NEW start \in Int, NEW llen \in Nat
    PROVE  First0(start, llen) \in Int
<1> DEFINE n == IF start < 0 THEN llen + start ELSE start
<1>1. n \in Int /\ First0(start, llen) = Max({0, n})
  BY DEF First0
<1> HIDE DEF n
<1>2. CASE n <= 0
  <2>1. Max({0, n}) = 0
    BY <1>1, <1>2, MaxIs
  <2> QED BY <1>1, <2>1
<1>3. CASE n > 0
  <2>1. Max({0, n}) = n
    BY <1>1, <1>3, MaxIs
  <2> QED BY <1>1, <2>1
<1> QED BY <1>1, <1>2, <1>3

LEMMA ZremrangebyrankOK ==
    ASSUME KeyOK(key), NEW start \in RankArgs, NEW end \in RankArgs, NEW r \in Requests,
           Zremrangebyrank(start, end, r)
    PROVE  KeyOK(key')
<1> DEFINE z == key.val.zsl
           a == First0(start, z.length) + 1
           b == Last0(end, z.length) + 1
           rest == zslDeleteRangeByRank(z, a, b)
<1>1. CASE RefuseWrite("ZREMRANGEBYRANK", <<start, end>>, REDIS_ZSET, r)
  BY <1>1, RefuseWriteOK
<1>2. CASE Refuse("ZREMRANGEBYRANK", <<start, end>>, "RANGE_HAVE_NONE")
  BY <1>2, RefuseOK
<1>3. CASE Writable(REDIS_ZSET, r) /\ Removed("ZREMRANGEBYRANK", <<start, end>>, rest, r)
  <2>1. ZsetOK(key.val)
    BY <1>3, HeldOK DEF Writable
  <2>2. PICK pos : Whole(z, pos)
    BY <2>1 DEF ZsetOK
  <2>3. z.length \in Nat
    BY <2>2, PosIs
  <2>4. a \in Int
    <3>1. start \in Int
      BY ZSetArgumentsAssumption
    <3>2. First0(start, z.length) \in Int
      BY <2>3, <3>1, First0Is
    <3> QED BY <3>2
  <2> HIDE DEF a, b
  <2>5. Rest(z, rest.gone, rest.zsl)
    BY <2>2, <2>4, RanksDeleted
  <2> HIDE DEF rest
  <2> QED BY <1>3, <2>1, <2>5, RemovedOK
<1> QED BY <1>1, <1>2, <1>3 DEF Zremrangebyrank

\* What the sources hold.
LEMMA SourceIs ==
    ASSUME KeyOK(key), NEW k \in {Self} \cup DOMAIN Others, DictOf(k) # NULL,
           NEW e \in DOMAIN DictOf(k)
    PROVE  /\ DictOf(k)[e] \in Double
           /\ FiniteWeights => DictOf(k)[e] \in Scores
<1>1. CASE k = Self
  <2>1. Readable(REDIS_ZSET) /\ DictOf(k) = key.val.dict
    BY <1>1 DEF DictOf
  <2>2. ZsetOK(key.val)
    BY <2>1, HeldOK
  <2>3. key.val.dict[e] \in Scores
    BY <2>1, <2>2, MembersAre
  <2> QED BY <2>1, <2>3, DoublesAre
<1>2. CASE k # Self
  <2>1. DictOf(k) = Others[k] /\ k \in DOMAIN Others
    BY <1>2 DEF DictOf
  <2>2. Others[k] \in [DOMAIN Others[k] -> Double]
    BY <2>1, ZSetArgumentsAssumption
  <2>3. DictOf(k)[e] \in Double
    BY <2>1, <2>2
  <2>4. FiniteWeights => DictOf(k)[e] # NaN
    BY <2>1 DEF FiniteWeights
  <2> QED BY <2>3, <2>4, DoublesAre
<1> QED BY <1>1, <1>2

LEMMA SourcesAre ==
    ASSUME NEW src \in SourceLists
    PROVE  /\ Len(src) \in Nat /\ DOMAIN src = 1 .. Len(src) /\ DOMAIN src # {}
           /\ \A i \in DOMAIN src :
                 /\ src[i].src \in {Self} \cup DOMAIN Others
                 /\ src[i].weight \in Scores
                 /\ FiniteWeights => src[i].weight \in Scores \ {0, Inf, -Inf}
<1> DEFINE S == [src : {Self} \cup DOMAIN Others, weight : Double \ {NaN}]
<1>1. src \in Seq(S) /\ src # <<>>
  BY ZSetArgumentsAssumption
<1>2. \A t \in S : t.src \in {Self} \cup DOMAIN Others /\ t.weight \in Scores
  BY DoublesAre
<1> HIDE DEF S
<1>3. Len(src) \in Nat /\ DOMAIN src = 1 .. Len(src) /\ \A i \in DOMAIN src : src[i] \in S
  BY <1>1
<1>4. DOMAIN src # {}
  BY <1>1
<1>5. FiniteWeights => \A i \in DOMAIN src : src[i].weight \notin {0, Inf, -Inf}
  BY DEF FiniteWeights
<1> QED BY <1>2, <1>3, <1>4, <1>5

\* What a store aggregates.
LEMMA ValueIs ==
    ASSUME KeyOK(key), NEW op, NEW src \in SourceLists, NEW e, NEW j \in Holders(src, e)
    PROVE  /\ Value(op, src, e, j) \in Double
           /\ FiniteWeights => Value(op, src, e, j) \in Scores
<1> DEFINE first == Min(Holders(src, e))
           w == IF op = "UNION" /\ src[j].src = src[first].src
                THEN src[first].weight ELSE src[j].weight
           d == DictOf(src[j].src)
<1>1. \A i \in Holders(src, e) :
         i \in DOMAIN src /\ DictOf(src[i].src) # NULL /\ e \in DOMAIN DictOf(src[i].src)
  BY DEF Holders
<1>2. /\ Len(src) \in Nat /\ DOMAIN src = 1 .. Len(src)
      /\ \A i \in DOMAIN src :
            /\ src[i].src \in {Self} \cup DOMAIN Others
            /\ src[i].weight \in Scores
            /\ FiniteWeights => src[i].weight \in Scores \ {0, Inf, -Inf}
  BY SourcesAre
<1>3. first \in Holders(src, e)
  <2> DEFINE H == Holders(src, e)
  <2>1. H \in SUBSET Nat /\ H # {}
    BY <1>1, <1>2
  <2> HIDE DEF H
  <2>2. \E n \in H : \A k \in H : n <= k
    BY <2>1, LeastNat
  <2>3. Min(H) \in H
    BY <2>2 DEF Min
  <2> QED BY <2>3 DEF H
<1>4. d[e] \in Double /\ (FiniteWeights => d[e] \in Scores)
  BY <1>1, <1>2, SourceIs
<1>5. first \in DOMAIN src /\ j \in DOMAIN src
  BY <1>1, <1>3
<1> HIDE DEF first
<1>6. w \in Scores /\ (FiniteWeights => w \in Scores \ {0, Inf, -Inf})
  BY <1>2, <1>5
<1>7. Value(op, src, e, j) = Times(w, d[e])
  BY DEF Value, first
<1> HIDE DEF w, d
<1>8. w \in Double
  BY <1>6, DoublesAre
<1> QED BY <1>4, <1>6, <1>7, <1>8, TimesIs

LEMMA ContentsAre ==
    ASSUME KeyOK(key), NEW op \in {"UNION", "INTER"}, NEW src \in SourceLists,
           NEW aggregate \in Aggregates
    PROVE  LET d == Contents(op, src, aggregate)
           IN  /\ DOMAIN d \subseteq Elems
               /\ \A e \in DOMAIN d : d[e] \in Double /\ (FiniteWeights => d[e] \in Scores)
<1> DEFINE S == {e \in Elems : IF op = "UNION" THEN Holders(src, e) # {}
                               ELSE Holders(src, e) = DOMAIN src}
           d == Contents(op, src, aggregate)
<1>1. d = [e \in S |-> Combined(op, src, e, aggregate)]
  BY DEF Contents
<1>2. /\ Len(src) \in Nat /\ DOMAIN src = 1 .. Len(src) /\ DOMAIN src # {}
  BY SourcesAre
<1>3. DOMAIN d = S /\ S \subseteq Elems
      /\ \A e \in S : d[e] = Combined(op, src, e, aggregate) /\ Holders(src, e) # {}
  BY <1>1, <1>2
<1> HIDE DEF d, S
<1>4. ASSUME NEW e \in S
      PROVE  d[e] \in Double /\ (FiniteWeights => d[e] \in Scores)
  <2>1. /\ \A j \in Holders(src, e) : Value(op, src, e, j) \in Double
        /\ FiniteWeights => \A j \in Holders(src, e) : Value(op, src, e, j) \in Scores
    BY ValueIs
  <2>2. /\ \A a, b \in Double : zunionInterAggregate(a, b, aggregate) \in Double
        /\ \A a, b \in Scores : zunionInterAggregate(a, b, aggregate) \in Scores
    BY AggregateIs, DoublesAre
  <2>3. Holders(src, e) # {}
    BY <1>3
  <2>4. Combined(op, src, e, aggregate) \in Double
    BY <1>2, <2>1, <2>2, <2>3, CombinedIn
  <2>5. FiniteWeights => Combined(op, src, e, aggregate) \in Scores
    BY <1>2, <2>1, <2>2, <2>3, CombinedIn
  <2> QED BY <1>3, <2>4, <2>5
<1> QED BY <1>3, <1>4 DEF d

\* A store makes a sorted set unless it makes NaN.
LEMMA StoreOK ==
    ASSUME KeyOK(key), NEW op \in {"UNION", "INTER"}, NEW src \in SourceLists,
           NEW aggregate \in Aggregates, NEW ver \in {r.ver : r \in Requests},
           zunionInterGenericCommand(op, src, aggregate, ver)
    PROVE  FiniteWeights \/ NoNaNStored' => KeyOK(key')
<1> DEFINE d == Contents(op, src, aggregate)
           arg == <<op, src, aggregate>>
<1>1. CASE Refuse("ZSTORE", arg, "WRONG_TYPE")
  BY <1>1, RefuseOK
<1>2. CASE key' = Absent
  BY <1>2 DEF KeyOK
<1>3. CASE /\ DOMAIN d # {}
           /\ \E h \in [DOMAIN d -> Heights] :
                 key' = [type |-> REDIS_ZSET, ver |-> ver, due |-> NoTTL,
                         val |-> [dict |-> d, zsl |-> InsertAll(d, SetToSeq(DOMAIN d), h)]]
  <2>1. PICK h \in [DOMAIN d -> Heights] :
           key' = [type |-> REDIS_ZSET, ver |-> ver, due |-> NoTTL,
                   val |-> [dict |-> d, zsl |-> InsertAll(d, SetToSeq(DOMAIN d), h)]]
    BY <1>3
  <2>2. /\ DOMAIN d \subseteq Elems /\ DOMAIN d # {}
        /\ \A e \in DOMAIN d : d[e] \in Double /\ (FiniteWeights => d[e] \in Scores)
    BY <1>3, ContentsAre
  <2>3. ver \in 0 .. VersionMax
    BY RequestAssumption
  <2> HIDE DEF d
  <2> DEFINE y == InsertAll(d, SetToSeq(DOMAIN d), h)
             v == [dict |-> d, zsl |-> y]
  <2>4. key' = [type |-> REDIS_ZSET, ver |-> ver, due |-> NoTTL, val |-> v] /\ v.dict = d /\ v.zsl = y
    BY <2>1
  <2> HIDE DEF v
  <2>5. key'.type = REDIS_ZSET /\ key'.val = v
    BY <2>4
  <2> SUFFICES ASSUME FiniteWeights \/ NoNaNStored', key' # Absent PROVE KeyOK(key')
    BY DEF KeyOK
  <2>6. \A e \in DOMAIN d : d[e] \in Scores
    <3>1. CASE FiniteWeights
      BY <2>2, <3>1
    <3>2. CASE NoNaNStored'
      <4>1. \A e \in DOMAIN v.dict : v.dict[e] # NaN
        BY <2>4, <2>5, <3>2 DEF NoNaNStored, IsZset
      <4> QED BY <2>2, <2>4, <4>1, DoublesAre
    <3> QED BY <3>1, <3>2
  <2>7. /\ \E pos : Whole(y, pos) /\ Members(y) = DOMAIN d
        /\ \A e \in Members(y) : y.node[e].score = d[e]
    BY <2>1, <2>2, <2>6, DictInserted
  <2> HIDE DEF y
  <2>8. ZsetOK(v)
    BY <2>4, <2>7 DEF ZsetOK
  <2>9. key' \in TypedEntry({REDIS_STRING, REDIS_ZSET}, {key'.val})
    BY <2>3, <2>4, <2>5 DEF TypedEntry
  <2>10. KeyOK(key')
    BY <2>2, <2>4, <2>5, <2>8, <2>9 DEF KeyOK
  <2> QED BY <2>10
<1> QED BY <1>1, <1>2, <1>3 DEF zunionInterGenericCommand

-----------------------------------------------------------------------------
(* The inductive invariant, and what it implies.                           *)

IInv == KeyOK(key)

LEMMA InitOK == Init => IInv
BY DEF Init, TypedInit, IInv, KeyOK

LEMMA ReadOK == ASSUME IInv, ReadCommand PROVE IInv'
<1> USE DEF RefuseRead, Refuse, Reply
<1>1. \A start, end, reverse : zrangeGenericCommand(start, end, reverse) => key' = key
  BY DEF zrangeGenericCommand
<1>2. \A cmd, range, limit, reverse :
         genericZrangebyscoreCommand(cmd, range, limit, reverse) => key' = key
  BY DEF genericZrangebyscoreCommand
<1>3. /\ \A range, limit, reverse : Zrangebyscore(range, limit, reverse) => key' = key
      /\ \A range : Zcount(range) => key' = key
  BY <1>2 DEF Zrangebyscore, Zcount
<1>4. Zcard => key' = key
  BY DEF Zcard
<1>5. \A e : Zscore(e) => key' = key
  BY DEF Zscore
<1>6. \A e, reverse : Zrank(e, reverse) => key' = key
  BY DEF Zrank
<1>7. key' = key
  BY <1>1, <1>3, <1>4, <1>5, <1>6 DEF ReadCommand
<1> QED BY <1>7 DEF IInv

LEMMA WriteOK ==
    ASSUME IInv, WriteCommand, FiniteWeights \/ NoNaNStored'
    PROVE  IInv'
<1>1. KeyOK(key)
  BY DEF IInv
<1> SUFFICES KeyOK(key')
  BY DEF IInv
<1>2. CASE \E r \in Requests : \E e \in Elems, s \in ScoreArgs : Zadd(e, s, r)
  BY <1>1, <1>2, ZaddOK DEF Zadd
<1>3. CASE \E r \in Requests : \E e \in Elems, s \in ScoreArgs : Zincrby(e, s, r)
  BY <1>1, <1>3, ZaddOK DEF Zincrby
<1>4. CASE \E r \in Requests : \E e \in Elems : Zrem(e, r)
  BY <1>1, <1>4, ZremOK
<1>5. CASE \E r \in Requests : \E range \in Ranges : Zremrangebyscore(range, r)
  BY <1>1, <1>5, ZremrangebyscoreOK
<1>6. CASE \E r \in Requests : \E start, end \in RankArgs : Zremrangebyrank(start, end, r)
  BY <1>1, <1>6, ZremrangebyrankOK
<1>7. CASE \E op \in {"UNION", "INTER"}, src \in SourceLists, a \in Aggregates,
              ver \in {r.ver : r \in Requests} : zunionInterGenericCommand(op, src, a, ver)
  <2>1. PICK op \in {"UNION", "INTER"}, src \in SourceLists, a \in Aggregates,
             ver \in {r.ver : r \in Requests} : zunionInterGenericCommand(op, src, a, ver)
    BY <1>7
  <2> QED BY <1>1, <2>1, StoreOK
<1> QED BY <1>2, <1>3, <1>4, <1>5, <1>6, <1>7 DEF WriteCommand

LEMMA StepOK ==
    ASSUME IInv, [Next]_typedVars, FiniteWeights \/ NoNaNStored'
    PROVE  IInv'
<1>1. CASE WriteCommand
  BY <1>1, WriteOK
<1>2. CASE ReadCommand
  BY <1>2, ReadOK
<1>3. CASE \E rc \in {"IS_NOT_DOUBLE", "IS_NOT_INTEGER", "SYNTAX_ERROR"} : Malformed(rc)
  BY <1>3, RefuseOK DEF Malformed, IInv
<1>4. CASE Goes
  BY <1>4 DEF Goes, IInv, KeyOK
<1>5. CASE StoredOtherwise
  <2>1. key' = [type |-> REDIS_STRING, val |-> 0, ver |-> 0, due |-> NoTTL]
    BY <1>5 DEF StoredOtherwise
  <2>2. 0 \in 0 .. VersionMax
    BY RequestAssumption
  <2>3. REDIS_STRING # REDIS_ZSET
    BY ZSetAssumption
  <2> QED BY <2>1, <2>2, <2>3 DEF IInv, KeyOK, TypedEntry
<1>6. CASE UNCHANGED typedVars
  BY <1>6 DEF typedVars, IInv
<1> QED BY <1>1, <1>2, <1>3, <1>4, <1>5, <1>6 DEF Next

\* A sorted set that is held is whole.
LEMMA HeldWhole ==
    ASSUME IInv, IsZset
    PROVE  /\ ZsetOK(key.val) /\ DOMAIN key.val.dict # {}
           /\ \E pos : Whole(Zsl, pos)
BY DEF IInv, IsZset, KeyOK, ZsetOK, Zsl

LEMMA TypesHold == ASSUME IInv PROVE TypeOK
<1>1. key # Absent => key \in TypedEntry({REDIS_STRING, REDIS_ZSET}, {key.val})
  BY DEF IInv, KeyOK
<1>2. ASSUME IsZset PROVE Typed(Zsl) /\ DOMAIN key.val.dict \subseteq Elems
  BY <1>2, HeldWhole, WholeTyped, MembersAre
<1> QED BY <1>1, <1>2 DEF TypeOK, Typed, Members, Nodes

LEMMA OrderHolds == ASSUME IInv PROVE ListInOrder
<1> SUFFICES ASSUME IsZset PROVE ListInOrder
  BY DEF ListInOrder
<1>1. InOrder(Zsl, ChainOf(Zsl))
  BY HeldWhole, WholeInOrder
<1>2. Chain = ChainOf(Zsl) /\ Nodes = Members(Zsl)
  BY DEF Chain, ChainOf, First, Nodes, Members
<1> HIDE DEF Zsl
<1> QED BY <1>1, <1>2 DEF InOrder, ListInOrder

LEMMA SpansHold == ASSUME IInv PROVE SpansMeasure
<1> SUFFICES ASSUME IsZset PROVE SpansMeasure
  BY DEF SpansMeasure
<1>1. Measured(Zsl, ChainOf(Zsl))
  BY HeldWhole, WholeMeasured
<1>2. Chain = ChainOf(Zsl) /\ Nodes = Members(Zsl)
  BY DEF Chain, ChainOf, First, Nodes, Members
<1>3. \A x : RankOf(x) = RankIn(ChainOf(Zsl), x)
  BY <1>2 DEF RankOf, RankIn
<1>4. \A x, i : Reaches(x, i) <=> Up(Zsl, x, i)
  BY DEF Reaches, Up
<1> QED BY <1>1, <1>2, <1>3, <1>4 DEF Measured, SpansMeasure

LEMMA DictHolds == ASSUME IInv PROVE DictAgrees
<1> SUFFICES ASSUME IsZset PROVE DictAgrees
  BY DEF DictAgrees
<1>1. Nodes = Members(key.val.zsl) /\ Zsl = key.val.zsl
  BY DEF Nodes, Members, Zsl
<1> QED BY <1>1, HeldWhole DEF ZsetOK, DictAgrees

LEMMA FindingHolds == ASSUME IInv PROVE MembersAreFound
<1> SUFFICES ASSUME IsZset PROVE MembersAreFound
  BY DEF MembersAreFound
<1>1. PICK pos : Whole(Zsl, pos)
  BY HeldWhole
<1>2. \A e \in DOMAIN key.val.dict :
         e \in Members(Zsl) /\ key.val.dict[e] = Zsl.node[e].score
  BY HeldWhole, MembersAre DEF Zsl
<1>3. \A e \in DOMAIN key.val.dict : Finds(Zsl, key.val.dict[e], e)
  BY <1>1, <1>2, MemberFound
<1> QED BY <1>3 DEF MembersAreFound

-----------------------------------------------------------------------------
(* The theorems.                                                           *)

\* However its commands interleave with clears and expiry, a key that never
\* stores NaN holds a sorted set whose list is whole and agrees with its dict.
THEOREM ZSetsStayOK == Spec /\ []NoNaNStored => []IInv
<1>1. Init => IInv
  BY InitOK
<1>2. IInv /\ [Next]_typedVars /\ NoNaNStored' => IInv'
  BY StepOK
<1> QED BY <1>1, <1>2, PTL DEF Spec

\* The key and every field of the skip list keep their types: no span, which
\* zslInsert and zslDeleteNode add to and take from, goes below zero.
THEOREM ZSetTypes == Spec /\ []NoNaNStored => []TypeOK
<1>1. IInv => TypeOK
  BY TypesHold
<1> QED BY <1>1, ZSetsStayOK, PTL

\* Level 1 runs through every node once, in the order of scores and names,
\* and the backward links and the tail run back: zslInsert, zslDeleteNode and
\* the range deletes keep what ZRANGE walks.
THEOREM ListsStayInOrder == Spec /\ []NoNaNStored => []ListInOrder
<1>1. IInv => ListInOrder
  BY OrderHolds
<1> QED BY <1>1, ZSetsStayOK, PTL

\* On every level a link goes to the next node that reaches it, over as many
\* nodes as its span says: ZRANK and access by rank add these up.
THEOREM SpansStayExact == Spec /\ []NoNaNStored => []SpansMeasure
<1>1. IInv => SpansMeasure
  BY SpansHold
<1> QED BY <1>1, ZSetsStayOK, PTL

\* The dict and the list of t_zset.c have the same members with the same
\* scores, and no empty set stays stored.
THEOREM DictsAgree == Spec /\ []NoNaNStored => []DictAgrees
<1>1. IInv => DictAgrees
  BY DictHolds
<1> QED BY <1>1, ZSetsStayOK, PTL

\* The assertions of ZADD and ZREM hold: zslDelete finds every member.
THEOREM MembersStayFound == Spec /\ []NoNaNStored => []MembersAreFound
<1>1. IInv => MembersAreFound
  BY FindingHolds
<1> QED BY <1>1, ZSetsStayOK, PTL

\* A store whose weights are finite and not zero, over sources without NaN,
\* stores no NaN: the other commands never do.
THEOREM NoNaNMade == ASSUME FiniteWeights PROVE Spec => []NoNaNStored
<1>1. Init => IInv
  BY InitOK
<1>2. IInv /\ [Next]_typedVars => IInv'
  BY StepOK
<1>3. IInv => NoNaNStored
  BY HeldWhole, MembersAre, DoublesAre DEF NoNaNStored
<1> QED BY <1>1, <1>2, <1>3, PTL DEF Spec

\* With such weights all of it holds of every behaviour.
THEOREM ZSetsHold ==
    ASSUME FiniteWeights
    PROVE  Spec => [](TypeOK /\ ListInOrder /\ SpansMeasure /\ DictAgrees /\ MembersAreFound)
BY NoNaNMade, ZSetTypes, ListsStayInOrder, SpansStayExact, DictsAgree, MembersStayFound, PTL

=============================================================================
